---------------------------- MODULE KVStoreProofs ----------------------------
(***************************************************************************)
(* Theorems about KVStore, for every set of checkpoints, engines and       *)
(* faults and every budget.                                                *)
(***************************************************************************)
EXTENDS KVStore, FiniteSetTheorems, SequenceTheorems, WellFoundedInduction, TLAPS

Texts == {s.text : s \in Snapshots}
File == [tokens : Nat, reason : Reasons, trailer : Nat, model : {e.model : e \in Engines},
         quant : {e.quant : e \in Engines}, ctx : Nat, hits : 0 .. MaxHits, whole : BOOLEAN]
Checkpoint == [text : Texts, tokens : Nat]
Job == [reason : Reasons \cup {"none"}, trailer : Nat, extra : Nat, unread : BOOLEAN]

TypeOK ==
  /\ up \in Engines \cup {None} /\ live \in Checkpoint \cup {None}
  /\ job \in Job /\ total \in Nat /\ tmp \in File \cup {None} /\ refused \in BOOLEAN

FilesInv ==
  /\ IsFiniteSet(DOMAIN files) /\ DOMAIN files \subseteq Texts /\ files \in [DOMAIN files -> File]
  /\ \A k \in DOMAIN files : files[k].whole /\ files[k].tokens >= MinTokens

(* A call that writes a new file: its text has no file the engine could    *)
(* use, unless that one could not be read, and the size it makes room for  *)
(* is the size it will write.                                              *)
Storing == pc \in {"stage", "create", "write", "rename"} \/ (pc = "evict" /\ job # NoJob)
StoreInv ==
  Storing =>
    /\ live # None /\ live.tokens >= MinTokens /\ job.reason \in Reasons /\ (Kept => job.unread)
    /\ job.extra = FileSize(live.text, live.tokens, job.trailer)

(* What has been written of it. *)
WrittenInv ==
  pc \in {"write", "rename"} => tmp = [NewFile EXCEPT !.whole = (pc = "rename")]

(* A checkpoint that is or was just kept or stored is there to be found.   *)
KeptInv == pc = "trailer" \/ (Idle /\ ret \in {"stored", "kept"}) => live # None /\ Kept

(* What eviction believes is no more than is there, and is what is there   *)
(* while every file could be read and removed; then the new file fits.     *)
RoomInv ==
  /\ pc = "evict" => seen \subseteq Entries /\ total <= Total /\ (~refused => seen = Entries /\ total = Total)
  /\ pc \in {"evict", "create", "write", "rename"} => job.extra <= Budget
  /\ pc \in {"create", "write", "rename"} /\ ~refused => Total + job.extra <= Budget
  /\ ret \in {"stored", "opened"} => pc = "idle" /\ (~refused => Total <= Budget)

KInv ==
  /\ TypeOK /\ (pc # "idle" => up # None)
  /\ FilesInv /\ StoreInv /\ WrittenInv /\ KeptInv /\ RoomInv

-----------------------------------------------------------------------------
(* Sums *)

LEMMA LeastExists ==
  ASSUME NEW S \in SUBSET Nat, S # {}
  PROVE  \E n \in S : \A m \in S : n <= m
<1>1. PICK n \in S : \A m \in S : ~(<<m, n>> \in OpToRel(<, Nat))
  BY NatLessThanWellFounded, WFMin
<1>2. \A m \in S : ~(m < n)
  BY <1>1 DEF OpToRel
<1> QED  BY <1>2

Pick(s) == CHOOSE x \in s : TRUE
IsSum(g, f, S) ==
  g = [s \in SUBSET S |-> IF s = {} THEN 0 ELSE LET x == CHOOSE x \in s : TRUE IN f[x] + g[s \ {x}]]
LEMMA SumIs ==
  ASSUME NEW f
  PROVE SumFunction(f) = (CHOOSE g : IsSum(g, f, DOMAIN f))[DOMAIN f]
BY DEF IsSum, SumFunction, SumFunctionOnSet, FoldFunctionOnSet, MapThenFoldSet

LEMMA PickIn == ASSUME NEW s, s # {} PROVE Pick(s) \in s
BY DEF Pick
(* Taking one from a finite set. *)
LEMMA OneLess ==
  ASSUME NEW S, IsFiniteSet(S), NEW s \in SUBSET S, NEW x \in s
  PROVE  /\ s \ {x} \in SUBSET S /\ IsFiniteSet(s) /\ Cardinality(s) \in Nat
         /\ Cardinality(s \ {x}) \in Nat /\ Cardinality(s \ {x}) = Cardinality(s) - 1
<1>1. IsFiniteSet(s)
  BY FS_Subset
<1> QED  BY <1>1, FS_RemoveElement, FS_CardinalityType

LEMMA SumExists ==
  ASSUME NEW S, IsFiniteSet(S), NEW f \in [S -> Nat]
  PROVE  \E g \in [SUBSET S -> Nat] : IsSum(g, f, S)
<1> DEFINE Upto(n) == {s \in SUBSET S : Cardinality(s) <= n}
           Good(g, n) == \A s \in Upto(n) : g[s] = IF s = {} THEN 0 ELSE f[Pick(s)] + g[s \ {Pick(s)}]
           Bad == {n \in Nat : ~\E g \in [Upto(n) -> Nat] : Good(g, n)}
<1>0. \A s \in SUBSET S : IsFiniteSet(s) /\ Cardinality(s) \in Nat /\ (s = {} <=> Cardinality(s) = 0)
  BY FS_Subset, FS_CardinalityType, FS_EmptySet
<1>1. Bad = {}
  <2> SUFFICES ASSUME Bad # {} PROVE FALSE
    OBVIOUS
  <2>1. PICK n \in Bad : \A m \in Bad : n <= m
    BY LeastExists
  <2>2. CASE n = 0
    <3> DEFINE g == [s \in Upto(0) |-> 0]
    <3>1. g \in [Upto(0) -> Nat] /\ Good(g, 0)
      BY <1>0
    <3> QED  BY <2>1, <2>2, <3>1
  <2>3. CASE n # 0
    <3>1. n - 1 \in Nat /\ n - 1 \notin Bad
      <4>1. n \in Nat
        OBVIOUS
      <4>2. n - 1 \in Nat /\ ~(n <= n - 1)
        BY <2>3, <4>1
      <4> HIDE DEF Bad
      <4> QED  BY <2>1, <4>2
    <3>2. PICK g \in [Upto(n - 1) -> Nat] : Good(g, n - 1)
      BY <3>1
    <3> DEFINE h == [s \in Upto(n) |-> IF s = {} THEN 0 ELSE f[Pick(s)] + g[s \ {Pick(s)}]]
    <3>3. ASSUME NEW s \in Upto(n), s # {}
          PROVE  s \ {Pick(s)} \in Upto(n - 1) /\ s \ {Pick(s)} \in Upto(n) /\ f[Pick(s)] \in Nat
      <4>1. Pick(s) \in s /\ Pick(s) \in S
        BY <3>3, PickIn
      <4>2. Cardinality(s) <= n /\ n \in Nat
        OBVIOUS
      <4> QED  BY <4>1, <4>2, OneLess
    <3>4. h \in [Upto(n) -> Nat]
      <4>1. ASSUME NEW s \in Upto(n) PROVE (IF s = {} THEN 0 ELSE f[Pick(s)] + g[s \ {Pick(s)}]) \in Nat
        BY <3>3, <3>2
      <4> QED  BY <4>1
    <3>5. \A s \in Upto(n - 1) : s \in Upto(n) /\ h[s] = g[s]
      <4>1. \A s \in Upto(n - 1) : s \in Upto(n)
        BY <1>0, <3>1
      <4> QED  BY <3>2, <4>1
    <3>6. Good(h, n)
      BY <3>3, <3>5
    <3> QED  BY <2>1, <3>4, <3>6
  <2> QED  BY <2>2, <2>3
<1> DEFINE c == Cardinality(S)
<1>2. c \in Nat /\ Upto(c) = SUBSET S
  BY FS_CardinalityType, FS_Subset
<1>3. PICK g \in [Upto(c) -> Nat] : Good(g, c)
  BY <1>1, <1>2
<1>4. IsSum(g, f, S)
  BY <1>2, <1>3 DEF IsSum, Pick
<1> QED  BY <1>2, <1>3, <1>4

LEMMA SumTyped ==
  ASSUME NEW S, IsFiniteSet(S), NEW f \in [S -> Nat], NEW g, IsSum(g, f, S)
  PROVE  g \in [SUBSET S -> Nat]
<1> DEFINE Bad == {n \in Nat : \E t \in SUBSET S : Cardinality(t) = n /\ g[t] \notin Nat}
<1>0. \A s \in SUBSET S : g[s] = IF s = {} THEN 0 ELSE f[Pick(s)] + g[s \ {Pick(s)}]
  BY DEF IsSum, Pick
<1>1. Bad = {}
  <2> SUFFICES ASSUME Bad # {} PROVE FALSE
    OBVIOUS
  <2>1. PICK n \in Bad : \A m \in Bad : n <= m
    BY LeastExists
  <2>2. PICK t \in SUBSET S : Cardinality(t) = n /\ g[t] \notin Nat
    OBVIOUS
  <2>3. t # {}
    <3>1. ASSUME t = {} PROVE g[t] = 0
      BY <1>0, <3>1
    <3> QED  BY <2>2, <3>1
  <2> DEFINE c == Pick(t)
  <2>4. c \in t /\ g[t] = f[c] + g[t \ {c}]
    BY <1>0, <2>3, PickIn
  <2> HIDE DEF c
  <2>5. t \ {c} \in SUBSET S /\ Cardinality(t \ {c}) \in Nat /\ Cardinality(t \ {c}) = n - 1 /\ n \in Nat
    BY <2>2, <2>4, OneLess
  <2>6. ~(n <= Cardinality(t \ {c}))
    BY <2>5
  <2>7. Cardinality(t \ {c}) \notin Bad
    <3> HIDE DEF Bad
    <3> QED  BY <2>1, <2>6
  <2>8. g[t \ {c}] \in Nat /\ f[c] \in Nat
    BY <2>4, <2>5, <2>7
  <2> QED  BY <2>2, <2>4, <2>8
<1>2. ASSUME NEW s \in SUBSET S PROVE g[s] \in Nat
  <2>1. Cardinality(s) \in Nat
    BY FS_Subset, FS_CardinalityType
  <2> QED  BY <1>1, <2>1
<1>3. g = [s \in SUBSET S |-> g[s]]
  BY DEF IsSum
<1> QED  BY <1>2, <1>3

(* The order in which the elements are added up does not matter.  By the   *)
(* smallest set for which it would.                                        *)
LEMMA AnyOrder ==
  ASSUME NEW S, IsFiniteSet(S), NEW f \in [S -> Nat], NEW g, IsSum(g, f, S),
         NEW s \in SUBSET S, NEW x \in s
  PROVE  g[s] = f[x] + g[s \ {x}]
<1> DEFINE Wrong(t, y) == g[t] # f[y] + g[t \ {y}]
           Bad == {n \in Nat : \E t \in SUBSET S : \E y \in t : Cardinality(t) = n /\ Wrong(t, y)}
<1>0. g \in [SUBSET S -> Nat]
  BY SumTyped
<1>1. \A t \in SUBSET S : t # {} => g[t] = f[Pick(t)] + g[t \ {Pick(t)}]
  BY DEF IsSum, Pick
<1>2. Bad = {}
  <2> SUFFICES ASSUME Bad # {} PROVE FALSE
    OBVIOUS
  <2>1. PICK n \in Bad : \A m \in Bad : n <= m
    BY LeastExists
  <2>0. PICK t \in SUBSET S : \E y \in t : Cardinality(t) = n /\ Wrong(t, y)
    OBVIOUS
  <2>2. PICK y \in t : Cardinality(t) = n /\ Wrong(t, y)
    BY <2>0
  <2>3. ASSUME NEW u \in SUBSET S, NEW z \in u, Cardinality(u) \in Nat, Cardinality(u) < n
        PROVE  g[u] = f[z] + g[u \ {z}]
    <3>1. n \in Nat
      OBVIOUS
    <3>2. ~(n <= Cardinality(u))
      BY <2>3, <3>1
    <3>3. Cardinality(u) \notin Bad
      <4> HIDE DEF Bad
      <4> QED  BY <2>1, <3>2
    <3> QED  BY <2>3, <3>3
  <2> DEFINE c == Pick(t)
  <2>4. c \in t /\ g[t] = f[c] + g[t \ {c}]
    BY <1>1, PickIn
  <2>5. c # y
    BY <2>2, <2>4
  <2> HIDE DEF c
  <2>6. /\ t \ {c} \in SUBSET S /\ Cardinality(t \ {c}) \in Nat /\ Cardinality(t \ {c}) < n
        /\ t \ {y} \in SUBSET S /\ Cardinality(t \ {y}) \in Nat /\ Cardinality(t \ {y}) < n
    BY <2>2, <2>4, OneLess
  <2>7. /\ g[t \ {c}] = f[y] + g[(t \ {c}) \ {y}]
        /\ g[t \ {y}] = f[c] + g[(t \ {y}) \ {c}]
    BY <2>3, <2>4, <2>5, <2>6
  <2>8. (t \ {c}) \ {y} = (t \ {y}) \ {c} /\ (t \ {y}) \ {c} \in SUBSET S
    OBVIOUS
  <2> DEFINE p == f[c]
             q == f[y]
             r == g[(t \ {y}) \ {c}]
             gc == g[t \ {c}]
             gy == g[t \ {y}]
  <2>9. p \in Nat /\ q \in Nat /\ r \in Nat
    BY <1>0, <2>4, <2>8
  <2>10. gc = q + r /\ gy = p + r /\ g[t] = p + gc /\ g[t] # q + gy
    BY <2>2, <2>4, <2>7, <2>8
  <2> HIDE DEF p, q, r, gc, gy
  <2> QED  BY <2>9, <2>10
<1>3. Cardinality(s) \in Nat
  BY OneLess
<1> QED  BY <1>2, <1>3

(* What is left when one is taken away is added up the same. *)
LEMMA SameSum ==
  ASSUME NEW S, IsFiniteSet(S), NEW f \in [S -> Nat], NEW g, IsSum(g, f, S),
         NEW T \in SUBSET S, NEW e \in [T -> Nat], NEW h, IsSum(h, e, T),
         \A x \in T : e[x] = f[x]
  PROVE  g[T] = h[T]
<1> DEFINE Bad == {n \in Nat : \E t \in SUBSET T : Cardinality(t) = n /\ g[t] # h[t]}
<1>0. /\ \A t \in SUBSET T : t # {} => h[t] = e[Pick(t)] + h[t \ {Pick(t)}]
      /\ \A t \in SUBSET T : t # {} => g[t] = f[Pick(t)] + g[t \ {Pick(t)}]
      /\ g[{}] = 0 /\ h[{}] = 0
  BY DEF IsSum, Pick
<1>1. Bad = {}
  <2> SUFFICES ASSUME Bad # {} PROVE FALSE
    OBVIOUS
  <2>1. PICK n \in Bad : \A m \in Bad : n <= m
    BY LeastExists
  <2>2. PICK t \in SUBSET T : Cardinality(t) = n /\ g[t] # h[t]
    OBVIOUS
  <2>3. t # {}
    BY <1>0, <2>2
  <2> DEFINE c == Pick(t)
  <2>4. c \in t /\ g[t] = f[c] + g[t \ {c}] /\ h[t] = e[c] + h[t \ {c}]
    BY <1>0, <2>3, PickIn
  <2> HIDE DEF c
  <2>5. t \ {c} \in SUBSET T /\ Cardinality(t \ {c}) \in Nat /\ Cardinality(t \ {c}) = n - 1 /\ n \in Nat
    BY <2>2, <2>4, OneLess
  <2>6. ~(n <= Cardinality(t \ {c}))
    BY <2>5
  <2>7. Cardinality(t \ {c}) \notin Bad
    <3> HIDE DEF Bad
    <3> QED  BY <2>1, <2>6
  <2> QED  BY <2>2, <2>4, <2>5, <2>7
<1>2. IsFiniteSet(T) /\ Cardinality(T) \in Nat
  BY FS_Subset, FS_CardinalityType
<1> QED  BY <1>1, <1>2

(* The sum that SumFunction takes. *)
LEMMA SumTaken ==
  ASSUME NEW S, IsFiniteSet(S), NEW f \in [S -> Nat]
  PROVE  \E g : IsSum(g, f, S) /\ SumFunction(f) = g[S]
<1> DEFINE g == CHOOSE k : IsSum(k, f, S)
<1>1. IsSum(g, f, S)
  BY SumExists
<1>2. SumFunction(f) = g[S]
  BY SumIs
<1> HIDE DEF g
<1> QED  BY <1>1, <1>2

LEMMA SumWithout ==
  ASSUME NEW S, IsFiniteSet(S), NEW f \in [S -> Nat]
  PROVE  /\ SumFunction(f) \in Nat
         /\ S = {} => SumFunction(f) = 0
         /\ \A x \in S : SumFunction(f) = f[x] + SumFunction([y \in S \ {x} |-> f[y]])
<1>1. PICK g : IsSum(g, f, S) /\ SumFunction(f) = g[S]
  BY SumTaken
<1>2. S \in SUBSET S
  OBVIOUS
<1>3. S = {} => g[S] = 0
  BY <1>1, <1>2 DEF IsSum
<1>4. ASSUME NEW x \in S PROVE SumFunction(f) = f[x] + SumFunction([y \in S \ {x} |-> f[y]])
  <2> DEFINE T == S \ {x}
             e == [y \in T |-> f[y]]
  <2>1. IsFiniteSet(T) /\ T \in SUBSET S /\ e \in [T -> Nat]
    BY FS_Subset
  <2>2. \A y \in T : e[y] = f[y]
    OBVIOUS
  <2> HIDE DEF e, T
  <2>3. PICK h : IsSum(h, e, T) /\ SumFunction(e) = h[T]
    BY <2>1, SumTaken
  <2>4. g[T] = h[T]
    BY <1>1, <2>1, <2>2, <2>3, SameSum
  <2>5. g[S] = f[x] + g[S \ {x}]
    BY <1>1, <1>2, AnyOrder
  <2> QED  BY <1>1, <2>3, <2>4, <2>5 DEF e, T
<1>5. g[S] \in Nat
  <2>1. g \in [SUBSET S -> Nat]
    BY <1>1, SumTyped
  <2> QED  BY <1>2, <2>1
<1> QED  BY <1>1, <1>3, <1>4, <1>5

(* A part adds up to no more than the whole, by the largest part that      *)
(* would not.                                                              *)
LEMMA SumPart ==
  ASSUME NEW S, IsFiniteSet(S), NEW f \in [S -> Nat], NEW T \in SUBSET S
  PROVE  SumFunction([y \in T |-> f[y]]) \in Nat /\ SumFunction([y \in T |-> f[y]]) <= SumFunction(f)
<1> DEFINE Part(U) == SumFunction([y \in U |-> f[y]])
           Bad == {n \in Nat : \E U \in SUBSET S : Cardinality(S \ U) = n /\ ~(Part(U) <= Part(S))}
<1>1. ASSUME NEW U \in SUBSET S
      PROVE  Part(U) \in Nat /\ \A x \in U : Part(U) = f[x] + Part(U \ {x})
  <2> DEFINE e == [y \in U |-> f[y]]
  <2>1. IsFiniteSet(U) /\ e \in [U -> Nat]
    BY FS_Subset
  <2>2. \A x \in U : [y \in U \ {x} |-> e[y]] = [y \in U \ {x} |-> f[y]] /\ e[x] = f[x]
    OBVIOUS
  <2>3. SumFunction(e) \in Nat /\ \A x \in U : SumFunction(e) = e[x] + SumFunction([y \in U \ {x} |-> e[y]])
    <3> HIDE DEF e
    <3> QED  BY <2>1, SumWithout
  <2> HIDE DEF e
  <2>4. \A x \in U : SumFunction(e) = f[x] + SumFunction([y \in U \ {x} |-> f[y]])
    BY <2>2, <2>3
  <2> QED  BY <2>3, <2>4 DEF e
<1>2. S \in SUBSET S /\ Part(S) = SumFunction(f)
  BY DEF Part
<1>3. Bad = {}
  <2> SUFFICES ASSUME Bad # {} PROVE FALSE
    OBVIOUS
  <2>1. PICK n \in Bad : \A m \in Bad : n <= m
    BY LeastExists
  <2>2. PICK U \in SUBSET S : Cardinality(S \ U) = n /\ ~(Part(U) <= Part(S))
    OBVIOUS
  <2>3. PICK x \in S : x \notin U
    <3>1. CASE U = S
      BY <1>1, <1>2, <2>2, <3>1
    <3> QED  BY <3>1
  <2> DEFINE W == U \cup {x}
  <2>4. W \in SUBSET S /\ x \in W /\ W \ {x} = U /\ S \ W = (S \ U) \ {x} /\ x \in S \ U
    BY <2>3
  <2>5. Cardinality(S \ W) \in Nat /\ Cardinality(S \ W) = n - 1 /\ n \in Nat
    BY <2>2, <2>4, OneLess
  <2> HIDE DEF Part, W
  <2>6. ~(n <= Cardinality(S \ W))
    BY <2>5
  <2>7. Cardinality(S \ W) \notin Bad
    <3> HIDE DEF Bad
    <3> QED  BY <2>1, <2>6
  <2>8. Part(W) <= Part(S)
    BY <2>4, <2>5, <2>7
  <2>9. Part(W) = f[x] + Part(U) /\ f[x] \in Nat /\ Part(W) \in Nat /\ Part(U) \in Nat /\ Part(S) \in Nat
    BY <1>1, <1>2, <2>3, <2>4
  <2> QED  BY <2>2, <2>8, <2>9
<1>4. Cardinality(S \ T) \in Nat
  BY FS_Subset, FS_CardinalityType
<1>5. Part(T) \in Nat /\ Part(T) <= Part(S)
  <2>1. Part(T) <= Part(S)
    BY <1>3, <1>4
  <2> QED  BY <1>1, <2>1
<1> QED  BY <1>2, <1>5

-----------------------------------------------------------------------------
(* The directory *)

Sizes == [k \in Entries |-> SizeOf(k)]

LEMMA TotalIs == Total = SumFunction(Sizes) /\ Total' = SumFunction(Sizes')
BY DEF Total, TotalOf, Sizes

LEMMA EntriesAll == ASSUME FilesInv PROVE Entries = DOMAIN files
BY DEF FilesInv, Entries

(* A text is a sequence, so a file has a size. *)
LEMMA SizeType ==
  ASSUME NEW k \in Texts, NEW n \in Nat, NEW t \in Nat
  PROVE  Len(k) \in Nat /\ FileSize(k, n, t) \in Nat /\ FileSize(k, n, t) > n
<1>1. PICK s \in Snapshots : k = s.text
  BY DEF Texts
<1>2. Len(k) \in Nat
  BY <1>1, StoreAssumption, LenProperties
<1>3. Overhead \in Nat \ {0}
  BY StoreAssumption
<1> QED  BY <1>2, <1>3 DEF FileSize

LEMMA SizesType ==
  ASSUME FilesInv
  PROVE  IsFiniteSet(Entries) /\ Sizes \in [Entries -> Nat] /\ Total \in Nat
<1>1. IsFiniteSet(Entries)
  BY EntriesAll DEF FilesInv
<1>2. ASSUME NEW k \in Entries PROVE SizeOf(k) \in Nat
  <2>1. k \in Texts /\ files[k] \in File
    BY EntriesAll DEF FilesInv
  <2>2. files[k].tokens \in Nat /\ files[k].trailer \in Nat
    BY <2>1 DEF File
  <2> QED  BY <2>1, <2>2, SizeType DEF SizeOf
<1>3. Sizes \in [Entries -> Nat]
  BY <1>2 DEF Sizes
<1> QED  BY <1>1, <1>3, SumWithout, TotalIs

(* What is seen of the directory is no more than there is. *)
LEMMA ViewTotal ==
  ASSUME FilesInv, NEW v \in Views
  PROVE  v \subseteq Entries /\ TotalOf(v) \in Nat /\ TotalOf(v) <= Total
<1>1. v \in SUBSET Entries
  BY DEF Views
<1>2. [k \in v |-> SizeOf(k)] = [k \in v |-> Sizes[k]]
  BY <1>1 DEF Sizes
<1>3. TotalOf(v) = SumFunction([k \in v |-> Sizes[k]])
  BY <1>2 DEF TotalOf
<1> QED  BY <1>1, <1>3, SizesType, SumPart, TotalIs

LEMMA Looks ==
  ASSUME FilesInv, Look
  PROVE  /\ seen' \subseteq Entries /\ total' \in Nat /\ total' <= Total /\ refused' \in BOOLEAN
         /\ ~refused' => seen' = Entries /\ total' = Total
<1>1. PICK v \in Views : seen' = v /\ total' = TotalOf(v) /\ refused' = (v # Entries)
  BY DEF Look
<1> QED  BY <1>1, ViewTotal DEF Total

(* A file that goes takes its size with it. *)
LEMMA Removes ==
  ASSUME FilesInv, NEW k \in DOMAIN files, files' = Without(k)
  PROVE  /\ FilesInv' /\ DOMAIN files' = DOMAIN files \ {k} /\ Entries' = Entries \ {k}
         /\ \A j \in DOMAIN files' : files'[j] = files[j]
         /\ Total = SizeOf(k) + Total' /\ SizeOf(k) \in Nat /\ Total' \in Nat
<1>1. DOMAIN files' = DOMAIN files \ {k} /\ \A j \in DOMAIN files' : files'[j] = files[j]
  BY DEF Without
<1>2. IsFiniteSet(DOMAIN files')
  BY <1>1, FS_Subset DEF FilesInv
<1>3. FilesInv'
  BY <1>1, <1>2 DEF FilesInv, Without
<1>4. Entries' = Entries \ {k} /\ k \in Entries
  BY <1>1 DEF Entries, FilesInv
<1>5. Sizes' = [j \in Entries \ {k} |-> Sizes[j]]
  BY <1>1, <1>4 DEF Sizes, SizeOf, Entries
<1>6. SizeOf(k) = Sizes[k]
  BY <1>4 DEF Sizes
<1>7. Total = Sizes[k] + SumFunction([j \in Entries \ {k} |-> Sizes[j]]) /\ Sizes[k] \in Nat
  BY <1>4, SizesType, SumWithout, TotalIs
<1>8. Total' = SumFunction([j \in Entries \ {k} |-> Sizes[j]])
  BY <1>5, TotalIs
<1>9. Total' \in Nat
  <2>1. IsFiniteSet(Entries') /\ Sizes' \in [Entries' -> Nat]
    BY <1>4, <1>5, SizesType, FS_Subset
  <2> QED  BY <2>1, SumWithout, TotalIs
<1> QED  BY <1>1, <1>3, <1>4, <1>6, <1>7, <1>8, <1>9

(* A file that comes, in place of another or not, adds at most its size. *)
LEMMA Adds ==
  ASSUME FilesInv, NEW k \in Texts, NEW f \in File, f.whole, f.tokens >= MinTokens, files' = With(k, f)
  PROVE  /\ FilesInv' /\ k \in DOMAIN files' /\ files'[k] = f
         /\ \A j \in DOMAIN files : j # k => j \in DOMAIN files' /\ files'[j] = files[j]
         /\ Total' \in Nat /\ Total' <= Total + FileSize(k, f.tokens, f.trailer)
<1>1. /\ DOMAIN files' = DOMAIN files \cup {k} /\ files'[k] = f
      /\ \A j \in DOMAIN files : j # k => files'[j] = files[j]
  BY DEF With
<1>2. IsFiniteSet(DOMAIN files')
  BY <1>1, FS_AddElement DEF FilesInv
<1>3. FilesInv'
  <2>1. \A j \in DOMAIN files' : files'[j] \in File /\ files'[j].whole /\ files'[j].tokens >= MinTokens
    BY <1>1 DEF FilesInv
  <2>2. files' = [j \in DOMAIN files' |-> files'[j]]
    BY DEF With
  <2> QED  BY <1>1, <1>2, <2>1, <2>2 DEF FilesInv
<1> DEFINE rest == [j \in Entries \ {k} |-> Sizes[j]]
<1>4. Entries' = Entries \cup {k} /\ Entries' \ {k} = Entries \ {k} /\ k \in Entries'
  BY <1>1 DEF Entries
<1>5. /\ Sizes'[k] = FileSize(k, f.tokens, f.trailer)
      /\ [j \in Entries' \ {k} |-> Sizes'[j]] = rest
  BY <1>1, <1>4 DEF Sizes, SizeOf, Entries
<1>6. IsFiniteSet(Entries') /\ Sizes' \in [Entries' -> Nat]
  <2>1. ASSUME NEW j \in Entries' PROVE Sizes'[j] \in Nat
    <3>1. CASE j = k
      <4>1. f.tokens \in Nat /\ f.trailer \in Nat
        BY DEF File
      <4> QED  BY <1>5, <3>1, <4>1, SizeType
    <3>2. CASE j # k
      <4>1. Sizes'[j] = Sizes[j] /\ j \in Entries
        BY <1>4, <1>5, <3>2
      <4> QED  BY <4>1, SizesType
    <3> QED  BY <3>1, <3>2
  <2>2. Sizes' = [j \in Entries' |-> Sizes'[j]]
    BY DEF Sizes
  <2>3. IsFiniteSet(Entries')
    BY <1>4, SizesType, FS_AddElement
  <2> QED  BY <2>1, <2>2, <2>3
<1>7. Total' = FileSize(k, f.tokens, f.trailer) + SumFunction(rest)
  <2>1. Total' = SumFunction(Sizes')
    BY TotalIs
  <2>2. SumFunction(Sizes') = Sizes'[k] + SumFunction([j \in Entries' \ {k} |-> Sizes'[j]])
    BY <1>4, <1>6, SumWithout
  <2> QED  BY <1>5, <2>1, <2>2
<1>8. SumFunction(rest) \in Nat /\ SumFunction(rest) <= Total
  <2>1. IsFiniteSet(Entries \ {k}) /\ rest \in [Entries \ {k} -> Nat]
    BY SizesType, FS_Subset
  <2>2. SumFunction(rest) \in Nat
    BY <2>1, SumWithout
  <2>3. CASE k \in Entries
    <3>1. SumFunction(Sizes) = Sizes[k] + SumFunction(rest) /\ Sizes[k] \in Nat /\ SumFunction(Sizes) = Total
      <4>1. SumFunction(Sizes) = Total
        BY TotalIs
      <4> QED  BY <2>3, <4>1, SizesType, SumWithout
    <3> QED  BY <2>2, <3>1
  <2>4. CASE k \notin Entries
    <3>1. rest = Sizes
      BY <2>4, SizesType
    <3> QED  BY <2>2, <3>1, SizesType, TotalIs
  <2> QED  BY <2>3, <2>4
<1>9. FileSize(k, f.tokens, f.trailer) \in Nat
  <2>1. f.tokens \in Nat /\ f.trailer \in Nat
    BY DEF File
  <2> QED  BY <2>1, SizeType
<1>10. Total' \in Nat /\ Total' <= Total + FileSize(k, f.tokens, f.trailer)
  BY <1>7, <1>8, <1>9, SizesType
<1> QED  BY <1>1, <1>3, <1>10

(* A field of a file that nobody looks a file up by. *)
LEMMA Changes ==
  ASSUME FilesInv, NEW k \in DOMAIN files, NEW f \in File, f.whole, f.tokens = files[k].tokens,
         files' = [files EXCEPT ![k] = f]
  PROVE  FilesInv' /\ DOMAIN files' = DOMAIN files /\ files'[k] = f
         /\ \A j \in DOMAIN files : files'[j].tokens = files[j].tokens
<1>1. DOMAIN files' = DOMAIN files /\ files'[k] = f /\ \A j \in DOMAIN files : j # k => files'[j] = files[j]
  BY DEF FilesInv
<1>2. files' \in [DOMAIN files -> File]
  BY DEF FilesInv
<1> QED  BY <1>1, <1>2 DEF FilesInv

-----------------------------------------------------------------------------
(* Steps *)

LEMMA JobType == NoJob \in Job /\ NoJob.extra = 0
BY StoreAssumption DEF NoJob, Job

LEMMA InitOk == Init => KInv
<1> SUFFICES ASSUME Init PROVE KInv
  OBVIOUS
<1>1. DOMAIN files = {}
  BY DEF Init
<1>2. FilesInv
  BY <1>1, FS_EmptySet DEF FilesInv, Init
<1> QED  BY <1>2, JobType DEF Init, KInv, TypeOK, StoreInv, Storing, WrittenInv, KeptInv, Idle, RoomInv

(* What is left to show of a step that ends a call. *)
LEMMA Returns ==
  ASSUME KInv, NEW r, Return(r), FilesInv', up' \in Engines \cup {None}, live' \in Checkpoint \cup {None},
         refused' \in BOOLEAN, r \in {"stored", "kept"} => live' # None /\ Kept',
         r \in {"stored", "opened"} /\ ~refused' => Total' <= Budget
  PROVE  KInv'
<1>1. pc' = "idle" /\ ret' = r /\ job' = NoJob /\ tmp' = None /\ total' = 0
  BY DEF Return
<1> QED  BY <1>1, JobType DEF KInv, TypeOK, StoreInv, Storing, WrittenInv, KeptInv, Idle, RoomInv

(* And of one that moves on inside a call. *)
LEMMA GoesOn ==
  ASSUME KInv, NEW s, Goto(s), s \notin {"idle", "trailer"}, FilesInv', job' \in Job, total' \in Nat,
         tmp' \in File \cup {None}, refused' \in BOOLEAN, up # None, ret' \notin {"stored", "opened"},
         StoreInv', WrittenInv', RoomInv'
  PROVE  KInv'
BY DEF Goto, memory, KInv, TypeOK, KeptInv, Idle

LEMMA OpenOk == ASSUME KInv, NEW e \in Engines, Open(e) PROVE KInv'
<1>1. /\ pc' = "evict" /\ job' = NoJob /\ ret' = "none" /\ up' = e /\ up' # None
      /\ live' = None /\ files' = files /\ tmp' = tmp /\ Look
  BY StoreAssumption DEF Open
<1>0. /\ seen' \subseteq Entries /\ total' \in Nat /\ total' <= Total /\ refused' \in BOOLEAN
      /\ ~refused' => seen' = Entries /\ total' = Total
  BY <1>1, Looks DEF KInv
<1>2. FilesInv' /\ Total' = Total /\ Entries' = Entries
  BY <1>1 DEF KInv, FilesInv, Total, TotalOf, SizeOf, Entries
<1>3. Total' \in Nat /\ Budget \in Nat
  BY <1>2, SizesType, StoreAssumption DEF KInv
<1>4. TypeOK'
  BY <1>0, <1>1, JobType DEF KInv, TypeOK
<1>5. RoomInv'
  BY <1>0, <1>1, <1>2, <1>3, JobType DEF RoomInv
<1>6. StoreInv' /\ WrittenInv' /\ KeptInv'
  BY <1>1 DEF StoreInv, Storing, WrittenInv, KeptInv, Idle
<1> QED  BY <1>1, <1>2, <1>4, <1>5, <1>6 DEF KInv

LEMMA StopOk == ASSUME KInv, Stop PROVE KInv'
<1>1. FilesInv'
  BY DEF Stop, KInv, FilesInv
<1> QED  BY <1>1, Returns DEF Stop, KInv, TypeOK

LEMMA ServeOk == ASSUME KInv, NEW s \in Snapshots, Serve(s) PROVE KInv'
<1>1. FilesInv'
  BY DEF Serve, KInv, FilesInv
<1>2. live' \in Checkpoint
  <2>1. s = [text |-> s.text, tokens |-> s.tokens] /\ s.tokens \in Nat /\ s.text \in Texts
    BY StoreAssumption DEF Texts
  <2> QED  BY <2>1 DEF Serve, Checkpoint
<1> QED  BY <1>1, <1>2 DEF Serve, Idle, KInv, TypeOK, StoreInv, Storing, WrittenInv, KeptInv, RoomInv

(* What a store knows of the live checkpoint when it begins. *)
LEMMA Stores ==
  ASSUME KInv, NEW r \in Reasons, MayStore(r)
  PROVE  /\ up # None /\ up \in Engines /\ live # None /\ live.text \in Texts /\ live.tokens \in Nat
         /\ live.tokens >= MinTokens /\ pc = "idle" /\ live \in Checkpoint
BY DEF MayStore, Idle, KInv, TypeOK, Checkpoint

LEMMA StoreKeptOk == ASSUME KInv, NEW r \in Reasons, NEW t \in Trailers, StoreKept(r, t) PROVE KInv'
<1>0. /\ MayStore(r) /\ Kept /\ up # None /\ live # None /\ live \in Checkpoint /\ live.tokens >= MinTokens
      /\ live.text \in DOMAIN files /\ UNCHANGED <<refused, up, live>>
  BY Stores DEF StoreKept, Kept, Entries, Goto, memory
<1>1. CASE Return("kept") /\ UNCHANGED files
  <2>1. Kept' /\ FilesInv'
    BY <1>0, <1>1 DEF Kept, Entries, Compatible, SameModel, KInv, FilesInv
  <2> QED  BY <1>0, <1>1, <2>1, Returns DEF KInv, TypeOK
<1>2. CASE /\ files' = [files EXCEPT ![live.text].trailer = 0]
           /\ job' = [NoJob EXCEPT !.reason = r, !.trailer = t]
           /\ Goto("trailer") /\ ret' = "none" /\ UNCHANGED <<tmp, seen, total>>
  <2> DEFINE f == [files[live.text] EXCEPT !.trailer = 0]
  <2>1. files[live.text] \in File /\ files[live.text].whole
    BY <1>0 DEF KInv, FilesInv
  <2>2. /\ f \in File /\ f.whole /\ f.tokens = files[live.text].tokens /\ f.model = files[live.text].model
        /\ f.quant = files[live.text].quant /\ f.ctx = files[live.text].ctx
    BY <2>1 DEF File
  <2>3. FilesInv' /\ DOMAIN files' = DOMAIN files /\ files'[live.text] = f
    BY <1>0, <1>2, <2>2, Changes DEF KInv
  <2>4. Kept'
    BY <1>0, <2>2, <2>3 DEF Kept, Entries, Compatible, SameModel
  <2>5. job' \in Job
    BY <1>2, StoreAssumption DEF Job, NoJob
  <2> QED  BY <1>0, <1>2, <2>3, <2>4, <2>5
           DEF Goto, KInv, TypeOK, StoreInv, Storing, WrittenInv, KeptInv, Idle, RoomInv
<1> QED  BY <1>1, <1>2 DEF StoreKept

LEMMA StoreTrailerOk == ASSUME KInv, StoreTrailer PROVE KInv'
<1>0. /\ live # None /\ Kept /\ live \in Checkpoint /\ live.text \in DOMAIN files
      /\ Return("kept") /\ UNCHANGED <<refused, up, live>>
  BY DEF StoreTrailer, KInv, KeptInv, Kept, Entries, TypeOK
<1>1. FilesInv' /\ Kept'
  <2>1. CASE UNCHANGED files
    BY <1>0, <2>1 DEF Kept, Entries, Compatible, SameModel, KInv, FilesInv
  <2>2. CASE files' = [files EXCEPT ![live.text].trailer = files[live.text].trailer + job.trailer]
    <3> DEFINE f == [files[live.text] EXCEPT !.trailer = files[live.text].trailer + job.trailer]
    <3>1. files[live.text] \in File /\ files[live.text].whole /\ job.trailer \in Nat
      BY <1>0 DEF KInv, FilesInv, TypeOK, Job
    <3>2. files[live.text].trailer + job.trailer \in Nat
      BY <3>1 DEF File
    <3>3. /\ f \in File /\ f.whole /\ f.tokens = files[live.text].tokens /\ f.model = files[live.text].model
          /\ f.quant = files[live.text].quant /\ f.ctx = files[live.text].ctx
      BY <3>1, <3>2 DEF File
    <3>4. FilesInv' /\ DOMAIN files' = DOMAIN files /\ files'[live.text] = f
      BY <1>0, <2>2, <3>3, Changes DEF KInv
    <3> QED  BY <1>0, <3>3, <3>4 DEF Kept, Entries, Compatible, SameModel
  <2> QED  BY <2>1, <2>2 DEF StoreTrailer
<1> QED  BY <1>0, <1>1, Returns DEF KInv, TypeOK

LEMMA StoreNewOk == ASSUME KInv, NEW r \in Reasons, NEW t \in Trailers, StoreNew(r, t) PROVE KInv'
<1>0. /\ MayStore(r) /\ up # None /\ live # None /\ live \in Checkpoint /\ live.tokens >= MinTokens
      /\ live.text \in Texts /\ live.tokens \in Nat /\ UNCHANGED <<refused, up, live, tmp, seen, total>>
      /\ pc' = "stage" /\ ret' = "none"
      /\ job' = [reason |-> r, trailer |-> t,
                 extra |-> FileSize(live.text, live.tokens, t), unread |-> Kept]
  BY Stores DEF StoreNew, Goto, memory
<1>1. FilesInv' /\ (Kept' => Kept)
  <2>1. CASE UNCHANGED files
    BY <1>0, <2>1 DEF Kept, Entries, Compatible, SameModel, KInv, FilesInv
  <2>2. CASE live.text \in Entries /\ files' = Without(live.text)
    <3>1. live.text \in DOMAIN files
      BY <2>2 DEF Entries
    <3>2. FilesInv' /\ DOMAIN files' = DOMAIN files \ {live.text}
      BY <2>2, <3>1, Removes DEF KInv
    <3> QED  BY <1>0, <3>2 DEF Kept, Entries
  <2> QED  BY <2>1, <2>2 DEF StoreNew
<1>2. /\ job' \in Job /\ job'.extra = FileSize(live.text, live.tokens, job'.trailer)
      /\ job'.reason = r /\ job'.unread = Kept
  <2>1. t \in Nat
    BY StoreAssumption
  <2>2. FileSize(live.text, live.tokens, t) \in Nat
    BY <1>0, <2>1, SizeType
  <2>3. Kept \in BOOLEAN
    BY DEF Kept, Compatible, SameModel
  <2> QED  BY <1>0, <2>1, <2>2, <2>3 DEF Job
<1>3. StoreInv'
  BY <1>0, <1>1, <1>2 DEF StoreInv, FileSize
<1> QED  BY <1>0, <1>1, <1>2, <1>3 DEF KInv, TypeOK, WrittenInv, KeptInv, Idle, RoomInv

LEMMA StageOk == ASSUME KInv, Stage PROVE KInv'
<1>0. /\ pc = "stage" /\ pc' = "evict" /\ Goto("evict") /\ Look /\ Required(job.extra) <= Budget
      /\ UNCHANGED <<files, job, tmp, ret, up, live>>
  BY DEF Stage, Goto, memory
<1>6. /\ seen' \subseteq Entries /\ total' \in Nat /\ total' <= Total /\ refused' \in BOOLEAN
      /\ ~refused' => seen' = Entries /\ total' = Total
  BY <1>0, Looks DEF KInv
<1>1. FilesInv' /\ Total' = Total /\ Entries' = Entries /\ Total \in Nat /\ (Kept' <=> Kept)
  BY <1>0, SizesType DEF KInv, FilesInv, Total, TotalOf, SizeOf, Entries, Kept, Compatible, SameModel
<1>2. job.extra \in Nat /\ job.extra <= Budget
  <2>1. job.extra \in Nat /\ Budget \in Nat
    BY StoreAssumption DEF KInv, TypeOK, Job
  <2>2. job.extra <= Required(job.extra) /\ Required(job.extra) \in Nat
    BY <2>1 DEF Required
  <2> QED  BY <1>0, <2>1, <2>2
<1>3. StoreInv' /\ up # None
  BY <1>0, <1>1 DEF KInv, StoreInv, Storing
<1>4. ret \notin {"stored", "opened"}
  BY <1>0 DEF KInv, RoomInv
<1>5. RoomInv' /\ WrittenInv'
  BY <1>0, <1>1, <1>2, <1>4, <1>6 DEF RoomInv, WrittenInv
<1> QED  BY <1>0, <1>1, <1>3, <1>4, <1>5, <1>6, GoesOn DEF KInv, TypeOK

LEMMA StageFaultOk == ASSUME KInv, StageFault PROVE KInv'
<1>1. FilesInv'
  BY DEF StageFault, KInv, FilesInv
<1> QED  BY <1>1, Returns DEF StageFault, memory, KInv, TypeOK

LEMMA EvictOneOk == ASSUME KInv, NEW k \in DOMAIN files, EvictOne(k) PROVE KInv'
<1>0. /\ pc = "evict" /\ pc' = "evict" /\ files' = Without(k) /\ UNCHANGED <<job, tmp, ret, refused, up, live>>
      /\ seen' = seen \ {k} /\ total' = IF total >= SizeOf(k) THEN total - SizeOf(k) ELSE 0
  BY DEF EvictOne, memory
<1>1. /\ FilesInv' /\ Entries' = Entries \ {k} /\ DOMAIN files' = DOMAIN files \ {k}
      /\ \A j \in DOMAIN files' : files'[j] = files[j]
      /\ Total = SizeOf(k) + Total' /\ SizeOf(k) \in Nat /\ Total' \in Nat
  BY <1>0, Removes DEF KInv
<1>2. /\ total \in Nat /\ total <= Total /\ (~refused => total = Total)
      /\ seen \subseteq Entries /\ (~refused => seen = Entries)
  BY <1>0 DEF KInv, TypeOK, RoomInv
<1>3. total' \in Nat /\ total' <= Total' /\ (~refused' => total' = Total')
  BY <1>0, <1>1, <1>2
<1>6. seen' \subseteq Entries' /\ (~refused' => seen' = Entries')
  BY <1>0, <1>1, <1>2
<1>4. Kept' => Kept
  BY <1>0, <1>1 DEF Kept, Entries, Compatible, SameModel
<1>5. StoreInv' /\ WrittenInv' /\ KeptInv' /\ RoomInv'
  BY <1>0, <1>3, <1>4, <1>6 DEF KInv, StoreInv, Storing, FileSize, WrittenInv, KeptInv, Idle, RoomInv
<1> QED  BY <1>0, <1>1, <1>3, <1>5 DEF KInv, TypeOK

LEMMA EvictDeniedOk == ASSUME KInv, EvictDenied PROVE KInv'
<1>0. /\ pc = "evict" /\ pc' = "evict" /\ total' = 0 /\ refused' = TRUE /\ seen' \subseteq seen
      /\ UNCHANGED <<files, job, tmp, ret, up, live>>
  BY DEF EvictDenied, memory
<1>1. FilesInv' /\ Total' = Total /\ Entries' = Entries /\ Total \in Nat /\ (Kept' <=> Kept)
  BY <1>0, SizesType DEF KInv, FilesInv, Total, TotalOf, SizeOf, Entries, Kept, Compatible, SameModel
<1>2. StoreInv' /\ WrittenInv' /\ KeptInv' /\ RoomInv'
  BY <1>0, <1>1 DEF KInv, StoreInv, Storing, FileSize, WrittenInv, KeptInv, Idle, RoomInv
<1> QED  BY <1>0, <1>1, <1>2 DEF KInv, TypeOK

LEMMA EvictDoneOk == ASSUME KInv, EvictDone PROVE KInv'
<1>0. pc = "evict" /\ (total <= Target \/ seen = {}) /\ UNCHANGED <<files, refused, up, live>>
  BY DEF EvictDone, Goto, memory
<1>1. /\ total \in Nat /\ total <= Total /\ (~refused => seen = Entries /\ total = Total) /\ up # None
      /\ job.extra \in Nat /\ job.extra <= Budget /\ Budget \in Nat /\ ret \notin {"stored", "opened"}
  BY <1>0, StoreAssumption DEF KInv, TypeOK, RoomInv, Job
<1>2. FilesInv' /\ Total' = Total /\ Total \in Nat /\ (Kept' <=> Kept)
  BY <1>0, SizesType DEF KInv, FilesInv, Total, TotalOf, SizeOf, Entries, Kept, Compatible, SameModel, EvictDone, Goto, memory
<1>3. ~refused => Total + job.extra <= Budget
  <2>1. CASE total <= Target
    BY <1>1, <1>2, <2>1 DEF Target
  <2>2. CASE seen = {}
    <3>1. Entries = {} => Total = 0
      BY SizesType, SumWithout, TotalIs DEF KInv
    <3> QED  BY <1>1, <2>2, <3>1
  <2> QED  BY <1>0, <2>1, <2>2
<1>4. CASE job = NoJob
  <2>1. Return("opened")
    BY <1>4 DEF EvictDone
  <2>2. ~refused' => Total' <= Budget
    BY <1>0, <1>1, <1>2, <1>3
  <2> QED  BY <1>0, <1>2, <2>1, <2>2, Returns DEF KInv, TypeOK
<1>5. CASE job # NoJob
  <2>1. Goto("create") /\ UNCHANGED <<job, tmp, ret>> /\ total' = 0 /\ pc' = "create"
    BY <1>5 DEF EvictDone, Goto
  <2>2. StoreInv'
    BY <1>0, <1>2, <1>5, <2>1 DEF KInv, StoreInv, Storing, FileSize
  <2>3. WrittenInv' /\ RoomInv'
    BY <1>0, <1>1, <1>2, <1>3, <2>1 DEF WrittenInv, RoomInv
  <2> QED  BY <1>0, <1>1, <1>2, <2>1, <2>2, <2>3, GoesOn DEF KInv, TypeOK
<1> QED  BY <1>4, <1>5

(* What is written is a file of the live checkpoint, without its last byte. *)
LEMMA NewFileType ==
  ASSUME KInv, pc \in {"create", "write", "rename"}
  PROVE  /\ NewFile \in File /\ NewFile.tokens = live.tokens /\ NewFile.trailer = job.trailer
         /\ live # None /\ live.text \in Texts /\ live.tokens >= MinTokens /\ (Kept => job.unread) /\ up # None
         /\ job.extra = FileSize(live.text, live.tokens, job.trailer) /\ job.extra \in Nat
<1>1. /\ live # None /\ live \in Checkpoint /\ live.tokens >= MinTokens /\ (Kept => job.unread) /\ up # None /\ up \in Engines
      /\ job \in Job /\ job.reason \in Reasons /\ job.extra = FileSize(live.text, live.tokens, job.trailer)
  BY DEF KInv, TypeOK, StoreInv, Storing
<1>2. /\ live.text \in Texts /\ live.tokens \in Nat /\ job.trailer \in Nat /\ job.extra \in Nat
      /\ up.ctx \in Nat /\ 0 \in 0 .. MaxHits
  BY <1>1, StoreAssumption DEF Checkpoint, Job
<1>3. NewFile \in File
  BY <1>1, <1>2 DEF NewFile, File
<1> QED  BY <1>1, <1>2, <1>3 DEF NewFile

LEMMA CreateOk == ASSUME KInv, Create PROVE KInv'
<1>0. /\ pc = "create" /\ Goto("write") /\ pc' = "write" /\ tmp' = NewFile
      /\ UNCHANGED <<files, job, total, ret, refused, up, live>>
  BY DEF Create, Goto, memory
<1>1. FilesInv' /\ Total' = Total /\ (Kept' <=> Kept) /\ NewFile' = NewFile
  BY <1>0 DEF KInv, FilesInv, Total, TotalOf, SizeOf, Entries, Kept, Compatible, SameModel, NewFile
<1>2. NewFile \in File /\ NewFile.whole = FALSE /\ up # None /\ ret \notin {"stored", "opened"}
  BY <1>0, NewFileType DEF NewFile, KInv, RoomInv
<1>3. [NewFile EXCEPT !.whole = FALSE] = NewFile
  BY <1>2 DEF File
<1>4. StoreInv' /\ WrittenInv' /\ RoomInv'
  BY <1>0, <1>1, <1>3 DEF KInv, StoreInv, Storing, FileSize, WrittenInv, RoomInv
<1> QED  BY <1>0, <1>1, <1>2, <1>4, GoesOn DEF KInv, TypeOK

LEMMA WriteOk == ASSUME KInv, Write PROVE KInv'
<1>0. /\ pc = "write" /\ Goto("rename") /\ pc' = "rename" /\ tmp' = [tmp EXCEPT !.whole = TRUE]
      /\ UNCHANGED <<files, job, total, ret, refused, up, live>>
  BY DEF Write, Goto, memory
<1>1. FilesInv' /\ Total' = Total /\ (Kept' <=> Kept) /\ NewFile' = NewFile
  BY <1>0 DEF KInv, FilesInv, Total, TotalOf, SizeOf, Entries, Kept, Compatible, SameModel, NewFile
<1>2. NewFile \in File /\ up # None /\ ret \notin {"stored", "opened"} /\ tmp = [NewFile EXCEPT !.whole = FALSE]
  BY <1>0, NewFileType DEF KInv, RoomInv, WrittenInv
<1>3. tmp' = [NewFile EXCEPT !.whole = TRUE] /\ tmp' \in File
  BY <1>0, <1>2 DEF File
<1>4. StoreInv' /\ WrittenInv' /\ RoomInv'
  BY <1>0, <1>1, <1>3 DEF KInv, StoreInv, Storing, FileSize, WrittenInv, RoomInv
<1> QED  BY <1>0, <1>1, <1>2, <1>3, <1>4, GoesOn DEF KInv, TypeOK

(* The renamed file is the one that was asked room for. *)
LEMMA RenameOk == ASSUME KInv, Rename PROVE KInv'
<1>0. /\ pc = "rename" /\ files' = With(live.text, tmp) /\ Return("stored") /\ UNCHANGED <<up, live, refused>>
  BY DEF Rename
<1>1. /\ NewFile \in File /\ NewFile.tokens = live.tokens /\ NewFile.trailer = job.trailer
      /\ live # None /\ live.text \in Texts /\ live.tokens >= MinTokens /\ up # None
      /\ job.extra = FileSize(live.text, live.tokens, job.trailer) /\ job.extra \in Nat
  BY <1>0, NewFileType
<1>2. tmp = [NewFile EXCEPT !.whole = TRUE]
  BY <1>0 DEF KInv, WrittenInv
<1>3. /\ tmp \in File /\ tmp.whole /\ tmp.tokens = live.tokens /\ tmp.trailer = job.trailer
      /\ tmp.model = up.model /\ tmp.quant = up.quant /\ tmp.ctx = up.ctx
  <2>1. NewFile.model = up.model /\ NewFile.quant = up.quant /\ NewFile.ctx = up.ctx
    BY DEF NewFile
  <2> QED  BY <1>1, <1>2, <2>1 DEF File
<1>4. /\ FilesInv' /\ live.text \in DOMAIN files' /\ files'[live.text] = tmp
      /\ Total' \in Nat /\ Total' <= Total + FileSize(live.text, tmp.tokens, tmp.trailer)
  BY <1>0, <1>1, <1>3, Adds DEF KInv
<1>5. Kept'
  <2>1. up.ctx \in Nat
    BY <1>1, StoreAssumption DEF KInv, TypeOK
  <2> QED  BY <1>0, <1>3, <1>4, <2>1 DEF Kept, Entries, Compatible, SameModel
<1>6. ~refused => Total' <= Budget
  <2>1. Total \in Nat /\ Total' \in Nat /\ Budget \in Nat
    BY <1>4, SizesType, StoreAssumption DEF KInv
  <2>2. ~refused => Total + job.extra <= Budget
    BY <1>0 DEF KInv, RoomInv
  <2> QED  BY <1>1, <1>3, <1>4, <2>1, <2>2
<1> QED  BY <1>0, <1>1, <1>4, <1>5, <1>6, Returns DEF KInv, TypeOK

LEMMA StoreFaultOk == ASSUME KInv, StoreFault PROVE KInv'
<1>1. FilesInv'
  BY DEF StoreFault, KInv, FilesInv
<1> QED  BY <1>1, Returns DEF StoreFault, memory, KInv, TypeOK

LEMMA LoadMissOk == ASSUME KInv, NEW p, LoadMiss(p) PROVE KInv'
<1>1. FilesInv'
  BY DEF LoadMiss, KInv, FilesInv
<1> QED  BY <1>1, Returns DEF LoadMiss, memory, KInv, TypeOK

(* What a lookup finds is a file. *)
LEMMA BestIn ==
  ASSUME KInv, NEW v \in SUBSET Entries, NEW p \in Prompts \cup Texts, Matches(v, p) # {}
  PROVE  /\ Best(v, p) \in Matches(v, p) /\ Best(v, p) \in DOMAIN files /\ Best(v, p) \in Texts /\ files[Best(v, p)] \in File
         /\ \A j \in Matches(v, p) : Len(j) <= Len(Best(v, p))
<1>1. Len(p) \in Nat
  BY StoreAssumption, LenProperties DEF Texts
<1>2. \A k \in Matches(v, p) : k \in DOMAIN files /\ k \in Texts /\ files[k] \in File /\ Len(k) \in Nat /\ Len(k) <= Len(p)
  <2>1. \A k \in Matches(v, p) : k \in DOMAIN files /\ IsPrefix(k, p)
    BY DEF Matches, Entries
  <2>2. \A k \in Texts : Len(k) \in Nat
    BY StoreAssumption, LenProperties DEF Texts
  <2> QED  BY <2>1, <2>2 DEF KInv, FilesInv, IsPrefix
<1> DEFINE short == {n \in Nat : \E k \in Matches(v, p) : n = Len(p) - Len(k)}
<1>3. short # {}
  <2>1. PICK k \in Matches(v, p) : TRUE
    OBVIOUS
  <2>2. Len(p) - Len(k) \in Nat
    BY <1>1, <1>2
  <2> QED  BY <2>2
<1>4. PICK n \in short : \A m \in short : n <= m
  BY <1>3, LeastExists
<1>5. PICK k \in Matches(v, p) : n = Len(p) - Len(k)
  OBVIOUS
<1>6. ASSUME NEW j \in Matches(v, p) PROVE Len(j) <= Len(k)
  <2>1. Len(p) - Len(j) \in Nat /\ Len(p) - Len(j) \in short
    BY <1>1, <1>2
  <2>2. Len(p) - Len(k) <= Len(p) - Len(j)
    <3> HIDE DEF short
    <3> QED  BY <1>4, <1>5, <2>1
  <2> QED  BY <1>1, <1>2, <2>2
<1>7. Best(v, p) = CHOOSE k1 \in Matches(v, p) : \A j \in Matches(v, p) : Len(j) <= Len(k1)
  BY DEF Best
<1>8. Best(v, p) \in Matches(v, p) /\ \A j \in Matches(v, p) : Len(j) <= Len(Best(v, p))
  BY <1>6, <1>7
<1> QED  BY <1>2, <1>8

LEMMA LoadOk == ASSUME KInv, NEW p \in Prompts, Load(p) PROVE KInv'
<1>9. PICK v \in Views :
        /\ Best(v, p) # None
        /\ live' = [text |-> Best(v, p), tokens |-> files[Best(v, p)].tokens]
        /\ \/ files' = [files EXCEPT ![Best(v, p)].hits =
                           IF files[Best(v, p)].hits < MaxHits THEN files[Best(v, p)].hits + 1
                           ELSE files[Best(v, p)].hits]
           \/ UNCHANGED files
  BY DEF Load
<1> DEFINE k == Best(v, p)
           f == files[k]
<1>0. /\ k # None /\ live' = [text |-> k, tokens |-> f.tokens] /\ Return("loaded") /\ UNCHANGED <<up, refused>>
      /\ \/ files' = [files EXCEPT ![k].hits = IF f.hits < MaxHits THEN f.hits + 1 ELSE f.hits]
         \/ UNCHANGED files
  BY <1>9 DEF Load
<1>1. k \in DOMAIN files /\ k \in Texts /\ f \in File
  BY <1>0, BestIn DEF Best, Views
<1>2. live' \in Checkpoint
  BY <1>0, <1>1 DEF Checkpoint, File
<1>3. FilesInv'
  <2>1. CASE UNCHANGED files
    BY <2>1 DEF KInv, FilesInv
  <2>2. CASE files' = [files EXCEPT ![k].hits = IF f.hits < MaxHits THEN f.hits + 1 ELSE f.hits]
    <3> DEFINE h == IF f.hits < MaxHits THEN f.hits + 1 ELSE f.hits
               g == [f EXCEPT !.hits = h]
    <3>1. f.hits \in 0 .. MaxHits /\ MaxHits \in Nat
      BY <1>1, StoreAssumption DEF File
    <3>2. h \in 0 .. MaxHits
      BY <3>1
    <3>3. files' = [files EXCEPT ![k] = g]
      BY <2>2
    <3> HIDE DEF h
    <3>4. g \in File /\ g.tokens = f.tokens /\ g.whole = f.whole
      BY <1>1, <3>2 DEF File
    <3>5. g.whole
      BY <1>1, <3>4 DEF KInv, FilesInv
    <3> HIDE DEF g, k
    <3> QED  BY <1>1, <3>3, <3>4, <3>5, Changes DEF KInv
  <2> QED  BY <1>0, <2>1, <2>2
<1> QED  BY <1>0, <1>2, <1>3, Returns DEF KInv, TypeOK

LEMMA LoadFaultOk == ASSUME KInv, NEW p, LoadFault(p) PROVE KInv'
<1>1. FilesInv'
  BY DEF LoadFault, KInv, FilesInv
<1> QED  BY <1>1, Returns DEF LoadFault, KInv, TypeOK

LEMMA KInvStep == KInv /\ [Next]_vars => KInv'
<1> SUFFICES ASSUME KInv, [Next]_vars PROVE KInv'
  OBVIOUS
<1>1. ASSUME NEW e \in Engines, Open(e) PROVE KInv'
  BY <1>1, OpenOk
<1>2. ASSUME NEW s \in Snapshots, Serve(s) PROVE KInv'
  BY <1>2, ServeOk
<1>3. ASSUME NEW r \in Reasons, NEW t \in Trailers, StoreKept(r, t) \/ StoreNew(r, t) PROVE KInv'
  BY <1>3, StoreKeptOk, StoreNewOk
<1>4. ASSUME NEW p \in Prompts, LoadMiss(p) \/ Load(p) \/ LoadFault(p) PROVE KInv'
  BY <1>4, LoadMissOk, LoadOk, LoadFaultOk
<1>5. CASE Work
  BY <1>5, StoreTrailerOk, StageOk, StageFaultOk, EvictOneOk, EvictDeniedOk, EvictDoneOk,
     CreateOk, WriteOk, RenameOk, StoreFaultOk DEF Work
<1>6. CASE Stop
  BY <1>6, StopOk
<1>7. CASE UNCHANGED vars
  <2>1. UNCHANGED <<files, up, live, pc, job, tmp, seen, total, ret, refused>>
    BY <1>7 DEF vars, memory, call
  <2>2. Total' = Total /\ Entries' = Entries /\ (Kept' <=> Kept) /\ NewFile' = NewFile /\ (FilesInv' <=> FilesInv)
    BY <2>1 DEF Total, TotalOf, SizeOf, Entries, Kept, Compatible, SameModel, NewFile, FilesInv
  <2> QED  BY <2>1, <2>2 DEF KInv, TypeOK, StoreInv, Storing, FileSize, WrittenInv, KeptInv, Idle, RoomInv
<1> QED  BY <1>1, <1>2, <1>3, <1>4, <1>5, <1>6, <1>7 DEF Next

-----------------------------------------------------------------------------
(* The theorems *)

(* The invariant the others rest on: what is in the directory is whole,    *)
(* what a call is storing has no file the engine could use instead but one *)
(* it could not read, and what eviction believes is used is no more than   *)
(* is, and all of it while nothing was refused.                            *)
THEOREM StoreInvariant == Spec => []KInv
BY InitOk, KInvStep, PTL DEF Spec

(* Wherever the process is killed and whatever the file system refuses, a  *)
(* file that bears the name of a checkpoint holds all of it.               *)
THEOREM Whole == Spec => []FilesWhole
<1>1. KInv => FilesWhole
  BY DEF KInv, FilesInv, FilesWhole
<1> QED  BY <1>1, StoreInvariant, PTL

(* What has been stored is within the budget together with what was there, *)
(* unless a file could not be read or removed while room was made for it.  *)
THEOREM WithinBudget == Spec => []BudgetKept
<1>1. KInv => BudgetKept
  BY DEF KInv, RoomInv, BudgetKept
<1> QED  BY <1>1, StoreInvariant, PTL

(* What a store reports as stored or kept is what a lookup of the same     *)
(* text finds, when it can read the directory.                             *)
THEOREM Found == Spec => []StoredIsFound
<1>1. KInv => StoredIsFound
  <2> SUFFICES ASSUME KInv, Idle, ret \in {"stored", "kept"} PROVE Best(Entries, live.text) = live.text
    BY DEF StoredIsFound
  <2> DEFINE p == live.text
             b == Best(Entries, p)
  <2>1. live # None /\ Kept /\ live \in Checkpoint /\ up # None
    BY DEF KInv, KeptInv, Idle, TypeOK
  <2>2. /\ p \in DOMAIN files /\ p \in Texts /\ p \in Entries /\ SameModel(files[p]) /\ files[p].ctx <= up.ctx
        /\ files[p].tokens >= MinTokens /\ files[p].ctx \in Nat /\ up.ctx \in Nat
    <3>1. p \in DOMAIN files /\ p \in Texts /\ p \in Entries /\ SameModel(files[p]) /\ files[p].ctx <= up.ctx
      BY <2>1 DEF Kept, Compatible, Entries, Checkpoint
    <3>2. files[p] \in File /\ files[p].tokens >= MinTokens
      BY <3>1 DEF KInv, FilesInv
    <3>3. up.ctx \in Nat /\ files[p].ctx \in Nat
      BY <2>1, <3>2, StoreAssumption DEF KInv, TypeOK, File
    <3> QED  BY <3>1, <3>2, <3>3
  <2>3. \A t \in Texts : t = SubSeq(t, 1, Len(t)) /\ Len(t) \in Nat
    <3>1. ASSUME NEW S, NEW t \in Seq(S) PROVE t = SubSeq(t, 1, Len(t)) /\ Len(t) \in Nat
      OBVIOUS
    <3> QED  BY <3>1, StoreAssumption DEF Texts
  <2> HIDE DEF p
  <2>4. p \in Matches(Entries, p)
    <3>1. IsPrefix(p, p)
      BY <2>2, <2>3 DEF IsPrefix
    <3> QED  BY <2>2, <3>1 DEF Matches
  <2>5. b \in Matches(Entries, p) /\ b \in Texts /\ Len(p) <= Len(b)
    BY <2>2, <2>4, BestIn
  <2> HIDE DEF b
  <2>6. IsPrefix(b, p)
    BY <2>5 DEF Matches
  <2>7. Len(b) = Len(p)
    BY <2>2, <2>3, <2>5, <2>6 DEF IsPrefix
  <2>8. b = p
    BY <2>2, <2>3, <2>5, <2>6, <2>7 DEF IsPrefix
  <2> QED  BY <2>8 DEF b, p
<1> QED  BY <1>1, StoreInvariant, PTL

(* A step that is not one of eviction removes no file the engine could     *)
(* load: one under the same text is kept, unless it could not be read.     *)
KeepsEach ==
  \A k \in Entries :
    up # None /\ SameModel(files[k]) /\ files[k].ctx <= up.ctx =>
      \/ k \in DOMAIN files' /\ files'[k].tokens = files[k].tokens
      \/ pc = "evict" /\ Total > Target
      \/ k = live.text /\ (job.unread \/ job'.unread)

LEMMA KeepsStep == KInv /\ [Next]_vars => KeepsEach
<1> SUFFICES ASSUME KInv, [Next]_vars, NEW k \in Entries, up # None, SameModel(files[k]), files[k].ctx <= up.ctx
             PROVE  \/ k \in DOMAIN files' /\ files'[k].tokens = files[k].tokens
                    \/ pc = "evict" /\ Total > Target
                    \/ k = live.text /\ (job.unread \/ job'.unread)
  BY DEF KeepsEach
<1>0. k \in DOMAIN files /\ files[k] \in File
  BY DEF Entries, KInv, FilesInv
<1>1. CASE UNCHANGED files
  BY <1>0, <1>1
<1>2. ASSUME NEW r \in Reasons, NEW t \in Trailers, StoreKept(r, t) PROVE k \in DOMAIN files' /\ files'[k].tokens = files[k].tokens
  <2>1. CASE files' = [files EXCEPT ![live.text].trailer = 0]
    BY <1>0, <2>1 DEF KInv, FilesInv, File
  <2> QED  BY <1>0, <1>2, <2>1 DEF StoreKept
<1>3. CASE StoreTrailer
  <2>1. CASE files' = [files EXCEPT ![live.text].trailer = files[live.text].trailer + job.trailer]
    BY <1>0, <2>1 DEF KInv, FilesInv, File
  <2> QED  BY <1>0, <1>3, <2>1 DEF StoreTrailer
<1>4. ASSUME NEW r \in Reasons, NEW t \in Trailers, StoreNew(r, t)
      PROVE  \/ k \in DOMAIN files' /\ files'[k].tokens = files[k].tokens
             \/ k = live.text /\ job'.unread
  <2>1. CASE live.text \in Entries /\ files' = Without(live.text)
    <3>1. k = live.text => job'.unread
      BY <1>4, <2>1 DEF StoreNew, Kept, Compatible
    <3> QED  BY <1>0, <2>1, <3>1 DEF Without
  <2> QED  BY <1>0, <1>4, <2>1 DEF StoreNew
<1>5. ASSUME NEW j \in DOMAIN files, EvictOne(j) PROVE pc = "evict" /\ Total > Target
  <2>1. pc = "evict" /\ total > Target /\ total <= Total /\ total \in Nat
    BY <1>5 DEF EvictOne, KInv, RoomInv, TypeOK
  <2>2. Total \in Nat /\ Target \in Int
    BY SizesType, StoreAssumption DEF KInv, TypeOK, Job, Target
  <2> QED  BY <2>1, <2>2
<1>6. CASE Rename
  <2>1. (Kept => job.unread) /\ pc = "rename" /\ files' = With(live.text, tmp)
    BY <1>6, NewFileType DEF Rename
  <2>2. k = live.text => job.unread
    BY <2>1 DEF Kept, Compatible
  <2> QED  BY <1>0, <2>1, <2>2 DEF With
<1>7. ASSUME NEW p \in Prompts, Load(p) PROVE k \in DOMAIN files' /\ files'[k].tokens = files[k].tokens
  <2>0. PICK v \in Views :
          \/ UNCHANGED files
          \/ files' = [files EXCEPT ![Best(v, p)].hits =
                          IF files[Best(v, p)].hits < MaxHits THEN files[Best(v, p)].hits + 1
                          ELSE files[Best(v, p)].hits]
    BY <1>7 DEF Load
  <2> DEFINE b == Best(v, p)
  <2>1. CASE files' = [files EXCEPT ![b].hits = IF files[b].hits < MaxHits THEN files[b].hits + 1 ELSE files[b].hits]
    <3> HIDE DEF b
    <3> QED  BY <1>0, <2>1 DEF KInv, FilesInv, File
  <2> QED  BY <1>0, <2>0, <2>1
<1>8. CASE Work
  BY <1>1, <1>3, <1>5, <1>6, <1>8 DEF Work, Stage, StageFault, EvictDenied, EvictDone, Create, Write, StoreFault
<1> QED  BY <1>1, <1>2, <1>4, <1>7, <1>8 DEF Next, vars, Open, Serve, LoadMiss, LoadFault, Stop

(* A checkpoint the running engine could load is given up only to make     *)
(* room, and only while there is too little of it, or by a store under its *)
(* own text that could not look at it or read it.                          *)
THEOREM UsableKept == Spec => KeepsUsable
BY KeepsStep, StoreInvariant, PTL DEF Spec, KeepsUsable, KeepsEach

-----------------------------------------------------------------------------
(* Anchors *)

(* Where a file came from. *)
OriginInv ==
  /\ live \in Snapshots \cup {None} /\ job.trailer \in Trailers \cup {0}
  /\ pc = "trailer" => files[live.text].trailer = 0
  /\ \A k \in DOMAIN files :
       [text |-> k, tokens |-> files[k].tokens] \in Snapshots /\ files[k].trailer \in Trailers \cup {0}

(* No file has more than 39 bytes of header, text and trailer for each     *)
(* byte of its payload, and no text is empty.                              *)
MostlyPayload ==
  \A s \in Snapshots : \A t \in Trailers \cup {0} :
    s.text # <<>> /\ (s.tokens >= MinTokens => Overhead + Len(s.text) + t <= 39 * s.tokens)

LEMMA OriginInit == Init => OriginInv
BY DEF Init, OriginInv, NoJob

LEMMA OriginStep == KInv /\ OriginInv /\ [Next]_vars => OriginInv'
<1> SUFFICES ASSUME KInv, OriginInv, [Next]_vars PROVE OriginInv'
  OBVIOUS
<1>0. /\ NoJob.trailer = 0 /\ files \in [DOMAIN files -> File]
      /\ \A k \in DOMAIN files : files[k] \in File
  BY DEF NoJob, KInv, FilesInv
<1>1. CASE UNCHANGED <<files, live>> /\ pc' # "trailer" /\ (job' = job \/ job' = NoJob)
  BY <1>0, <1>1 DEF OriginInv
<1>2. ASSUME NEW e \in Engines, Open(e) PROVE OriginInv'
  BY <1>0, <1>2 DEF Open, OriginInv
<1>3. ASSUME NEW s \in Snapshots, Serve(s) PROVE OriginInv'
  BY <1>3 DEF Serve, Idle, OriginInv
<1>4. CASE Stop
  BY <1>0, <1>4 DEF Stop, Return, OriginInv
<1>5. ASSUME NEW r \in Reasons, NEW t \in Trailers, StoreKept(r, t) PROVE OriginInv'
  <2>1. CASE Return("kept") /\ UNCHANGED <<files, up, live>>
    BY <1>1, <2>1 DEF Return
  <2>2. CASE /\ files' = [files EXCEPT ![live.text].trailer = 0] /\ live' = live
             /\ job' = [NoJob EXCEPT !.reason = r, !.trailer = t]
    <3>1. live.text \in DOMAIN files
      BY <1>5 DEF StoreKept, Kept, Entries
    <3>2. /\ DOMAIN files' = DOMAIN files /\ files'[live.text].trailer = 0
          /\ \A k \in DOMAIN files : files'[k].tokens = files[k].tokens /\ files'[k].trailer \in {0, files[k].trailer}
      BY <1>0, <2>2, <3>1 DEF File
    <3> QED  BY <2>2, <3>2 DEF OriginInv, NoJob
  <2> QED  BY <1>5, <2>1, <2>2 DEF StoreKept, Goto, memory
<1>6. CASE StoreTrailer
  <2>0. live.text \in DOMAIN files /\ pc = "trailer"
    BY <1>6 DEF StoreTrailer, KInv, KeptInv, Kept, Entries
  <2>1. CASE UNCHANGED files
    BY <1>1, <1>6, <2>1 DEF StoreTrailer, Return
  <2>2. CASE files' = [files EXCEPT ![live.text].trailer = files[live.text].trailer + job.trailer]
    <3>1. files[live.text].trailer = 0 /\ job.trailer \in Nat
      BY <2>0 DEF OriginInv, KInv, TypeOK, Job
    <3>2. files[live.text].trailer + job.trailer = job.trailer
      BY <3>1
    <3>3. files' = [files EXCEPT ![live.text].trailer = job.trailer]
      BY <2>2, <3>2
    <3>4. /\ DOMAIN files' = DOMAIN files
          /\ \A k \in DOMAIN files :
               files'[k].tokens = files[k].tokens /\ files'[k].trailer \in {job.trailer, files[k].trailer}
      BY <1>0, <2>0, <3>3 DEF File
    <3> QED  BY <1>0, <1>6, <3>4 DEF OriginInv, StoreTrailer, Return
  <2> QED  BY <1>6, <2>1, <2>2 DEF StoreTrailer
<1>7. ASSUME NEW r \in Reasons, NEW t \in Trailers, StoreNew(r, t) PROVE OriginInv'
  BY <1>7 DEF StoreNew, Goto, memory, Without, OriginInv
<1>8. ASSUME NEW k \in DOMAIN files, EvictOne(k) PROVE OriginInv'
  BY <1>8 DEF EvictOne, memory, Without, OriginInv
<1>9. CASE Rename
  <2>1. /\ files' = With(live.text, tmp) /\ live' = live /\ pc' # "trailer" /\ job' = NoJob /\ pc = "rename"
    BY <1>9 DEF Rename, Return
  <2>2. tmp.tokens = live.tokens /\ tmp.trailer = job.trailer /\ live # None
    <3>1. /\ NewFile \in File /\ NewFile.tokens = live.tokens /\ NewFile.trailer = job.trailer /\ live # None
      BY <2>1, NewFileType
    <3>2. tmp = [NewFile EXCEPT !.whole = TRUE]
      BY <2>1 DEF KInv, WrittenInv
    <3> QED  BY <3>1, <3>2 DEF File
  <2>3. live = [text |-> live.text, tokens |-> tmp.tokens] /\ live \in Snapshots
    BY <2>2, StoreAssumption DEF OriginInv
  <2> QED  BY <1>0, <2>1, <2>2, <2>3 DEF With, OriginInv
<1>10. ASSUME NEW p \in Prompts, Load(p) PROVE OriginInv'
  <2>0. PICK v \in Views :
          /\ Best(v, p) # None
          /\ live' = [text |-> Best(v, p), tokens |-> files[Best(v, p)].tokens]
          /\ \/ files' = [files EXCEPT ![Best(v, p)].hits =
                             IF files[Best(v, p)].hits < MaxHits THEN files[Best(v, p)].hits + 1
                             ELSE files[Best(v, p)].hits]
             \/ UNCHANGED files
    BY <1>10 DEF Load
  <2> DEFINE b == Best(v, p)
             h == IF files[b].hits < MaxHits THEN files[b].hits + 1 ELSE files[b].hits
  <2>1. b \in DOMAIN files
    BY <2>0, BestIn DEF Best, Views
  <2>2. /\ live' = [text |-> b, tokens |-> files[b].tokens] /\ pc' # "trailer" /\ job' = NoJob
        /\ files' = [files EXCEPT ![b].hits = h] \/ UNCHANGED files
    BY <1>10, <2>0 DEF Load, Return
  <2> HIDE DEF b, h
  <2>3. /\ DOMAIN files' = DOMAIN files
        /\ \A k \in DOMAIN files : files'[k].tokens = files[k].tokens /\ files'[k].trailer = files[k].trailer
    BY <1>0, <2>1, <2>2 DEF File
  <2> QED  BY <1>0, <2>1, <2>2, <2>3 DEF OriginInv
<1>11. ASSUME NEW p \in Prompts, LoadMiss(p) \/ LoadFault(p) PROVE OriginInv'
  BY <1>0, <1>11 DEF LoadMiss, LoadFault, Return, memory, OriginInv
<1>12. CASE Work
  BY <1>1, <1>6, <1>8, <1>9, <1>12
     DEF Work, Stage, StageFault, EvictDenied, EvictDone, Create, Write, StoreFault, Goto, Return, memory
<1>13. CASE UNCHANGED vars
  BY <1>13 DEF vars, memory, call, OriginInv
<1> QED  BY <1>2, <1>3, <1>4, <1>5, <1>7, <1>10, <1>11, <1>12, <1>13 DEF Next

(* A waypoint that weighs a fortieth of an anchor's payload goes first. *)
LEMMA Ratio ==
  ASSUME NEW tj \in Nat, NEW sj \in Nat, NEW tk \in Nat, NEW sk \in Nat,
         0 < tk, tj < sj, sk <= 40 * tk
  PROVE  ((5 + 50 * 0) * tj) * sk < ((200 * (0 + 1)) * tk) * sj
<1>1. tj * sk <= tj * (40 * tk)
  OBVIOUS
<1>2. tk * (tj + 1) <= tk * sj
  OBVIOUS
<1>3. 5 * (tj * sk) <= 200 * (tj * tk)
  BY <1>1
<1>4. 200 * (tj * tk) < 200 * (tk * sj)
  BY <1>2
<1> QED  BY <1>3, <1>4

AnchorsStay ==
  \A k \in Entries : pc = "evict" /\ k \notin DOMAIN files' /\ Anchor(files[k]) =>
       ~\E j \in seen :
          /\ job.reason # "none" /\ files[j].reason = "continued" /\ files[j].hits = 0
          /\ IsStrictPrefix(j, live.text) /\ files[j].model = up.model
          /\ files[j].quant = up.quant /\ files[j].ctx = up.ctx

LEMMA AnchorsStep ==
  ASSUME MostlyPayload, KInv, OriginInv, [Next]_vars
  PROVE  AnchorsStay
<1> SUFFICES ASSUME NEW k \in Entries, pc = "evict", k \notin DOMAIN files', Anchor(files[k]),
                    NEW j \in seen, job.reason # "none", files[j].reason = "continued", files[j].hits = 0,
                    IsStrictPrefix(j, live.text), files[j].model = up.model,
                    files[j].quant = up.quant, files[j].ctx = up.ctx
             PROVE  FALSE
  BY DEF AnchorsStay
<1>0. k \in DOMAIN files /\ j \in DOMAIN files
  BY DEF Entries, KInv, RoomInv
<1>1. EvictOne(k)
  <2>1. files' # files
    BY <1>0
  <2>2. ~\E e \in Engines : Open(e)
    BY <2>1 DEF Open
  <2>3. ~\E s \in Snapshots : Serve(s)
    BY <2>1 DEF Serve
  <2>4. ~\E r \in Reasons, t \in Trailers : StoreKept(r, t) \/ StoreNew(r, t)
    BY DEF StoreKept, StoreNew, MayStore, Idle
  <2>5. ~\E p \in Prompts : LoadMiss(p) \/ Load(p) \/ LoadFault(p)
    BY DEF LoadMiss, Load, LoadFault, Idle
  <2>6. ~Stop /\ ~UNCHANGED vars
    BY <2>1 DEF Stop, vars
  <2>7. Work
    BY <2>2, <2>3, <2>4, <2>5, <2>6 DEF Next
  <2>8. PICK i \in DOMAIN files : EvictOne(i)
    BY <2>1, <2>7 DEF Work, StoreTrailer, Stage, StageFault, EvictDenied, EvictDone, Create, Write, Rename, StoreFault
  <2>9. i = k
    BY <1>0, <2>8 DEF EvictOne, Without
  <2> QED  BY <2>8, <2>9
<1>2. j # k
  BY DEF Anchor
<1> DEFINE tj == files[j].tokens
           tk == files[k].tokens
           sj == SizeOf(j)
           sk == SizeOf(k)
<1>3. Weight(j, files[j].hits) * sk >= Weight(k, 0) * sj
  BY <1>1, <1>2 DEF EvictOne, Victims
<1>4. /\ j \in Texts /\ k \in Texts /\ tj \in Nat /\ tk \in Nat /\ tk >= MinTokens
      /\ files[j].trailer \in Nat /\ files[k].trailer \in Nat
  <2>1. files[j] \in File /\ files[k] \in File /\ j \in Texts /\ k \in Texts /\ tk >= MinTokens
    BY <1>0 DEF KInv, FilesInv
  <2> QED  BY <2>1 DEF File
<1>5. 0 < tk
  BY <1>4, StoreAssumption
<1>6. sj \in Nat /\ sk \in Nat /\ tj < sj
  BY <1>4, SizeType DEF SizeOf
<1>7. j # <<>> /\ Overhead + Len(k) + files[k].trailer <= 39 * tk
  <2> DEFINE a == [text |-> j, tokens |-> tj]
             b == [text |-> k, tokens |-> tk]
  <2>1. a \in Snapshots /\ b \in Snapshots /\ files[j].trailer \in Trailers \cup {0} /\ files[k].trailer \in Trailers \cup {0}
    BY <1>0 DEF OriginInv
  <2>2. a.text = j /\ b.text = k /\ b.tokens = tk
    OBVIOUS
  <2> HIDE DEF a, b
  <2> QED  BY <1>4, <2>1, <2>2 DEF MostlyPayload
<1>8. sk <= 40 * tk
  <2>1. Overhead \in Nat /\ Len(k) \in Nat
    BY <1>4, SizeType, StoreAssumption
  <2> QED  BY <1>4, <1>7, <2>1 DEF SizeOf, FileSize
<1>9. Weight(k, 0) = (200 * (0 + 1)) * tk
  <2>1. ~Supersedes(k)
    BY DEF Supersedes, Anchor
  <2> QED  BY <2>1 DEF Weight
<1>10. Weight(j, files[j].hits) = (5 + 50 * 0) * tj
  <2>1. up.ctx <= files[j].ctx
    <3>1. files[j].ctx \in Nat
      BY <1>0 DEF KInv, FilesInv, File
    <3> QED  BY <3>1
  <2>2. Supersedes(j) /\ ~Anchor(files[j])
    BY <1>7, <2>1 DEF Supersedes, SameModel, Anchor
  <2> QED  BY <2>2 DEF Weight
<1> HIDE DEF tj, tk, sj, sk
<1>11. Weight(j, files[j].hits) * sk < Weight(k, 0) * sj
  BY <1>4, <1>5, <1>6, <1>8, <1>9, <1>10, Ratio
<1>12. Weight(j, files[j].hits) * sk \in Int /\ Weight(k, 0) * sj \in Int
  <2>1. tj \in Nat /\ tk \in Nat
    BY <1>4
  <2> QED  BY <1>6, <1>9, <1>10, <2>1
<1> QED  BY <1>3, <1>11, <1>12

(* Making room, an anchor goes only after every waypoint eviction sees     *)
(* that the incoming checkpoint contains and nobody ever loaded, when      *)
(* files are mostly payload: the scores divide by the whole file's size.   *)
THEOREM AnchorsLeaveLast ==
  ASSUME MostlyPayload
  PROVE  Spec => AnchorsLast
<1>1. KInv /\ OriginInv /\ [Next]_vars => AnchorsStay
  BY AnchorsStep
<1> QED  BY <1>1, InitOk, KInvStep, OriginInit, OriginStep, PTL DEF Spec, AnchorsLast, AnchorsStay

=============================================================================
