----------------------------- MODULE MovementProofs -----------------------------
(***************************************************************************)
(* Facts the proofs about every component rely on: what posting a movement *)
(* does to the records and the log, and what SumFunctionOnSet, the sum of  *)
(* a function over a finite set, gives.  Quantities of several records,    *)
(* lots, reservations or batches are added up with it.                     *)
(*                                                                         *)
(* SumFunctionOnSet is a recursive function on the subsets of a set, and   *)
(* its facts are proved by looking at a smallest subset that contradicts   *)
(* them: strict inclusion is well founded on the subsets of a finite set.  *)
(***************************************************************************)
EXTENDS StockMovements, Functions, FiniteSetTheorems, TLAPS

-----------------------------------------------------------------------------
(* Movements.                                                                *)

(* The records and amounts a movement names are well typed. *)
LEMMA MovementTypes ==
    ASSUME NEW m \in Movement
    PROVE  /\ m.quantity \in Nat
           /\ HasSource(m) => Source(m) \in StockRecord
           /\ HasDest(m) => Dest(m) \in StockRecord
           /\ \A rec \in StockRecord : Outgoing(m, rec) \in Nat /\ Incoming(m, rec) \in Nat
BY MovementAssumption
   DEF Movement, HasSource, HasDest, Source, Dest, StockRecord, Outgoing, Incoming

(* Records that are non-negative and equal to the log, before a movement     *)
(* whose source holds enough, are so after it.                               *)
LEMMA MovementPosts ==
    ASSUME NEW m \in Movement,
           NEW q, q \in [StockRecord -> Int], NEW in, in \in [StockRecord -> Nat],
           NEW out, out \in [StockRecord -> Nat],
           \A rec \in StockRecord : q[rec] >= 0 /\ q[rec] = in[rec] - out[rec],
           HasSource(m) => q[Source(m)] >= m.quantity,
           NEW q1, q1 = [rec \in StockRecord |-> q[rec] - Outgoing(m, rec) + Incoming(m, rec)],
           NEW in1, in1 = [rec \in StockRecord |-> in[rec] + Incoming(m, rec)],
           NEW out1, out1 = [rec \in StockRecord |-> out[rec] + Outgoing(m, rec)]
    PROVE  /\ q1 \in [StockRecord -> Int]
           /\ in1 \in [StockRecord -> Nat] /\ out1 \in [StockRecord -> Nat]
           /\ \A rec \in StockRecord : q1[rec] >= 0 /\ q1[rec] = in1[rec] - out1[rec]
<1>1. ASSUME NEW rec \in StockRecord
      PROVE  /\ q1[rec] \in Nat /\ in1[rec] \in Nat /\ out1[rec] \in Nat
             /\ q1[rec] = in1[rec] - out1[rec]
    <2>1. Outgoing(m, rec) \in Nat /\ Incoming(m, rec) \in Nat
        BY MovementTypes
    <2>2. Outgoing(m, rec) <= q[rec]
        BY MovementTypes DEF Outgoing
    <2>3. q[rec] \in Int /\ in[rec] \in Nat /\ out[rec] \in Nat /\ q[rec] = in[rec] - out[rec]
        OBVIOUS
    <2> QED
        BY <2>1, <2>2, <2>3
<1> QED
    BY <1>1

-----------------------------------------------------------------------------
(* Sums.                                                                     *)

(* A non-empty family of subsets of a finite set has a smallest member. *)
LEMMA MinimalSubset ==
    ASSUME NEW S, IsFiniteSet(S), NEW X, X \subseteq SUBSET S, X # {}
    PROVE  \E m \in X : \A y \in X : y \subseteq m => y = m
<1>1. IsWellFoundedOn(StrictSubsetOrdering(S), SUBSET S)
    BY FS_StrictSubsetOrderingWellFounded, FS_FiniteSubsetsOfFinite
<1>2. PICK m \in X : \A y \in X : <<y, m>> \notin StrictSubsetOrdering(S)
    BY <1>1, WFMin
<1>3. ASSUME NEW y \in X, y \subseteq m, y # m PROVE FALSE
    <2>1. <<y, m>> \in StrictSubsetOrdering(S)
        BY <1>3 DEF StrictSubsetOrdering
    <2> QED BY <2>1, <1>2
<1> QED BY <1>3

-----------------------------------------------------------------------------
(* The recursive function is well defined.                                   *)

Pick(s) == CHOOSE x \in s : TRUE

(* it is what the definition iterates: the sums of f over the subsets of S. *)
IsSum(f, S, it) ==
    it = [s \in SUBSET S |-> IF s = {} THEN 0 ELSE f[Pick(s)] + it[s \ {Pick(s)}]]

LEMMA PickMember == ASSUME NEW s, s # {} PROVE Pick(s) \in s
BY DEF Pick

LEMMA IsSumAt ==
    ASSUME NEW f, NEW S, NEW it, IsSum(f, S, it), NEW s \in SUBSET S
    PROVE  /\ s = {} => it[s] = 0
           /\ s # {} => it[s] = f[Pick(s)] + it[s \ {Pick(s)}]
BY DEF IsSum

(* Two such functions agree where both are defined. *)
LEMMA IsSumUnique ==
    ASSUME NEW f, NEW S, NEW T, IsFiniteSet(T), T \subseteq S,
           NEW a, IsSum(f, S, a), NEW b, IsSum(f, T, b)
    PROVE  \A s \in SUBSET T : a[s] = b[s]
<1> DEFINE X == {s \in SUBSET T : a[s] # b[s]}
<1> SUFFICES ASSUME X # {} PROVE FALSE
    OBVIOUS
<1>0. X \subseteq SUBSET T
    OBVIOUS
<1>1. PICK m \in X : \A y \in X : y \subseteq m => y = m
    <2> HIDE DEF X
    <2> QED BY <1>0, MinimalSubset
<1> DEFINE c == Pick(m)
<1>2. m \in SUBSET T /\ m \in SUBSET S /\ a[m] # b[m]
    BY <1>1
<1>3. m # {}
    BY <1>2, IsSumAt
<1>4. c \in m
    BY <1>3, PickMember
<1>5. a[m \ {c}] = b[m \ {c}]
    BY <1>1, <1>2, <1>4
<1>6. a[m] = f[c] + a[m \ {c}] /\ b[m] = f[c] + b[m \ {c}]
    BY <1>2, <1>3, IsSumAt
<1> QED BY <1>2, <1>5, <1>6

LEMMA IsSumExists ==
    ASSUME NEW f, NEW S, IsFiniteSet(S)
    PROVE  \E it : IsSum(f, S, it)
<1> DEFINE X == {s \in SUBSET S : ~ \E it : IsSum(f, s, it)}
<1> SUFFICES ASSUME X # {} PROVE FALSE
    OBVIOUS
<1>0. X \subseteq SUBSET S
    OBVIOUS
<1>1. PICK m \in X : \A y \in X : y \subseteq m => y = m
    <2> HIDE DEF X
    <2> QED BY <1>0, MinimalSubset
<1> DEFINE below(s) == CHOOSE it : IsSum(f, s, it)
           top == IF m = {} THEN 0 ELSE f[Pick(m)] + below(m \ {Pick(m)})[m \ {Pick(m)}]
           it == [s \in SUBSET m |-> IF s = m THEN top ELSE below(s)[s]]
<1>2. ASSUME NEW s \in SUBSET m, s # m PROVE IsSum(f, s, below(s))
    BY <1>1, <1>2
<1>3. ASSUME NEW s \in SUBSET m
      PROVE  it[s] = IF s = {} THEN 0 ELSE f[Pick(s)] + it[s \ {Pick(s)}]
    <2>1. CASE s = m /\ m = {}
        BY <2>1
    <2>2. CASE s = m /\ m # {}
        <3>1. Pick(m) \in m
            BY <2>2, PickMember
        <3>2. m \ {Pick(m)} \in SUBSET m /\ m \ {Pick(m)} # m
            BY <3>1
        <3> QED BY <2>2, <3>2
    <2>3. CASE s # m /\ s = {}
        BY <2>3, <1>2, IsSumAt
    <2>4. CASE s # m /\ s # {}
        <3> DEFINE r == s \ {Pick(s)}
        <3>1. Pick(s) \in s
            BY <2>4, PickMember
        <3>2. r \in SUBSET m /\ r # m /\ r \subseteq s
            BY <3>1
        <3>3. IsSum(f, s, below(s)) /\ IsSum(f, r, below(r))
            BY <1>2, <2>4, <3>2
        <3>4. below(s)[s] = f[Pick(s)] + below(s)[r]
            BY <3>3, <2>4, IsSumAt
        <3>5. IsFiniteSet(r)
            BY <3>2, <1>1, FS_Subset
        <3>6. below(s)[r] = below(r)[r]
            <4> HIDE DEF below, r
            <4>1. r \in SUBSET r
                OBVIOUS
            <4> QED BY <3>2, <3>3, <3>5, <4>1, IsSumUnique
        <3>7. it[r] = below(r)[r] /\ it[s] = below(s)[s]
            BY <3>2, <2>4
        <3> QED BY <2>4, <3>4, <3>6, <3>7
    <2> QED BY <2>1, <2>2, <2>3, <2>4
<1>4. it = [s \in SUBSET m |-> IF s = {} THEN 0 ELSE f[Pick(s)] + it[s \ {Pick(s)}]]
    <2> DEFINE other == [s \in SUBSET m |-> IF s = {} THEN 0 ELSE f[Pick(s)] + it[s \ {Pick(s)}]]
    <2>1. it = [s \in SUBSET m |-> it[s]]
        OBVIOUS
    <2>2. \A s \in SUBSET m : it[s] = other[s]
        BY <1>3
    <2> HIDE DEF it
    <2>3. it = [s \in SUBSET m |-> other[s]]
        BY <2>1, <2>2
    <2> QED BY <2>3
<1>5. IsSum(f, m, it)
    BY <1>4 DEF IsSum
<1> QED BY <1>1, <1>5

LEMMA SumIsSum ==
    ASSUME NEW f, NEW S, IsFiniteSet(S)
    PROVE  \E it : IsSum(f, S, it) /\ SumFunctionOnSet(f, S) = it[S]
<1> DEFINE Def(it) == it = [s \in SUBSET S |-> IF s = {} THEN 0 ELSE
                               f[CHOOSE x \in s : TRUE] + it[s \ {CHOOSE x \in s : TRUE}]]
           chosen == CHOOSE it : Def(it)
<1>1. SumFunctionOnSet(f, S) = chosen[S]
    BY DEF SumFunctionOnSet, FoldFunctionOnSet, MapThenFoldSet
<1>2. \E it : Def(it)
    <2>1. PICK it : IsSum(f, S, it)
        BY IsSumExists
    <2> QED BY <2>1 DEF IsSum, Pick
<1>3. Def(chosen)
    BY <1>2
<1>4. IsSum(f, S, chosen)
    BY <1>3 DEF IsSum, Pick
<1> QED BY <1>1, <1>4

LEMMA SumEmpty == ASSUME NEW f PROVE SumFunctionOnSet(f, {}) = 0
<1>1. PICK it : IsSum(f, {}, it) /\ SumFunctionOnSet(f, {}) = it[{}]
    BY SumIsSum, FS_EmptySet
<1> QED BY <1>1, IsSumAt

LEMMA SumPicked ==
    ASSUME NEW f, NEW S, IsFiniteSet(S), S # {}
    PROVE  SumFunctionOnSet(f, S) = f[Pick(S)] + SumFunctionOnSet(f, S \ {Pick(S)})
<1> DEFINE R == S \ {Pick(S)}
<1>1. Pick(S) \in S
    BY PickMember
<1>2. IsFiniteSet(R)
    BY FS_Subset
<1>3. PICK a : IsSum(f, S, a) /\ SumFunctionOnSet(f, S) = a[S]
    BY SumIsSum
<1>4. PICK b : IsSum(f, R, b) /\ SumFunctionOnSet(f, R) = b[R]
    BY <1>2, SumIsSum
<1>5. a[R] = b[R]
    BY <1>2, <1>3, <1>4, IsSumUnique
<1>6. a[S] = f[Pick(S)] + a[R]
    BY <1>3, IsSumAt
<1> QED BY <1>3, <1>4, <1>5, <1>6

-----------------------------------------------------------------------------
(* Sums of integers.                                                         *)

LEMMA SumInt ==
    ASSUME NEW f, NEW S, IsFiniteSet(S), \A x \in S : f[x] \in Int
    PROVE  SumFunctionOnSet(f, S) \in Int
<1> DEFINE X == {s \in SUBSET S : SumFunctionOnSet(f, s) \notin Int}
<1> SUFFICES ASSUME X # {} PROVE FALSE
    <2>1. S \in SUBSET S
        OBVIOUS
    <2> QED BY <2>1
<1>0. X \subseteq SUBSET S
    OBVIOUS
<1>1. PICK m \in X : \A y \in X : y \subseteq m => y = m
    <2> HIDE DEF X
    <2> QED BY <1>0, MinimalSubset
<1>2. m # {}
    <2>1. SumFunctionOnSet(f, {}) = 0
        BY SumEmpty
    <2>2. SumFunctionOnSet(f, {}) \in Int
        BY <2>1
    <2>3. SumFunctionOnSet(f, m) \notin Int
        BY <1>1
    <2> QED BY <2>2, <2>3
<1>3. Pick(m) \in m
    BY <1>2, PickMember
<1>4. IsFiniteSet(m)
    BY <1>1, FS_Subset
<1>5. SumFunctionOnSet(f, m \ {Pick(m)}) \in Int
    BY <1>1, <1>3
<1>6. SumFunctionOnSet(f, m) = f[Pick(m)] + SumFunctionOnSet(f, m \ {Pick(m)})
    BY <1>2, <1>4, SumPicked
<1> QED BY <1>1, <1>3, <1>5, <1>6

(* Any element can be taken out of a sum, not only the one picked. *)
LEMMA SumRemove ==
    ASSUME NEW f, NEW S, IsFiniteSet(S), \A x \in S : f[x] \in Int, NEW y \in S
    PROVE  SumFunctionOnSet(f, S) = f[y] + SumFunctionOnSet(f, S \ {y})
<1> DEFINE X == {s \in SUBSET S :
                    \E z \in s : SumFunctionOnSet(f, s) # f[z] + SumFunctionOnSet(f, s \ {z})}
<1> SUFFICES ASSUME X # {} PROVE FALSE
    <2>1. S \in SUBSET S
        OBVIOUS
    <2> QED BY <2>1
<1>0. X \subseteq SUBSET S
    OBVIOUS
<1>1. PICK m \in X : \A t \in X : t \subseteq m => t = m
    <2> HIDE DEF X
    <2> QED BY <1>0, MinimalSubset
<1>2. PICK z \in m : SumFunctionOnSet(f, m) # f[z] + SumFunctionOnSet(f, m \ {z})
    BY <1>1
<1> DEFINE c == Pick(m)
<1>3. c \in m
    BY <1>2, PickMember
<1>4. \A s \in SUBSET m : IsFiniteSet(s)
    BY <1>1, FS_Subset
<1>5. SumFunctionOnSet(f, m) = f[c] + SumFunctionOnSet(f, m \ {c})
    BY <1>2, <1>4, SumPicked
<1>6. z # c
    BY <1>2, <1>5
<1>7. SumFunctionOnSet(f, m \ {c}) = f[z] + SumFunctionOnSet(f, (m \ {c}) \ {z})
    <2>1. m \ {c} \in SUBSET S /\ m \ {c} \subseteq m /\ m \ {c} # m /\ z \in m \ {c}
        BY <1>1, <1>3, <1>6
    <2> QED BY <1>1, <2>1
<1>8. SumFunctionOnSet(f, m \ {z}) = f[c] + SumFunctionOnSet(f, (m \ {z}) \ {c})
    <2>1. m \ {z} \in SUBSET S /\ m \ {z} \subseteq m /\ m \ {z} # m /\ c \in m \ {z}
        BY <1>1, <1>2, <1>3, <1>6
    <2> QED BY <1>1, <2>1
<1>9. (m \ {c}) \ {z} = (m \ {z}) \ {c}
    OBVIOUS
<1>10. /\ f[z] \in Int /\ f[c] \in Int
       /\ SumFunctionOnSet(f, (m \ {z}) \ {c}) \in Int
    <2>1. IsFiniteSet((m \ {z}) \ {c}) /\ \A x \in (m \ {z}) \ {c} : f[x] \in Int
        BY <1>1, <1>4
    <2> QED BY <1>1, <1>2, <1>3, <2>1, SumInt
<1>11. \A i, j, n \in Int : i + (j + n) = j + (i + n)
    OBVIOUS
<1>12. f[c] + (f[z] + SumFunctionOnSet(f, (m \ {z}) \ {c}))
           = f[z] + (f[c] + SumFunctionOnSet(f, (m \ {z}) \ {c}))
    BY <1>10, <1>11
<1> HIDE DEF c, X
<1> QED BY <1>2, <1>5, <1>7, <1>8, <1>9, <1>12, Zenon

LEMMA SumAdd ==
    ASSUME NEW f, NEW S, IsFiniteSet(S), NEW y, y \notin S,
           \A x \in S \cup {y} : f[x] \in Int
    PROVE  SumFunctionOnSet(f, S \cup {y}) = f[y] + SumFunctionOnSet(f, S)
<1>1. IsFiniteSet(S \cup {y})
    BY FS_AddElement
<1>2. (S \cup {y}) \ {y} = S
    OBVIOUS
<1> QED BY <1>1, <1>2, SumRemove

(* The sum of a sum of two functions; with g zero, of two equal functions. *)
LEMMA SumPlus ==
    ASSUME NEW f, NEW g, NEW h, NEW S, IsFiniteSet(S),
           \A x \in S : f[x] \in Int /\ g[x] \in Int /\ h[x] = f[x] + g[x]
    PROVE  SumFunctionOnSet(h, S) = SumFunctionOnSet(f, S) + SumFunctionOnSet(g, S)
<1> DEFINE X == {s \in SUBSET S : SumFunctionOnSet(h, s)
                                  # SumFunctionOnSet(f, s) + SumFunctionOnSet(g, s)}
<1> SUFFICES ASSUME X # {} PROVE FALSE
    <2>1. S \in SUBSET S
        OBVIOUS
    <2> QED BY <2>1
<1>0. X \subseteq SUBSET S
    OBVIOUS
<1>1. PICK m \in X : \A t \in X : t \subseteq m => t = m
    <2> HIDE DEF X
    <2> QED BY <1>0, MinimalSubset
<1>2. m # {}
    <2>1. /\ SumFunctionOnSet(f, {}) = 0 /\ SumFunctionOnSet(g, {}) = 0
          /\ SumFunctionOnSet(h, {}) = 0
        BY SumEmpty
    <2>2. SumFunctionOnSet(h, {}) = SumFunctionOnSet(f, {}) + SumFunctionOnSet(g, {})
        BY <2>1
    <2>3. SumFunctionOnSet(h, m) # SumFunctionOnSet(f, m) + SumFunctionOnSet(g, m)
        BY <1>1
    <2> QED BY <2>2, <2>3
<1> DEFINE c == Pick(m)
           r == m \ {c}
<1>3. c \in m
    BY <1>2, PickMember
<1>4. IsFiniteSet(m) /\ IsFiniteSet(r)
    BY <1>1, FS_Subset
<1>5. SumFunctionOnSet(h, r) = SumFunctionOnSet(f, r) + SumFunctionOnSet(g, r)
    BY <1>1, <1>3
<1>6. /\ SumFunctionOnSet(f, m) = f[c] + SumFunctionOnSet(f, r)
      /\ SumFunctionOnSet(g, m) = g[c] + SumFunctionOnSet(g, r)
      /\ SumFunctionOnSet(h, m) = h[c] + SumFunctionOnSet(h, r)
    BY <1>2, <1>4, SumPicked
<1>7. /\ f[c] \in Int /\ g[c] \in Int /\ h[c] = f[c] + g[c]
      /\ SumFunctionOnSet(f, r) \in Int /\ SumFunctionOnSet(g, r) \in Int
    <2>1. \A x \in r : f[x] \in Int /\ g[x] \in Int
        BY <1>1
    <2> QED BY <1>1, <1>3, <1>4, <2>1, SumInt
<1>8. SumFunctionOnSet(h, m) # SumFunctionOnSet(f, m) + SumFunctionOnSet(g, m)
    BY <1>1
<1> HIDE DEF c, r, X
<1> QED BY <1>5, <1>6, <1>7, <1>8

LEMMA SumZero ==
    ASSUME NEW f, NEW S, IsFiniteSet(S), \A x \in S : f[x] = 0
    PROVE  SumFunctionOnSet(f, S) = 0
<1>1. SumFunctionOnSet(f, S) \in Int
    BY SumInt
<1>2. SumFunctionOnSet(f, S) = SumFunctionOnSet(f, S) + SumFunctionOnSet(f, S)
    BY SumPlus
<1>3. \A n \in Int : n = n + n => n = 0
    BY SMTT(30)
<1> QED BY <1>1, <1>2, <1>3, Zenon

LEMMA SumEqual ==
    ASSUME NEW f, NEW g, NEW S, IsFiniteSet(S), \A x \in S : f[x] \in Int /\ f[x] = g[x]
    PROVE  SumFunctionOnSet(f, S) = SumFunctionOnSet(g, S)
<1> DEFINE zero == [x \in S |-> 0]
<1>1. \A x \in S : zero[x] = 0
    OBVIOUS
<1> HIDE DEF zero
<1>2. SumFunctionOnSet(zero, S) = 0
    BY <1>1, SumZero
<1>3. SumFunctionOnSet(g, S) = SumFunctionOnSet(f, S) + SumFunctionOnSet(zero, S)
    BY <1>1, SumPlus
<1>4. SumFunctionOnSet(f, S) \in Int
    BY SumInt
<1> QED BY <1>2, <1>3, <1>4

(* Two functions that differ at one point. *)
LEMMA SumUpdate ==
    ASSUME NEW f, NEW g, NEW S, IsFiniteSet(S), NEW y \in S,
           \A x \in S : f[x] \in Int /\ g[x] \in Int,
           \A x \in S : x # y => f[x] = g[x]
    PROVE  SumFunctionOnSet(g, S) = SumFunctionOnSet(f, S) + g[y] - f[y]
<1> DEFINE r == S \ {y}
<1>1. IsFiniteSet(r)
    BY FS_Subset
<1>2. SumFunctionOnSet(f, r) = SumFunctionOnSet(g, r)
    BY <1>1, SumEqual
<1>3. SumFunctionOnSet(f, r) \in Int
    BY <1>1, SumInt
<1>4. SumFunctionOnSet(f, S) = f[y] + SumFunctionOnSet(f, r)
    BY SumRemove
<1>5. SumFunctionOnSet(g, S) = g[y] + SumFunctionOnSet(g, r)
    BY SumRemove
<1> QED BY <1>2, <1>3, <1>4, <1>5

LEMMA SumNat ==
    ASSUME NEW f, NEW S, IsFiniteSet(S), \A x \in S : f[x] \in Nat
    PROVE  /\ SumFunctionOnSet(f, S) \in Nat
           /\ \A x \in S : f[x] <= SumFunctionOnSet(f, S)
<1> DEFINE X == {s \in SUBSET S : ~(SumFunctionOnSet(f, s) \in Nat)}
<1>a. X = {}
    <2> SUFFICES ASSUME X # {} PROVE FALSE
        OBVIOUS
    <2>0. X \subseteq SUBSET S
        OBVIOUS
    <2>1. PICK m \in X : \A t \in X : t \subseteq m => t = m
        <3> HIDE DEF X
        <3> QED BY <2>0, MinimalSubset
    <2>2. m # {}
        <3>1. SumFunctionOnSet(f, {}) = 0
            BY SumEmpty
        <3>2. SumFunctionOnSet(f, {}) \in Nat
            BY <3>1
        <3>3. SumFunctionOnSet(f, m) \notin Nat
            BY <2>1
        <3> QED BY <3>2, <3>3
    <2>3. Pick(m) \in m
        BY <2>2, PickMember
    <2>4. IsFiniteSet(m)
        BY <2>1, FS_Subset
    <2>5. SumFunctionOnSet(f, m \ {Pick(m)}) \in Nat
        BY <2>1, <2>3
    <2>6. SumFunctionOnSet(f, m) = f[Pick(m)] + SumFunctionOnSet(f, m \ {Pick(m)})
        BY <2>2, <2>4, SumPicked
    <2> QED BY <2>1, <2>3, <2>5, <2>6
<1>1. \A s \in SUBSET S : SumFunctionOnSet(f, s) \in Nat
    BY <1>a
<1>2. ASSUME NEW x \in S PROVE f[x] <= SumFunctionOnSet(f, S)
    <2>1. SumFunctionOnSet(f, S) = f[x] + SumFunctionOnSet(f, S \ {x})
        BY SumRemove
    <2>2. SumFunctionOnSet(f, S \ {x}) \in Nat
        BY <1>1
    <2> QED BY <2>1, <2>2
<1>3. S \in SUBSET S
    OBVIOUS
<1> HIDE DEF X
<1> QED BY <1>1, <1>2, <1>3

(* A sum over part of a set, as a sum over all of it. *)
LEMMA SumPart ==
    ASSUME NEW f, NEW g, NEW S, IsFiniteSet(S), NEW T \in SUBSET S,
           \A x \in T : f[x] \in Int /\ g[x] = f[x], \A x \in S \ T : g[x] = 0
    PROVE  SumFunctionOnSet(f, T) = SumFunctionOnSet(g, S)
<1> DEFINE X == {s \in SUBSET (S \ T) : SumFunctionOnSet(g, T \cup s) # SumFunctionOnSet(g, T)}
<1>1. IsFiniteSet(T) /\ IsFiniteSet(S \ T)
    BY FS_Subset
<1>2. X = {}
    <2> SUFFICES ASSUME X # {} PROVE FALSE
        OBVIOUS
    <2>0. X \subseteq SUBSET (S \ T)
        OBVIOUS
    <2>1. PICK m \in X : \A t \in X : t \subseteq m => t = m
        <3> HIDE DEF X
        <3> QED BY <1>1, <2>0, MinimalSubset
    <2>2. m # {}
        <3>1. T \cup {} = T
            OBVIOUS
        <3> QED BY <2>1, <3>1
    <2>3. PICK c : c \in m
        BY <2>2
    <2> DEFINE r == T \cup (m \ {c})
    <2>4. IsFiniteSet(r)
        BY <2>1, FS_Subset
    <2>5. SumFunctionOnSet(g, r) = SumFunctionOnSet(g, T)
        <3>1. m \ {c} \in SUBSET (S \ T) /\ m \ {c} \notin X
            <4>1. m \ {c} \subseteq m /\ m \ {c} # m
                BY <2>3
            <4>2. m \ {c} \notin X
                <5> HIDE DEF X
                <5> QED BY <2>1, <4>1
            <4> QED BY <2>1, <4>2
        <3> QED BY <3>1
    <2>6. c \notin r /\ r \cup {c} = T \cup m /\ g[c] = 0 /\ \A x \in r \cup {c} : g[x] \in Int
        BY <2>1, <2>3
    <2>7. SumFunctionOnSet(g, r) \in Int
        BY <2>4, <2>6, SumInt
    <2>8. SumFunctionOnSet(g, r \cup {c}) = g[c] + SumFunctionOnSet(g, r)
        <3> HIDE DEF r
        <3> QED BY <2>4, <2>6, SumAdd
    <2>9. SumFunctionOnSet(g, T \cup m) = SumFunctionOnSet(g, r)
        <3> HIDE DEF r
        <3>1. \A n \in Int : 0 + n = n
            OBVIOUS
        <3> QED BY <2>6, <2>7, <2>8, <3>1, Zenon
    <2>10. SumFunctionOnSet(g, T \cup m) # SumFunctionOnSet(g, T)
        BY <2>1
    <2> QED BY <2>5, <2>9, <2>10
<1>3. T \cup (S \ T) = S
    OBVIOUS
<1>4. SumFunctionOnSet(g, S) = SumFunctionOnSet(g, T)
    <2>1. S \ T \in SUBSET (S \ T)
        OBVIOUS
    <2>2. SumFunctionOnSet(g, T \cup (S \ T)) = SumFunctionOnSet(g, T)
        BY <1>2, <2>1
    <2> QED BY <1>3, <2>2
<1>5. SumFunctionOnSet(f, T) = SumFunctionOnSet(g, T)
    <2> HIDE DEF X
    <2> QED BY <1>1, SumEqual
<1> QED BY <1>4, <1>5

(* The sum of a larger function is larger. *)
LEMMA SumMonotone ==
    ASSUME NEW f, NEW g, NEW S, IsFiniteSet(S),
           \A x \in S : f[x] \in Int /\ g[x] \in Int /\ f[x] <= g[x]
    PROVE  SumFunctionOnSet(f, S) <= SumFunctionOnSet(g, S)
<1> DEFINE d == [x \in S |-> g[x] - f[x]]
<1>1. \A x \in S : d[x] \in Nat /\ g[x] = f[x] + d[x]
    OBVIOUS
<1> HIDE DEF d
<1>2. SumFunctionOnSet(g, S) = SumFunctionOnSet(f, S) + SumFunctionOnSet(d, S)
    BY <1>1, SumPlus
<1>3. SumFunctionOnSet(d, S) \in Nat
    BY <1>1, SumNat
<1>4. SumFunctionOnSet(f, S) \in Int
    BY SumInt
<1>5. \A i \in Int, n \in Nat : i <= i + n
    OBVIOUS
<1> QED BY <1>2, <1>3, <1>4, <1>5, Zenon

(* Renaming the elements that are summed over. *)
Renamed(e, S) == {e[x] : x \in S}

LEMMA SumRenamed ==
    ASSUME NEW f, NEW g, NEW e, NEW S, IsFiniteSet(S),
           \A x, y \in S : x # y => e[x] # e[y],
           \A x \in S : f[x] \in Int /\ g[e[x]] = f[x]
    PROVE  SumFunctionOnSet(f, S) = SumFunctionOnSet(g, Renamed(e, S))
<1> DEFINE X == {s \in SUBSET S : ~(/\ IsFiniteSet(Renamed(e, s))
                                    /\ SumFunctionOnSet(f, s) = SumFunctionOnSet(g, Renamed(e, s)))}
<1> SUFFICES ASSUME X # {} PROVE FALSE
    <2>1. S \in SUBSET S
        OBVIOUS
    <2> QED BY <2>1
<1>0. X \subseteq SUBSET S
    OBVIOUS
<1>1. PICK m \in X : \A t \in X : t \subseteq m => t = m
    <2> HIDE DEF X
    <2> QED BY <1>0, MinimalSubset
<1>2. m # {}
    <2>1. Renamed(e, {}) = {}
        BY DEF Renamed
    <2>2. IsFiniteSet({}) /\ SumFunctionOnSet(f, {}) = 0 /\ SumFunctionOnSet(g, {}) = 0
        BY SumEmpty, FS_EmptySet
    <2> QED BY <1>1, <2>1, <2>2
<1>3. PICK c : c \in m
    BY <1>2
<1> DEFINE r == m \ {c}
<1>4. IsFiniteSet(r) /\ r \in SUBSET S /\ c \in S /\ m = r \cup {c}
    BY <1>1, <1>3, FS_Subset
<1>5. IsFiniteSet(Renamed(e, r)) /\ SumFunctionOnSet(f, r) = SumFunctionOnSet(g, Renamed(e, r))
    <2>1. r \subseteq m /\ r # m
        BY <1>3
    <2>2. r \notin X
        <3> HIDE DEF X
        <3> QED BY <1>1, <2>1
    <2> QED BY <1>4, <2>2
<1>6. Renamed(e, m) = Renamed(e, r) \cup {e[c]} /\ e[c] \notin Renamed(e, r)
    <2>1. \A x \in r : x \in S /\ x # c
        BY <1>4
    <2> HIDE DEF r
    <2> QED BY <1>4, <2>1 DEF Renamed
<1>7. IsFiniteSet(Renamed(e, m))
    <2>1. IsFiniteSet(Renamed(e, r) \cup {e[c]})
        BY <1>5, FS_AddElement
    <2> HIDE DEF r
    <2> QED BY <1>6, <2>1, Zenon
<1>8. SumFunctionOnSet(f, m) = f[c] + SumFunctionOnSet(f, r)
    <2>1. c \notin r /\ \A x \in r \cup {c} : f[x] \in Int
        BY <1>4
    <2> HIDE DEF r
    <2> QED BY <1>4, <2>1, SumAdd
<1>9. SumFunctionOnSet(g, Renamed(e, m)) = g[e[c]] + SumFunctionOnSet(g, Renamed(e, r))
    <2>1. \A x \in Renamed(e, r) \cup {e[c]} : g[x] \in Int
        <3> HIDE DEF r
        <3> QED BY <1>4 DEF Renamed
    <2> HIDE DEF r
    <2> QED BY <1>5, <1>6, <2>1, SumAdd
<1>10. SumFunctionOnSet(f, m) = SumFunctionOnSet(g, Renamed(e, m))
    BY <1>4, <1>5, <1>8, <1>9
<1> QED BY <1>1, <1>7, <1>10

(* The sum of a difference. *)
LEMMA SumMinus ==
    ASSUME NEW f, NEW g, NEW h, NEW S, IsFiniteSet(S),
           \A x \in S : f[x] \in Int /\ g[x] \in Int /\ h[x] = f[x] - g[x]
    PROVE  SumFunctionOnSet(h, S) = SumFunctionOnSet(f, S) - SumFunctionOnSet(g, S)
<1>1. \A x \in S : h[x] \in Int /\ f[x] = h[x] + g[x]
    OBVIOUS
<1>2. SumFunctionOnSet(f, S) = SumFunctionOnSet(h, S) + SumFunctionOnSet(g, S)
    BY <1>1, SumPlus
<1>3. SumFunctionOnSet(h, S) \in Int /\ SumFunctionOnSet(g, S) \in Int
    BY <1>1, SumInt
<1> QED
    BY <1>2, <1>3

(* A function that is zero but at y. *)
LEMMA SumSingle ==
    ASSUME NEW f, NEW S, IsFiniteSet(S), NEW y \in S, f[y] \in Int,
           \A x \in S : x # y => f[x] = 0
    PROVE  SumFunctionOnSet(f, S) = f[y]
<1>1. \A x \in S : f[x] \in Int
    OBVIOUS
<1>2. SumFunctionOnSet(f, S) = f[y] + SumFunctionOnSet(f, S \ {y})
    BY <1>1, SumRemove
<1>3. SumFunctionOnSet(f, S \ {y}) = 0
    <2>1. IsFiniteSet(S \ {y}) /\ \A x \in S \ {y} : f[x] = 0
        BY FS_Subset
    <2> QED BY <2>1, SumZero
<1>4. \A n \in Int : n + 0 = n
    OBVIOUS
<1> QED
    BY <1>2, <1>3, <1>4, Zenon


(* The sum over two sets that share nothing. *)
LEMMA SumDisjoint ==
    ASSUME NEW f, NEW S, IsFiniteSet(S), NEW T, IsFiniteSet(T), S \cap T = {},
           \A x \in S \cup T : f[x] \in Int
    PROVE  SumFunctionOnSet(f, S \cup T) = SumFunctionOnSet(f, S) + SumFunctionOnSet(f, T)
<1> DEFINE U == S \cup T
           g == [x \in U |-> IF x \in S THEN f[x] ELSE 0]
           h == [x \in U |-> IF x \in T THEN f[x] ELSE 0]
<1>1. IsFiniteSet(U) /\ S \in SUBSET U /\ T \in SUBSET U
    BY FS_Union
<1>2. \A x \in U : g[x] \in Int /\ h[x] \in Int /\ f[x] = g[x] + h[x]
    <2>1. ASSUME NEW x \in S
          PROVE  x \in U /\ x \notin T /\ g[x] = f[x] /\ h[x] = 0 /\ f[x] \in Int
        OBVIOUS
    <2>2. ASSUME NEW x \in T
          PROVE  x \in U /\ x \notin S /\ h[x] = f[x] /\ g[x] = 0 /\ f[x] \in Int
        OBVIOUS
    <2>3. ASSUME NEW x \in U PROVE x \in S \/ x \in T
        OBVIOUS
    <2> HIDE DEF U, g, h
    <2> QED BY <2>1, <2>2, <2>3
<1>3. (\A x \in S : f[x] \in Int /\ g[x] = f[x]) /\ (\A x \in U \ S : g[x] = 0)
    OBVIOUS
<1>7. (\A x \in T : f[x] \in Int /\ h[x] = f[x]) /\ (\A x \in U \ T : h[x] = 0)
    OBVIOUS
<1> HIDE DEF U, g, h
<1>4. SumFunctionOnSet(f, U) = SumFunctionOnSet(g, U) + SumFunctionOnSet(h, U)
    BY ONLY <1>1, <1>2, SumPlus
<1>5. SumFunctionOnSet(f, S) = SumFunctionOnSet(g, U)
    BY ONLY <1>1, <1>3, SumPart
<1>6. SumFunctionOnSet(f, T) = SumFunctionOnSet(h, U)
    BY ONLY <1>1, <1>7, SumPart
<1> QED
    BY <1>4, <1>5, <1>6 DEF U

(* The sum over pairs, one column after the other. *)
Columns(f, A, B, column, total) ==
    \A b \in B :
        /\ \A a \in A : f[<<a, b>>] \in Int /\ column[b][a] = f[<<a, b>>]
        /\ total[b] = SumFunctionOnSet(column[b], A)

LEMMA SumPairs ==
    ASSUME NEW A, IsFiniteSet(A), NEW B, IsFiniteSet(B), NEW f, NEW column, NEW total,
           Columns(f, A, B, column, total)
    PROVE  SumFunctionOnSet(f, A \X B) = SumFunctionOnSet(total, B)
<1>0. \A b \in B : /\ \A a \in A : f[<<a, b>>] \in Int /\ column[b][a] = f[<<a, b>>]
                  /\ total[b] = SumFunctionOnSet(column[b], A)
    BY DEF Columns
<1> DEFINE X == {s \in SUBSET B : SumFunctionOnSet(f, A \X s) # SumFunctionOnSet(total, s)}
<1>1. \A b \in B : total[b] \in Int
    <2> SUFFICES ASSUME NEW b \in B PROVE SumFunctionOnSet(column[b], A) \in Int
        BY <1>0
    <2> QED BY <1>0, SumInt
<1>2. X = {}
    <2> SUFFICES ASSUME X # {} PROVE FALSE
        OBVIOUS
    <2>0. X \subseteq SUBSET B
        OBVIOUS
    <2>1. PICK m \in X : \A t \in X : t \subseteq m => t = m
        <3> HIDE DEF X
        <3> QED BY <2>0, MinimalSubset
    <2>2. m # {}
        <3>1. A \X {} = {}
            OBVIOUS
        <3>2. SumFunctionOnSet(f, A \X {}) = 0 /\ SumFunctionOnSet(total, {}) = 0
            BY <3>1, SumEmpty
        <3> QED BY <2>1, <3>2
    <2>3. PICK b \in m : TRUE
        BY <2>2
    <2> DEFINE r == m \ {b}
               e == [a \in A |-> <<a, b>>]
    <2>4. b \in B /\ r \in SUBSET B /\ m \in SUBSET B
        BY <2>1
    <2>5. IsFiniteSet(r) /\ IsFiniteSet(m)
        BY <2>4, FS_Subset
    <2>6. SumFunctionOnSet(f, A \X r) = SumFunctionOnSet(total, r)
        BY <2>1, <2>3, <2>4
    <2>7. IsFiniteSet(A \X r) /\ IsFiniteSet(A \X {b})
        BY <2>5, FS_Product, FS_Singleton
    <2>8. /\ A \X m = (A \X r) \cup (A \X {b})
          /\ (A \X r) \cap (A \X {b}) = {}
          /\ \A x \in (A \X r) \cup (A \X {b}) : f[x] \in Int
        BY <1>0, <2>4
    <2>9. SumFunctionOnSet(f, A \X m)
              = SumFunctionOnSet(f, A \X r) + SumFunctionOnSet(f, A \X {b})
        <3> HIDE DEF r
        <3> QED BY <2>7, <2>8, SumDisjoint
    <2>10. SumFunctionOnSet(f, A \X {b}) = total[b]
        <3>1. Renamed(e, A) = A \X {b}
            BY DEF Renamed
        <3>2. /\ \A x, y \in A : x # y => e[x] # e[y]
              /\ \A x \in A : column[b][x] \in Int /\ f[e[x]] = column[b][x]
            BY <1>0, <2>4
        <3> HIDE DEF e
        <3>3. SumFunctionOnSet(column[b], A) = SumFunctionOnSet(f, Renamed(e, A))
            BY <3>2, SumRenamed
        <3> QED BY <1>0, <2>4, <3>1, <3>3
    <2>11. SumFunctionOnSet(total, m) = total[b] + SumFunctionOnSet(total, r)
        <3>1. \A x \in m : total[x] \in Int
            BY <1>1, <2>4
        <3> QED BY <2>5, <3>1, SumRemove
    <2>12. SumFunctionOnSet(total, r) \in Int /\ total[b] \in Int
        <3>1. \A x \in r : total[x] \in Int
            BY <1>1, <2>4
        <3> HIDE DEF r
        <3> QED BY <1>1, <2>4, <2>5, <3>1, SumInt
    <2>13. SumFunctionOnSet(f, A \X m) = SumFunctionOnSet(total, m)
        <3> HIDE DEF r
        <3> QED BY <2>6, <2>9, <2>10, <2>11, <2>12
    <2> QED BY <2>1, <2>13
<1>3. B \in SUBSET B
    OBVIOUS
<1> QED BY <1>2, <1>3

(* A sum of ones counts. *)
LEMMA SumOnes ==
    ASSUME NEW f, NEW S, IsFiniteSet(S), \A x \in S : f[x] = 1
    PROVE  SumFunctionOnSet(f, S) = Cardinality(S)
<1> DEFINE X == {s \in SUBSET S : SumFunctionOnSet(f, s) # Cardinality(s)}
<1>1. X = {}
    <2> SUFFICES ASSUME X # {} PROVE FALSE
        OBVIOUS
    <2>0. X \subseteq SUBSET S
        OBVIOUS
    <2>1. PICK m \in X : \A t \in X : t \subseteq m => t = m
        <3> HIDE DEF X
        <3> QED BY <2>0, MinimalSubset
    <2>2. m # {}
        BY <2>1, SumEmpty, FS_EmptySet
    <2>3. PICK y \in m : TRUE
        BY <2>2
    <2> DEFINE r == m \ {y}
    <2>4. IsFiniteSet(m) /\ IsFiniteSet(r) /\ r \in SUBSET S
        BY <2>1, FS_Subset
    <2>5. SumFunctionOnSet(f, r) = Cardinality(r)
        BY <2>1, <2>3, <2>4
    <2>6. (\A x \in m : f[x] \in Int) /\ f[y] = 1
        BY <2>1, <2>3
    <2>7. SumFunctionOnSet(f, m) = f[y] + SumFunctionOnSet(f, r)
        BY <2>4, <2>6, SumRemove
    <2>8. Cardinality(r) = Cardinality(m) - 1 /\ Cardinality(m) \in Nat
        BY <2>3, <2>4, FS_RemoveElement, FS_CardinalityType
    <2> HIDE DEF r
    <2>9. SumFunctionOnSet(f, m) = Cardinality(m)
        BY <2>5, <2>6, <2>7, <2>8
    <2> QED BY <2>1, <2>9
<1>2. S \in SUBSET S
    OBVIOUS
<1> QED BY <1>1, <1>2


(* The sum of the sums over the classes of a set, a class for each value a   *)
(* key takes.                                                                *)
Class(S, key, k) == {x \in S : key[x] = k}

LEMMA SumClasses ==
    ASSUME NEW f, NEW key, NEW total, NEW S, IsFiniteSet(S), NEW K, IsFiniteSet(K),
           \A x \in S : f[x] \in Int /\ key[x] \in K,
           \A k \in K : total[k] = SumFunctionOnSet(f, Class(S, key, k))
    PROVE  SumFunctionOnSet(f, S) = SumFunctionOnSet(total, K)
<1> DEFINE Of(s) == {x \in S : key[x] \in s}
           X == {s \in SUBSET K : SumFunctionOnSet(f, Of(s)) # SumFunctionOnSet(total, s)}
<1>1. \A T \in SUBSET S : IsFiniteSet(T) /\ SumFunctionOnSet(f, T) \in Int
    <2> SUFFICES ASSUME NEW T \in SUBSET S
                 PROVE  IsFiniteSet(T) /\ SumFunctionOnSet(f, T) \in Int
        OBVIOUS
    <2>1. IsFiniteSet(T) /\ \A x \in T : f[x] \in Int
        BY FS_Subset
    <2> QED BY <2>1, SumInt
<1>2. \A k \in K : total[k] \in Int
    BY <1>1 DEF Class
<1>3. X = {}
    <2> SUFFICES ASSUME X # {} PROVE FALSE
        OBVIOUS
    <2>0. X \subseteq SUBSET K
        OBVIOUS
    <2>1. PICK m \in X : \A t \in X : t \subseteq m => t = m
        <3> HIDE DEF X
        <3> QED BY <2>0, MinimalSubset
    <2>2. m # {}
        <3>1. Of({}) = {}
            OBVIOUS
        <3>2. SumFunctionOnSet(f, Of({})) = 0 /\ SumFunctionOnSet(total, {}) = 0
            BY <3>1, SumEmpty
        <3> QED BY <2>1, <3>2
    <2>3. PICK k \in m : TRUE
        BY <2>2
    <2> DEFINE r == m \ {k}
    <2>4. k \in K /\ r \in SUBSET K /\ m \in SUBSET K /\ IsFiniteSet(r) /\ IsFiniteSet(m)
        BY <2>1, FS_Subset
    <2>5. SumFunctionOnSet(f, Of(r)) = SumFunctionOnSet(total, r)
        BY <2>1, <2>3, <2>4
    <2>6. /\ Of(m) = Of(r) \cup Class(S, key, k) /\ Of(r) \cap Class(S, key, k) = {}
          /\ Of(r) \in SUBSET S /\ Class(S, key, k) \in SUBSET S
        BY <2>3 DEF Class
    <2>7. \A x \in Of(r) \cup Class(S, key, k) : f[x] \in Int
        BY <2>6
    <2> HIDE DEF Of, r
    <2>8. SumFunctionOnSet(f, Of(m)) = SumFunctionOnSet(f, Of(r)) + total[k]
        <3>1. IsFiniteSet(Of(r)) /\ IsFiniteSet(Class(S, key, k))
            BY <1>1, <2>6
        <3>2. SumFunctionOnSet(f, Of(r) \cup Class(S, key, k))
                  = SumFunctionOnSet(f, Of(r)) + SumFunctionOnSet(f, Class(S, key, k))
            BY ONLY <2>6, <2>7, <3>1, SumDisjoint
        <3> QED BY <2>4, <2>6, <3>2
    <2>9. SumFunctionOnSet(total, m) = total[k] + SumFunctionOnSet(total, r)
        <3>1. \A x \in m : total[x] \in Int
            BY <1>2, <2>4
        <3> QED BY <2>3, <2>4, <3>1, SumRemove DEF r
    <2>10. SumFunctionOnSet(f, Of(r)) \in Int /\ total[k] \in Int
        BY <1>1, <1>2, <2>4, <2>6
    <2>11. SumFunctionOnSet(f, Of(m)) = SumFunctionOnSet(total, m)
        BY <2>5, <2>8, <2>9, <2>10
    <2> QED BY <2>1, <2>11
<1>4. K \in SUBSET K /\ Of(K) = S
    OBVIOUS
<1> QED BY <1>3, <1>4

LEMMA TimesNat == ASSUME NEW i \in Nat, NEW n \in Nat PROVE i * n \in Nat
OBVIOUS

(* A common factor. *)
LEMMA SumScale ==
    ASSUME NEW f, NEW g, NEW c \in Int, NEW S, IsFiniteSet(S),
           \A x \in S : f[x] \in Int /\ g[x] = f[x] * c
    PROVE  SumFunctionOnSet(g, S) = SumFunctionOnSet(f, S) * c
<1> DEFINE X == {s \in SUBSET S : SumFunctionOnSet(g, s) # SumFunctionOnSet(f, s) * c}
<1>1. X = {}
    <2> SUFFICES ASSUME X # {} PROVE FALSE
        OBVIOUS
    <2>0. X \subseteq SUBSET S
        OBVIOUS
    <2>1. PICK m \in X : \A t \in X : t \subseteq m => t = m
        <3> HIDE DEF X
        <3> QED BY <2>0, MinimalSubset
    <2>2. m # {}
        <3>1. 0 * c = 0
            OBVIOUS
        <3> QED BY <2>1, <3>1, SumEmpty
    <2>3. PICK y \in m : TRUE
        BY <2>2
    <2> DEFINE r == m \ {y}
    <2>4. IsFiniteSet(m) /\ IsFiniteSet(r) /\ r \in SUBSET S
        BY <2>1, FS_Subset
    <2>5. SumFunctionOnSet(g, r) = SumFunctionOnSet(f, r) * c
        BY <2>1, <2>3, <2>4
    <2>6. f[y] \in Int /\ g[y] = f[y] * c /\ y \in S
        BY <2>1, <2>3
    <2>7. \A x \in m : f[x] \in Int /\ g[x] \in Int
        <3> SUFFICES ASSUME NEW x \in m PROVE f[x] \in Int /\ g[x] \in Int
            OBVIOUS
        <3>1. f[x] \in Int /\ g[x] = f[x] * c
            BY <2>1
        <3> QED BY <3>1
    <2>8. SumFunctionOnSet(g, m) = g[y] + SumFunctionOnSet(g, r)
        BY <2>4, <2>7, SumRemove
    <2>9. SumFunctionOnSet(f, m) = f[y] + SumFunctionOnSet(f, r)
        BY <2>4, <2>7, SumRemove
    <2>10. SumFunctionOnSet(f, r) \in Int
        <3>1. \A x \in r : f[x] \in Int
            BY <2>7
        <3> QED BY <2>4, <3>1, SumInt
    <2>11. SumFunctionOnSet(g, m) = SumFunctionOnSet(f, m) * c
        <3>1. \A a, b \in Int : a * c + b * c = (a + b) * c
            OBVIOUS
        <3>2. (f[y] * c) + (SumFunctionOnSet(f, r) * c) = (f[y] + SumFunctionOnSet(f, r)) * c
            BY <2>6, <2>10, <3>1
        <3> HIDE DEF r
        <3> QED BY <2>5, <2>6, <2>8, <2>9, <3>2, Zenon
    <2> QED BY <2>1, <2>11
<1>2. S \in SUBSET S
    OBVIOUS
<1> QED BY <1>1, <1>2

(* What some of the values add up to is no more than all of them. *)
LEMMA SumSubset ==
    ASSUME NEW f, NEW S, IsFiniteSet(S), NEW T \in SUBSET S, \A x \in S : f[x] \in Nat
    PROVE  SumFunctionOnSet(f, T) <= SumFunctionOnSet(f, S)
<1> DEFINE U == S \ T
<1>1. /\ IsFiniteSet(T) /\ IsFiniteSet(U) /\ T \cup U = S /\ T \cap U = {}
      /\ \A x \in T \cup U : f[x] \in Int
      /\ (\A x \in T : f[x] \in Nat) /\ (\A x \in U : f[x] \in Nat)
    BY FS_Subset
<1> HIDE DEF U
<1>2. SumFunctionOnSet(f, T \cup U) = SumFunctionOnSet(f, T) + SumFunctionOnSet(f, U)
    BY ONLY <1>1, SumDisjoint
<1>3. SumFunctionOnSet(f, T) \in Nat /\ SumFunctionOnSet(f, U) \in Nat
    BY <1>1, SumNat
<1>4. SumFunctionOnSet(f, S) = SumFunctionOnSet(f, T) + SumFunctionOnSet(f, U)
    BY <1>1, <1>2, Zenon
<1> QED BY <1>3, <1>4
=============================================================================
