----------------------------- MODULE LedgerProofs -----------------------------
(***************************************************************************)
(* Proofs about Ledger for every finite set of payments, every family of   *)
(* periods, overlapping or not, every page size and number of sweeps.      *)
(*                                                                         *)
(* The amounts are sums over sets.  The facts about them come first, for   *)
(* any finite set: a sum is a recursive function, so that its existence    *)
(* and its laws rest on induction over the subsets of the set.             *)
(***************************************************************************)
EXTENDS Ledger, FiniteSetTheorems, TLAPS

-----------------------------------------------------------------------------
\* Sums are recursive functions: each chooses an element and adds the rest.
Pick(T) == CHOOSE x \in T : TRUE

Adds(g, S, f) ==
  g = [T \in SUBSET S |->
         IF T = {} THEN 0 ELSE f[Pick(T)] + g[T \ {Pick(T)}]]

LEMMA TotalIsSum ==
  ASSUME NEW S, NEW f
  PROVE  Total(S, f) = (CHOOSE g : Adds(g, S, f))[S]
BY DEF Total, MapThenSumSet, MapThenFoldSet, Adds, Pick

\* Among sets of subsets of a finite set there is a least one.
LEMMA MinimalSubset ==
  ASSUME NEW S, IsFiniteSet(S), NEW C, C \subseteq SUBSET S, C # {}
  PROVE \E T \in C : \A U \in C : U \subseteq T => U = T
<1>1. IsWellFoundedOn(StrictSubsetOrdering(S), SUBSET S)
  BY FS_FiniteSubsetsOfFinite, FS_StrictSubsetOrderingWellFounded
<1>2. PICK T \in C : \A U \in C : <<U, T>> \notin StrictSubsetOrdering(S)
  BY <1>1, WFMin
<1>3. ASSUME NEW U \in C, U \subseteq T PROVE U = T
  BY <1>2, <1>3 DEF StrictSubsetOrdering
<1> QED BY <1>3

LEMMA PickIn == \A T : T # {} => Pick(T) \in T
BY DEF Pick

LEMMA AddsAt ==
  ASSUME NEW S, NEW f, NEW g, Adds(g, S, f), NEW T \in SUBSET S
  PROVE  /\ T = {} => g[T] = 0
         /\ T # {} => g[T] = f[Pick(T)] + g[T \ {Pick(T)}]
BY DEF Adds

\* A sum over a part of a set agrees with the sum over the set.
LEMMA AddsAgree ==
  ASSUME NEW V, IsFiniteSet(V), NEW W \in SUBSET V, NEW f,
         NEW g, Adds(g, V, f), NEW h, Adds(h, W, f)
  PROVE  g[W] = h[W]
<1> DEFINE C == {T \in SUBSET W : g[T] # h[T]}
<1> SUFFICES ASSUME C # {} PROVE FALSE
  OBVIOUS
<1>1. PICK T \in C : \A U \in C : U \subseteq T => U = T
  <2>1. C \subseteq SUBSET V
    OBVIOUS
  <2> HIDE DEF C
  <2> QED BY <2>1, MinimalSubset
<1>2. T \in SUBSET V /\ T \in SUBSET W /\ g[T] # h[T]
  BY <1>1
<1>3. /\ T = {} => g[T] = 0 /\ h[T] = 0
      /\ T # {} => g[T] = f[Pick(T)] + g[T \ {Pick(T)}]
      /\ T # {} => h[T] = f[Pick(T)] + h[T \ {Pick(T)}]
  BY <1>2, AddsAt
<1>4. T # {} /\ Pick(T) \in T
  BY <1>2, <1>3, PickIn
<1>5. g[T \ {Pick(T)}] = h[T \ {Pick(T)}]
  BY <1>1, <1>4
<1> QED BY <1>2, <1>3, <1>4, <1>5

LEMMA AddsExists ==
  ASSUME NEW S, IsFiniteSet(S), NEW f
  PROVE  \E g : Adds(g, S, f)
<1> DEFINE C == {T \in SUBSET S : ~ \E g : Adds(g, T, f)}
<1> SUFFICES ASSUME C # {} PROVE FALSE
  OBVIOUS
<1>1. PICK T \in C : \A U \in C : U \subseteq T => U = T
  <2>1. C \subseteq SUBSET S
    OBVIOUS
  <2> HIDE DEF C
  <2> QED BY <2>1, MinimalSubset
<1> DEFINE sol(U) == CHOOSE g : Adds(g, U, f)
           R(U)   == U \ {Pick(U)}
           h == [U \in SUBSET T |->
                   IF U = {} THEN 0 ELSE f[Pick(U)] + sol(R(U))[R(U)]]
<1>2. ASSUME NEW U \in SUBSET T, U # T PROVE Adds(sol(U), U, f)
  BY <1>1, <1>2
<1>3. ASSUME NEW U \in SUBSET T, U # {}
      PROVE  R(U) \in SUBSET T /\ R(U) # T /\ R(U) \in SUBSET U
  BY <1>3, PickIn
<1>4. ASSUME NEW U \in SUBSET T, U # {} PROVE sol(R(U))[R(U)] = h[R(U)]
  <2> HIDE DEF sol, R, h
  <2>1. PICK V : V = R(U)
    OBVIOUS
  <2>2. V \in SUBSET T /\ V # T
    BY <1>3, <1>4, <2>1
  <2>3. Adds(sol(V), V, f) /\ V \in SUBSET V
    BY <1>2, <2>2
  <2>4. /\ V = {} => sol(V)[V] = 0
        /\ V # {} => sol(V)[V] = f[Pick(V)] + sol(V)[R(V)]
    BY <2>3, AddsAt DEF R
  <2>5. h[V] = IF V = {} THEN 0 ELSE f[Pick(V)] + sol(R(V))[R(V)]
    BY <2>2 DEF h
  <2>6. ASSUME V # {} PROVE sol(V)[R(V)] = sol(R(V))[R(V)]
    <3>1. R(V) \in SUBSET T /\ R(V) # T /\ R(V) \in SUBSET V
      BY <1>3, <2>2, <2>6
    <3>2. Adds(sol(R(V)), R(V), f)
      BY <1>2, <3>1
    <3>3. IsFiniteSet(V)
      BY <1>1, <2>2, FS_Subset
    <3> QED BY <3>1, <3>2, <3>3, <2>3, AddsAgree
  <2> QED BY <2>1, <2>4, <2>5, <2>6
<1>5. Adds(h, T, f)
  <2>1. ASSUME NEW U \in SUBSET T
        PROVE  h[U] = IF U = {} THEN 0 ELSE f[Pick(U)] + h[R(U)]
    <3>1. h[U] = IF U = {} THEN 0 ELSE f[Pick(U)] + sol(R(U))[R(U)]
      OBVIOUS
    <3> HIDE DEF sol, R, h
    <3> QED BY <1>4, <3>1
  <2>2. h = [U \in SUBSET T |-> h[U]]
    OBVIOUS
  <2> HIDE DEF h
  <2> QED BY <2>1, <2>2 DEF Adds
<1> QED
  <2> HIDE DEF h
  <2> QED BY <1>1, <1>5

\* The sum over a finite set, one chosen element apart.
LEMMA TotalStep ==
  ASSUME NEW S, IsFiniteSet(S), NEW f
  PROVE  /\ S = {} => Total(S, f) = 0
         /\ S # {} => Total(S, f) = f[Pick(S)] + Total(S \ {Pick(S)}, f)
<1>1. PICK g : Adds(g, S, f) /\ Total(S, f) = g[S]
  BY AddsExists, TotalIsSum
<1>2. /\ S = {} => g[S] = 0
      /\ S # {} => g[S] = f[Pick(S)] + g[S \ {Pick(S)}]
  BY <1>1, AddsAt
<1>3. PICK R : R = S \ {Pick(S)}
  OBVIOUS
<1>4. IsFiniteSet(R) /\ R \in SUBSET S
  BY <1>3, FS_Subset
<1>5. PICK h : Adds(h, R, f) /\ Total(R, f) = h[R]
  BY <1>4, AddsExists, TotalIsSum
<1>6. g[R] = h[R]
  BY <1>1, <1>4, <1>5, AddsAgree
<1> QED BY <1>1, <1>2, <1>3, <1>5, <1>6

LEMMA TotalType ==
  ASSUME NEW S, IsFiniteSet(S), NEW f, \A x \in S : f[x] \in Int
  PROVE  Total(S, f) \in Int
<1> DEFINE C == {T \in SUBSET S : Total(T, f) \notin Int}
<1> SUFFICES ASSUME C # {} PROVE FALSE
  OBVIOUS
<1>1. PICK T \in C : \A U \in C : U \subseteq T => U = T
  <2>1. C \subseteq SUBSET S
    OBVIOUS
  <2> HIDE DEF C
  <2> QED BY <2>1, MinimalSubset
<1>2. T \in SUBSET S /\ IsFiniteSet(T) /\ Total(T, f) \notin Int
  BY <1>1, FS_Subset
<1>3. T # {} /\ Pick(T) \in T
  BY <1>2, TotalStep, PickIn
<1>4. Total(T \ {Pick(T)}, f) \in Int
  BY <1>1, <1>3
<1>5. Total(T, f) = f[Pick(T)] + Total(T \ {Pick(T)}, f)
  BY <1>2, <1>3, TotalStep
<1> QED BY <1>2, <1>3, <1>4, <1>5

\* The sum over a finite set, any of its elements apart.
LEMMA TotalApart ==
  ASSUME NEW S, IsFiniteSet(S), NEW f, \A x \in S : f[x] \in Int, NEW x \in S
  PROVE  Total(S, f) = f[x] + Total(S \ {x}, f)
<1> DEFINE C == {T \in SUBSET S :
                   \E y \in T : Total(T, f) # f[y] + Total(T \ {y}, f)}
<1> SUFFICES ASSUME C # {} PROVE FALSE
  OBVIOUS
<1>1. PICK T \in C : \A U \in C : U \subseteq T => U = T
  <2>1. C \subseteq SUBSET S
    OBVIOUS
  <2> HIDE DEF C
  <2> QED BY <2>1, MinimalSubset
<1>2. T \in SUBSET S /\ IsFiniteSet(T)
  BY <1>1, FS_Subset
<1>3. PICK y \in T : Total(T, f) # f[y] + Total(T \ {y}, f)
  BY <1>1
<1>4. PICK z : z = Pick(T) /\ z \in T
  BY <1>3, PickIn
<1>5. Total(T, f) = f[z] + Total(T \ {z}, f)
  BY <1>2, <1>3, <1>4, TotalStep
<1>6. y # z
  BY <1>3, <1>5
<1>7. /\ Total(T \ {z}, f) = f[y] + Total((T \ {z}) \ {y}, f)
      /\ Total(T \ {y}, f) = f[z] + Total((T \ {y}) \ {z}, f)
  <2>1. T \ {z} \in SUBSET S /\ T \ {z} # T /\ T \ {z} \subseteq T /\ y \in T \ {z}
    BY <1>2, <1>3, <1>4, <1>6
  <2>2. \A w \in T \ {z} : Total(T \ {z}, f) = f[w] + Total((T \ {z}) \ {w}, f)
    BY <2>1, <1>1
  <2>3. T \ {y} \in SUBSET S /\ T \ {y} # T /\ T \ {y} \subseteq T /\ z \in T \ {y}
    BY <1>2, <1>3, <1>4, <1>6
  <2>4. \A w \in T \ {y} : Total(T \ {y}, f) = f[w] + Total((T \ {y}) \ {w}, f)
    BY <2>3, <1>1
  <2> QED BY <2>1, <2>2, <2>3, <2>4
<1>8. (T \ {z}) \ {y} = (T \ {y}) \ {z}
  OBVIOUS
<1>9. f[y] \in Int /\ f[z] \in Int /\ Total((T \ {y}) \ {z}, f) \in Int
  <2>1. (T \ {y}) \ {z} \in SUBSET S
    BY <1>2
  <2>2. IsFiniteSet((T \ {y}) \ {z})
    BY <2>1, FS_Subset
  <2> QED BY <1>2, <1>3, <1>4, <2>1, <2>2, TotalType
<1>10. PICK r : r = Total((T \ {y}) \ {z}, f)
  OBVIOUS
<1>11. Total(T, f) = f[z] + (f[y] + r) /\ Total(T \ {y}, f) = f[z] + r
  BY <1>5, <1>7, <1>8, <1>10
<1>12. f[z] + (f[y] + r) = f[y] + (f[z] + r)
  BY <1>9, <1>10
<1> QED BY <1>3, <1>11, <1>12

LEMMA TotalPart ==
  ASSUME NEW S, IsFiniteSet(S), NEW f, \A y \in S : f[y] \in Int,
         NEW T \in SUBSET S
  PROVE  /\ IsFiniteSet(T)
         /\ Total(T, f) \in Int
         /\ \A x \in T : Total(T, f) = f[x] + Total(T \ {x}, f)
<1>1. IsFiniteSet(T) /\ \A y \in T : f[y] \in Int
  BY FS_Subset
<1> QED BY <1>1, TotalType, TotalApart

\* Induction over a finite set, for a property given as the set C of the subsets
\* that have it.
LEMMA SetInduction ==
  ASSUME NEW S, IsFiniteSet(S), NEW C, {} \in C,
         \A T \in SUBSET S : \A x \in T : T \ {x} \in C => T \in C
  PROVE  S \in C
<1> DEFINE D == {T \in SUBSET S : T \notin C}
<1> SUFFICES ASSUME D # {} PROVE FALSE
  OBVIOUS
<1>1. PICK T \in D : \A U \in D : U \subseteq T => U = T
  <2>1. D \subseteq SUBSET S
    OBVIOUS
  <2> HIDE DEF D
  <2> QED BY <2>1, MinimalSubset
<1>2. T \in SUBSET S /\ T \notin C
  BY <1>1
<1>3. PICK x \in T : TRUE
  BY <1>2
<1>4. T \ {x} \in C
  BY <1>1, <1>2
<1> QED BY <1>2, <1>3, <1>4

LEMMA TotalEmpty == \A f : Total({}, f) = 0
BY TotalStep, FS_EmptySet

LEMMA TotalNat ==
  ASSUME NEW S, IsFiniteSet(S), NEW f, \A x \in S : f[x] \in Nat
  PROVE  Total(S, f) \in Nat
<1> DEFINE C == {T \in SUBSET S : Total(T, f) \in Nat}
<1>1. {} \in C
  BY TotalEmpty
<1>2. ASSUME NEW T \in SUBSET S, NEW x \in T, T \ {x} \in C
      PROVE  T \in C
  <2>1. \A y \in S : f[y] \in Int
    OBVIOUS
  <2>2. Total(T, f) = f[x] + Total(T \ {x}, f)
    BY <2>1, TotalPart
  <2> QED BY <1>2, <2>2
<1> HIDE DEF C
<1>3. S \in C
  BY <1>1, <1>2, SetInduction
<1> QED BY <1>3 DEF C

\* A sum of two terms is the sum of their sums.
LEMMA TotalPlus ==
  ASSUME NEW S, IsFiniteSet(S), NEW f, NEW g, NEW h,
         \A x \in S : f[x] \in Int /\ g[x] \in Int /\ h[x] = f[x] + g[x]
  PROVE  Total(S, h) = Total(S, f) + Total(S, g)
<1> DEFINE C == {T \in SUBSET S : Total(T, h) = Total(T, f) + Total(T, g)}
<1>1. {} \in C
  BY TotalEmpty
<1>2. ASSUME NEW T \in SUBSET S, NEW x \in T, T \ {x} \in C
      PROVE  T \in C
  <2>0. /\ \A y \in S : f[y] \in Int
        /\ \A y \in S : g[y] \in Int
        /\ \A y \in S : h[y] \in Int
    OBVIOUS
  <2>1. PICK R : R = T \ {x}
    OBVIOUS
  <2>2. R \in SUBSET S
    BY <2>1
  <2>3. /\ Total(T, f) = f[x] + Total(R, f)
        /\ Total(T, g) = g[x] + Total(R, g)
        /\ Total(T, h) = h[x] + Total(R, h)
    BY <2>0, <2>1, TotalPart
  <2>4. Total(R, f) \in Int /\ Total(R, g) \in Int
    BY <2>0, <2>2, TotalPart
  <2>5. Total(R, h) = Total(R, f) + Total(R, g)
    BY <1>2, <2>1
  <2>6. Total(T, h) = Total(T, f) + Total(T, g)
    BY <2>3, <2>4, <2>5
  <2> QED BY <2>6
<1> HIDE DEF C
<1>3. S \in C
  BY <1>1, <1>2, SetInduction
<1> QED BY <1>3 DEF C

LEMMA TotalZero ==
  ASSUME NEW S, IsFiniteSet(S), NEW z, \A x \in S : z[x] = 0
  PROVE  Total(S, z) = 0
<1>1. PICK a : a = Total(S, z) /\ a \in Int
  BY TotalType
<1>2. a = a + a
  BY <1>1, TotalPlus
<1>3. \A i \in Int : i = i + i => i = 0
  OBVIOUS
<1> QED BY <1>1, <1>2, <1>3

\* Where the terms are equal, the sums are.
LEMMA TotalSame ==
  ASSUME NEW S, IsFiniteSet(S), NEW f, NEW g,
         \A x \in S : f[x] \in Int /\ g[x] = f[x]
  PROVE  Total(S, g) = Total(S, f)
<1> DEFINE z == [x \in S |-> 0]
<1>0. \A x \in S : z[x] = 0
  OBVIOUS
<1> HIDE DEF z
<1>1. Total(S, z) = 0
  BY <1>0, TotalZero
<1>2. Total(S, g) = Total(S, f) + Total(S, z)
  <2>1. \A x \in S : f[x] \in Int /\ z[x] \in Int /\ g[x] = f[x] + z[x]
    BY <1>0
  <2> QED BY <2>1, TotalPlus
<1>3. PICK b : b = Total(S, f) /\ b \in Int
  BY TotalType
<1>4. b + 0 = b
  BY <1>3
<1> QED BY <1>1, <1>2, <1>3, <1>4

\* The sum over two parts of a set without a common element.
LEMMA TotalUnion ==
  ASSUME NEW S, IsFiniteSet(S), NEW f, \A x \in S : f[x] \in Int,
         NEW A \in SUBSET S, NEW B \in SUBSET S, A \cap B = {}
  PROVE  Total(A \cup B, f) = Total(A, f) + Total(B, f)
<1> DEFINE C == {T \in SUBSET B : Total(A \cup T, f) = Total(A, f) + Total(T, f)}
<1>0. IsFiniteSet(A) /\ IsFiniteSet(B) /\ Total(A, f) \in Int
  BY TotalPart
<1>1. {} \in C
  <2>1. A \cup {} = A
    OBVIOUS
  <2> QED BY <1>0, <2>1, TotalEmpty
<1>2. ASSUME NEW T \in SUBSET B, NEW x \in T, T \ {x} \in C
      PROVE  T \in C
  <2>1. PICK R, Q, V : R = T \ {x} /\ Q = A \cup R /\ V = A \cup T
    OBVIOUS
  <2>2. T \in SUBSET S /\ R \in SUBSET S /\ V \in SUBSET S /\ x \in V /\ V \ {x} = Q
    BY <2>1
  <2>3. /\ Total(T, f) = f[x] + Total(R, f)
        /\ Total(V, f) = f[x] + Total(Q, f)
        /\ Total(R, f) \in Int
    BY <2>1, <2>2, TotalPart
  <2>4. Total(Q, f) = Total(A, f) + Total(R, f)
    BY <1>2, <2>1
  <2>5. f[x] \in Int
    BY <2>2
  <2>6. Total(V, f) = Total(A, f) + Total(T, f)
    BY <1>0, <2>3, <2>4, <2>5
  <2> QED BY <2>1, <2>6
<1> HIDE DEF C
<1>3. B \in C
  BY <1>0, <1>1, <1>2, SetInduction
<1> QED BY <1>3 DEF C

\* A sum does not shrink when its terms do not and it gets terms that are not
\* negative.
LEMMA TotalMonotone ==
  ASSUME NEW S, IsFiniteSet(S), NEW A \in SUBSET S, NEW f, NEW g,
         \A x \in S : f[x] \in Int /\ g[x] \in Int,
         \A x \in A : f[x] <= g[x], \A x \in S \ A : g[x] >= 0
  PROVE  Total(A, f) <= Total(S, g)
<1> DEFINE h == [x \in S |-> IF x \in A THEN g[x] - f[x] ELSE g[x]]
           k == [x \in S |-> IF x \in A THEN f[x] ELSE 0]
<1>1. \A x \in S : k[x] \in Int /\ h[x] \in Nat /\ g[x] = k[x] + h[x]
  OBVIOUS
<1>2. Total(S, g) = Total(S, k) + Total(S, h) /\ Total(S, h) \in Nat
  <2> HIDE DEF h, k
  <2> QED BY <1>1, TotalPlus, TotalNat
<1>3. Total(S, k) = Total(A, k) + Total(S \ A, k)
  <2>1. PICK B : B = S \ A
    OBVIOUS
  <2>2. A \cup B = S /\ A \cap B = {} /\ B \in SUBSET S
    BY <2>1
  <2> HIDE DEF h, k
  <2> QED BY <1>1, <2>1, <2>2, TotalUnion
<1>4. IsFiniteSet(A) /\ IsFiniteSet(S \ A)
  BY TotalPart, FS_Difference
<1>5. Total(S \ A, k) \in Nat
  <2>1. \A x \in S \ A : k[x] \in Nat
    OBVIOUS
  <2> HIDE DEF h, k
  <2> QED BY <1>4, <2>1, TotalNat
<1>6. Total(A, k) = Total(A, f) /\ Total(A, f) \in Int
  <2>1. \A x \in A : f[x] \in Int /\ k[x] = f[x]
    OBVIOUS
  <2> HIDE DEF h, k
  <2> QED BY <1>4, <2>1, TotalSame, TotalType
<1> HIDE DEF h, k
<1> QED BY <1>2, <1>3, <1>5, <1>6

LEMMA TotalNonPositive ==
  ASSUME NEW S, IsFiniteSet(S), NEW f, \A x \in S : f[x] \in Int /\ f[x] <= 0
  PROVE  Total(S, f) <= 0
<1> DEFINE z == [x \in S |-> 0]
<1>1. \A x \in S : z[x] = 0
  OBVIOUS
<1> HIDE DEF z
<1>2. Total(S, z) = 0
  BY <1>1, TotalZero
<1>3. Total(S, f) <= Total(S, z)
  <2>1. \A x \in S : f[x] \in Int /\ z[x] \in Int /\ f[x] <= z[x] /\ z[x] >= 0
    BY <1>1
  <2> QED BY <2>1, TotalMonotone
<1> QED BY <1>2, <1>3

Rows(S, k) == S \X {k}

\* The sum over the rows of one kind is a sum over what the rows are of.
LEMMA TotalRows ==
  ASSUME NEW S, IsFiniteSet(S), NEW k, NEW f, NEW g,
         \A x \in S : g[x] \in Int /\ f[<<x, k>>] = g[x]
  PROVE  Total(Rows(S, k), f) = Total(S, g)
<1> DEFINE C == {T \in SUBSET S : Total(T \X {k}, f) = Total(T, g)}
<1>1. {} \in C
  <2>1. {} \X {k} = {}
    OBVIOUS
  <2> QED BY <2>1, TotalEmpty
<1>2. ASSUME NEW T \in SUBSET S, NEW x \in T, T \ {x} \in C
      PROVE  T \in C
  <2>1. PICK U, P, Q, e : /\ U = S \X {k} /\ P = T \X {k} /\ Q = (T \ {x}) \X {k}
                          /\ e = <<x, k>>
    OBVIOUS
  <2>2. /\ P \in SUBSET U /\ e \in P /\ P \ {e} = Q
        /\ f[e] = g[x]
    BY <2>1
  <2>3. \A y \in U : f[y] \in Int
    BY <2>1
  <2>4. IsFiniteSet(U)
    BY <2>1, FS_Product, FS_Singleton
  <2>5. Total(P, f) = f[e] + Total(Q, f)
    BY <2>2, <2>3, <2>4, TotalPart
  <2>6. Total(T, g) = g[x] + Total(T \ {x}, g)
    BY TotalPart
  <2>7. Total(Q, f) = Total(T \ {x}, g)
    BY <1>2, <2>1
  <2>8. Total(P, f) = Total(T, g)
    BY <2>2, <2>5, <2>6, <2>7
  <2> QED BY <2>1, <2>8
<1> HIDE DEF C
<1>3. S \in C
  BY <1>1, <1>2, SetInduction
<1> QED BY <1>3 DEF C, Rows

-----------------------------------------------------------------------------
(***************************************************************************)
(* The inductive invariant.                                                *)
(***************************************************************************)
\* What a payout has not taken is not paid out: with it, whether an entry is
\* untaken depends on payoutId alone, so a payment and its fee go together.
UntakenIsUnpaid ==
  \A e \in Entries : payoutId[e] = NoPayout => entry[e] # "paid_out"

\* A credit has its rows from when its payment succeeded that often, and no
\* payout takes a row before it is there.
RowsAreCredits ==
  \A c \in Credits, k \in Kinds :
    /\ entry[<<c, k>>] = "none" <=> c[2] > completed[c[1]]
    /\ entry[<<c, k>>] = "none" => payoutId[<<c, k>>] = NoPayout

PagesAreRows == \A s \in Sweepers : \A e \in sweep[s] : entry[e] # "none"

\* A payment has succeeded once, and once more for each success of it that was
\* overwritten, if it is not open again.
SucceededOnce ==
  \A p \in Payments :
    completed[p] = forgotten[p] + (IF status[p] = "open" THEN 0 ELSE 1)

IInv ==
  /\ TypeOK
  /\ UntakenIsUnpaid
  /\ FeeFollowsPayment
  /\ RowsAreCredits
  /\ PagesAreRows
  /\ SucceededOnce

\* The fee is the nearest whole unit to five per cent, never more than the
\* price: rounding costs the organization at most half a unit, and the platform
\* as much where the comment above computePlatformFee says it loses nothing
\* (finance.ts:28-36).
THEOREM FeeIsNearest ==
  \A a \in Nat : LET fee == computePlatformFee(a)
                 IN  /\ fee \in 0..a
                     /\ 100 * fee <= 5 * a + 50
                     /\ 100 * fee > 5 * a - 50
<1> SUFFICES ASSUME NEW a \in Nat
             PROVE  LET fee == computePlatformFee(a)
                    IN  /\ fee \in 0..a
                        /\ 100 * fee <= 5 * a + 50
                        /\ 100 * fee > 5 * a - 50
  OBVIOUS
<1> DEFINE fee == computePlatformFee(a)
<1>1. fee \in Int /\ 100 * fee <= 5 * a + 50 /\ 5 * a + 50 < 100 * fee + 100
  BY DEF computePlatformFee
<1>2. fee >= 0 /\ fee <= a
  <2>1. CASE a = 0
    BY <1>1, <2>1
  <2>2. CASE a > 0
    BY <1>1, <2>2
  <2> QED BY <2>1, <2>2
<1> HIDE DEF fee
<1> QED BY <1>1, <1>2 DEF fee

LEMMA EntryForms ==
  /\ "payment" \in Kinds
  /\ \A c \in Credits, k \in Kinds : <<c, k>> \in Entries
  /\ \A e \in Entries : e[1] \in Credits /\ e[2] \in Kinds /\ e = <<e[1], e[2]>>
BY DEF Kinds, Entries

LEMMA CreditForms ==
  /\ \A c \in Credits : /\ c[1] \in Payments /\ c[2] \in 1..(MaxOverwrites + 1)
                        /\ c = <<c[1], c[2]>>
  /\ \A p \in Payments, n \in 1..(MaxOverwrites + 1) : <<p, n>> \in Credits
  /\ IsFiniteSet(Credits)
<1>1. MaxOverwrites + 1 \in Int
  BY OverwriteAssumption
<1>2. PICK C : C = 1..(MaxOverwrites + 1) /\ IsFiniteSet(C)
  BY <1>1, FS_Interval
<1>3. Credits = Payments \X C
  BY <1>2 DEF Credits
<1>4. IsFiniteSet(Credits)
  BY <1>2, <1>3, FiniteAssumption, FS_Product
<1> QED BY <1>4 DEF Credits

LEMMA FeeType == Fee \in Nat
BY AmountAssumption DEF Fee, computePlatformFee

LEMMA Amounts ==
  /\ \A e \in Entries : EntryAmount[e] \in Int
  /\ IsFiniteSet(Entries)
<1>1. \A e \in Entries : EntryAmount[e] \in Int
  BY FeeType, AmountAssumption DEF EntryAmount
<1>2. IsFiniteSet({"payment", "platform_fee"})
  <2>1. IsFiniteSet({"payment"}) /\ IsFiniteSet({"platform_fee"})
    BY FS_Singleton
  <2>2. IsFiniteSet({"payment"} \cup {"platform_fee"})
    BY <2>1, FS_Union
  <2>3. {"payment"} \cup {"platform_fee"} = {"payment", "platform_fee"}
    OBVIOUS
  <2> QED BY <2>2, <2>3
<1>3. IsFiniteSet(Kinds)
  <2>1. Kinds \in SUBSET {"payment", "platform_fee"}
    BY DEF Kinds
  <2> QED BY <1>2, <2>1, FS_Subset
<1> QED BY <1>1, <1>3, CreditForms, FS_Product DEF Entries

LEMMA TakenAmounts ==
  ASSUME TypeOK, NEW d \in Periods
  PROVE  /\ IsFiniteSet(Selected(d)) /\ Selected(d) \in SUBSET Payments
         /\ RefundsOf(d) \in Int
         /\ NetAmount(d) \in Nat
<1>1. Selected(d) \in SUBSET Payments
  BY DEF Selected
<1>2. \A p \in Payments : refunded[p] \in Int
  BY AmountAssumption DEF TypeOK
<1>3. IsFiniteSet(Selected(d)) /\ RefundsOf(d) \in Int
  BY <1>1, <1>2, FiniteAssumption, TotalPart DEF RefundsOf
<1> DEFINE rows(k) == {e \in Taken(d) : e[2] = k}
<1>4. \A k : rows(k) \in SUBSET Entries
  BY DEF Taken
<1>5. \A k : Total(rows(k), EntryAmount) \in Int
  <2> HIDE DEF rows
  <2> QED BY <1>4, Amounts, TotalPart
<1>6. PICK gross \in Int, fees \in Int :
        NetAmount(d) = NonNegative(NonNegative(gross - RefundsOf(d)) + fees)
  BY <1>5 DEF NetAmount
<1>7. \A a \in Int : NonNegative(a) \in Nat
  BY DEF NonNegative
<1> QED BY <1>1, <1>3, <1>6, <1>7

-----------------------------------------------------------------------------
LEMMA InitIInv == Init => IInv
<1> SUFFICES ASSUME Init PROVE IInv
  OBVIOUS
<1> USE DEF Init
<1>1. TypeOK
  BY AmountAssumption, OverwriteAssumption DEF TypeOK
<1>2. UntakenIsUnpaid /\ FeeFollowsPayment /\ PagesAreRows
  BY EntryForms DEF UntakenIsUnpaid, FeeFollowsPayment, PagesAreRows
<1>3. RowsAreCredits
  <2>1. \A c \in Credits : c[1] \in Payments /\ c[2] > 0
    BY CreditForms, OverwriteAssumption
  <2> QED BY <2>1, EntryForms DEF RowsAreCredits
<1>4. SucceededOnce
  BY DEF SucceededOnce
<1> QED BY <1>1, <1>2, <1>3, <1>4 DEF IInv

LEMMA PayoutIInv ==
  ASSUME IInv, NEW d \in Periods, CreatePayout(d)
  PROVE  IInv'
<1> USE DEF IInv, CreatePayout
<1>1. TypeOK'
  <2>1. NetAmount(d) \in Nat
    BY TakenAmounts
  <2> QED BY <2>1 DEF TypeOK
<1>2. UntakenIsUnpaid'
  BY PeriodAssumption DEF UntakenIsUnpaid, TypeOK
<1>3. FeeFollowsPayment'
  <2> SUFFICES ASSUME NEW c \in Credits, NEW k \in Kinds
               PROVE  payoutId'[<<c, k>>] = payoutId'[<<c, "payment">>]
    BY DEF FeeFollowsPayment
  <2>1. <<c, k>> \in Entries /\ <<c, "payment">> \in Entries
    BY EntryForms
  <2>2. payoutId[<<c, k>>] = payoutId[<<c, "payment">>]
    BY DEF FeeFollowsPayment
  <2>3. entry[<<c, k>>] = "none" <=> entry[<<c, "payment">>] = "none"
    BY EntryForms DEF RowsAreCredits
  <2>4. <<c, k>> \in Taken(d) <=> <<c, "payment">> \in Taken(d)
    BY <2>1, <2>2, <2>3 DEF Taken, IsUntaken, UntakenIsUnpaid
  <2> QED BY <2>1, <2>2, <2>4
<1>4. RowsAreCredits'
  <2>1. \A e \in Entries : entry'[e] = "none" <=> entry[e] = "none"
    BY DEF Taken, TypeOK
  <2>2. \A e \in Entries : entry[e] = "none" => payoutId'[e] = payoutId[e]
    BY DEF Taken, TypeOK
  <2> QED BY <2>1, <2>2, EntryForms DEF RowsAreCredits
<1>5. PagesAreRows'
  BY DEF PagesAreRows, TypeOK
<1>6. SucceededOnce'
  BY DEF SucceededOnce
<1> QED BY <1>1, <1>2, <1>3, <1>4, <1>5, <1>6

LEMMA RefundIInv ==
  ASSUME IInv, NEW p \in Payments, NEW a \in Parts, Refund(p, a)
  PROVE  /\ IInv'
         /\ refunded' = [refunded EXCEPT ![p] = @ + a]
         /\ a \in 1..Gross /\ refunded[p] + a <= Gross
         /\ UNCHANGED <<completed, entry, payoutId, net, forgotten>>
<1> USE DEF Refund
<1>1. /\ a \in 1..Gross /\ refunded[p] + a \in 0..Gross
      /\ refunded'[p] = refunded[p] + a
  BY AmountAssumption DEF FitsRemaining, TypeOK, IInv
<1>2. TypeOK'
  BY <1>1 DEF TypeOK, IInv
<1>3. UntakenIsUnpaid' /\ FeeFollowsPayment' /\ RowsAreCredits' /\ PagesAreRows'
  BY DEF UntakenIsUnpaid, FeeFollowsPayment, RowsAreCredits, PagesAreRows, IInv
<1>4. SucceededOnce'
  BY DEF SucceededOnce, TypeOK, IInv
<1>5. refunded[p] + a <= Gross
  BY <1>1, AmountAssumption
<1> QED BY <1>1, <1>2, <1>3, <1>4, <1>5 DEF IInv

LEMMA SweepIInv ==
  ASSUME IInv, NEW s \in Sweepers,
         SweepQuery(s) \/ SweepCommit(s) \/ SweepDies(s)
  PROVE  /\ IInv' /\ UNCHANGED <<status, completed, refunded, payoutId, net,
                                 forgotten>>
         /\ \A e \in Entries : entry'[e] = "none" <=> entry[e] = "none"
<1> USE DEF IInv, TypeOK, UntakenIsUnpaid, FeeFollowsPayment, RowsAreCredits,
            PagesAreRows, SucceededOnce
<1>1. CASE SweepQuery(s)
  <2>1. \A page \in Pages :
          page \in SUBSET Entries /\ \A e \in page : entry[e] # "none"
    BY DEF Pages, Due
  <2> QED BY <1>1, <2>1 DEF SweepQuery
<1>2. CASE SweepCommit(s)
  <2>1. \A e \in Entries : entry'[e] = "none" <=> entry[e] = "none"
    BY <1>2 DEF SweepCommit
  <2>2. TypeOK' /\ UntakenIsUnpaid' /\ FeeFollowsPayment'
    BY <1>2 DEF SweepCommit
  <2>3. RowsAreCredits' /\ SucceededOnce'
    BY <1>2, <2>1, EntryForms DEF SweepCommit
  <2>4. PagesAreRows'
    BY <1>2, <2>1 DEF SweepCommit
  <2> QED BY <1>2, <2>1, <2>2, <2>3, <2>4 DEF SweepCommit
<1>3. CASE SweepDies(s)
  BY <1>3 DEF SweepDies
<1> QED BY <1>1, <1>2, <1>3

\* A credit is a new one: it is the credit of the success the payment has now.
LEMMA CreditIsNew ==
  ASSUME IInv, NEW p \in Payments, Credit(p),
         NEW new, new = <<p, completed[p] + 1>>
  PROVE  /\ new \in Credits /\ new = <<p, forgotten[p] + 1>>
         /\ \A k \in Kinds : /\ entry[<<new, k>>] = "none"
                             /\ payoutId[<<new, k>>] = NoPayout
         /\ entry' = [e \in Entries |-> IF e[1] = new THEN "pending" ELSE entry[e]]
         /\ completed' = [completed EXCEPT ![p] = @ + 1]
<1>1. new \in Credits /\ completed[p] = forgotten[p] /\ completed[p] \in Nat
  BY DEF Credit, IsOpen, IInv, SucceededOnce, TypeOK
<1>2. new[1] = p /\ new[2] > completed[p]
  BY <1>1
<1> QED BY <1>1, <1>2 DEF Credit, IInv, RowsAreCredits

LEMMA CreditIInv ==
  ASSUME IInv, NEW p \in Payments, Credit(p)
  PROVE  IInv'
<1> USE DEF IInv
<1>1. PICK new : new = <<p, completed[p] + 1>>
  OBVIOUS
<1>2. /\ new \in Credits /\ new[1] = p /\ new[2] = completed[p] + 1
      /\ \A k \in Kinds : /\ entry[<<new, k>>] = "none"
                          /\ payoutId[<<new, k>>] = NoPayout
      /\ entry' = [e \in Entries |-> IF e[1] = new THEN "pending" ELSE entry[e]]
      /\ completed' = [completed EXCEPT ![p] = @ + 1]
  BY <1>1, CreditIsNew
<1>3. completed[p] + 1 \in 1..(MaxOverwrites + 1)
  BY <1>2, CreditForms
<1>4. TypeOK'
  BY <1>2, <1>3 DEF Credit, TypeOK
<1>5. UntakenIsUnpaid' /\ FeeFollowsPayment'
  BY <1>2 DEF Credit, UntakenIsUnpaid, FeeFollowsPayment
<1>6. RowsAreCredits'
  <2> SUFFICES ASSUME NEW c \in Credits, NEW k \in Kinds
               PROVE  /\ entry'[<<c, k>>] = "none" <=> c[2] > completed'[c[1]]
                      /\ entry'[<<c, k>>] = "none" => payoutId'[<<c, k>>] = NoPayout
    BY DEF RowsAreCredits
  <2>1. /\ c[1] \in Payments /\ c[2] \in Int /\ c = <<c[1], c[2]>>
        /\ completed[p] \in Int /\ completed[c[1]] \in Int
    BY CreditForms, OverwriteAssumption DEF TypeOK
  <2>2. entry'[<<c, k>>] = IF c = new THEN "pending" ELSE entry[<<c, k>>]
    BY <1>2, EntryForms
  <2>3. /\ entry[<<c, k>>] = "none" <=> c[2] > completed[c[1]]
        /\ entry[<<c, k>>] = "none" => payoutId[<<c, k>>] = NoPayout
    BY DEF RowsAreCredits
  <2>4. completed'[c[1]] = IF c[1] = p THEN completed[p] + 1 ELSE completed[c[1]]
    BY <1>2, <2>1 DEF TypeOK
  <2>5. CASE c = new
    BY <1>2, <2>1, <2>2, <2>4, <2>5
  <2>6. CASE c # new
    <3>1. c[1] = p => c[2] # completed[p] + 1
      BY <1>1, <2>1, <2>6
    <3>2. c[2] > completed'[c[1]] <=> c[2] > completed[c[1]]
      BY <2>1, <2>4, <3>1
    <3>3. UNCHANGED payoutId
      BY DEF Credit
    <3> QED BY <2>2, <2>3, <2>6, <3>2, <3>3
  <2> QED BY <2>5, <2>6
<1>7. PagesAreRows'
  BY <1>2 DEF Credit, PagesAreRows, TypeOK
<1>8. SucceededOnce'
  BY <1>2 DEF Credit, IsOpen, SucceededOnce, TypeOK
<1> QED BY <1>4, <1>5, <1>6, <1>7, <1>8

LEMMA ExpireIInv ==
  ASSUME IInv, NEW S \in SUBSET Payments, ExpireBatch(S)
  PROVE  IInv'
<1> USE DEF IInv, ExpireBatch
<1>1. TypeOK'
  BY OverwriteAssumption DEF TypeOK
<1>2. UntakenIsUnpaid' /\ FeeFollowsPayment' /\ RowsAreCredits' /\ PagesAreRows'
  BY DEF UntakenIsUnpaid, FeeFollowsPayment, RowsAreCredits, PagesAreRows
<1>3. SucceededOnce'
  BY OverwriteAssumption DEF SucceededOnce, TypeOK
<1> QED BY <1>1, <1>2, <1>3

LEMMA MatureIInv ==
  ASSUME IInv, NEW c \in Credits, Mature(c)
  PROVE  IInv'
BY DEF Mature, IInv, TypeOK, UntakenIsUnpaid, FeeFollowsPayment, RowsAreCredits,
       PagesAreRows, SucceededOnce

LEMMA NextIInv == IInv /\ [Next]_vars => IInv'
<1> SUFFICES ASSUME IInv, [Next]_vars PROVE IInv'
  OBVIOUS
<1>1. CASE UNCHANGED vars
  BY <1>1 DEF vars, IInv, TypeOK, UntakenIsUnpaid, FeeFollowsPayment,
              RowsAreCredits, PagesAreRows, SucceededOnce
<1>2. ASSUME NEW S \in (SUBSET Late) \ {{}}, ExpireBatch(S) PROVE IInv'
  <2>1. S \in SUBSET Payments
    BY OverwriteAssumption
  <2> QED BY <1>2, <2>1, ExpireIInv
<1> QED
  BY <1>1, <1>2, CreditIInv, MatureIInv, RefundIInv, PayoutIInv, SweepIInv DEF Next

LEMMA InvIInv == Spec => []IInv
BY InitIInv, NextIInv, PTL DEF Spec

\* The types of the ledger's state: a payment is never refunded beyond its
\* price, and a payout is a sum of its rows that is never negative.
THEOREM TypeCorrect == Spec => []TypeOK
BY InvIInv, PTL DEF IInv

\* The platform keeps its fee from the payout that transfers the payment, even
\* if the sweep released the two in different pages, or one of them too late.
THEOREM FeeCorrect == Spec => []FeeFollowsPayment
BY InvIInv, PTL DEF IInv

\* No ledger entry is transferred by two payouts and no payout is replaced, for
\* any payments, periods and sweeps.
THEOREM PaidOnceCorrect == Spec => PaidOnce
<1> DEFINE Once ==
      \A e \in Entries : payoutId[e] # NoPayout => payoutId'[e] = payoutId[e]
<1> DEFINE Final == \A d \in Periods : net[d] # 0 => net'[d] = net[d]
<1>1. [Next]_vars => Once
  <2> SUFFICES ASSUME [Next]_vars PROVE Once
    OBVIOUS
  <2>1. ASSUME NEW d \in Periods, CreatePayout(d) PROVE Once
    BY <2>1 DEF CreatePayout, Taken, IsUntaken
  <2>2. ASSUME UNCHANGED payoutId PROVE Once
    BY <2>2
  <2> QED
    BY <2>1, <2>2
       DEF Next, vars, Credit, ExpireBatch, Mature, Refund, SweepQuery, SweepCommit,
           SweepDies
<1>2. IInv /\ [Next]_vars => Final
  <2> SUFFICES ASSUME IInv, [Next]_vars PROVE Final
    OBVIOUS
  <2>1. ASSUME NEW d \in Periods, CreatePayout(d) PROVE Final
    BY <2>1 DEF CreatePayout, PeriodIsFree, IInv, TypeOK
  <2>2. ASSUME UNCHANGED net PROVE Final
    BY <2>2
  <2> QED
    BY <2>1, <2>2
       DEF Next, vars, Credit, ExpireBatch, Mature, Refund, SweepQuery, SweepCommit,
           SweepDies
<1> QED BY <1>1, <1>2, InvIInv, PTL DEF Spec, PaidOnce

\* A page in hand of a sweep holds no entry that a payout has taken.
PagesAreFree ==
  \A s \in Sweepers : \A e \in sweep[s] : payoutId[e] = NoPayout

FreeInv == SweptStaysPaid /\ PagesAreFree

\* A payout made over the head of a sweep is all that can put a transferred
\* entry back to available: in a behaviour where no payout takes an entry of a
\* page some sweep has queried and not written, what a payout took stays paid
\* out (balance.service.ts:239-270).
THEOREM SweptStaysPaidUnlessRaced ==
  Spec /\ [][\A d \in Periods, s \in Sweepers :
               CreatePayout(d) => sweep[s] \cap Taken(d) = {}]_vars
    => []SweptStaysPaid
<1> DEFINE Apart ==
      \A d \in Periods, s \in Sweepers :
        CreatePayout(d) => sweep[s] \cap Taken(d) = {}
<1>1. Init => FreeInv
  BY DEF Init, FreeInv, SweptStaysPaid, PagesAreFree
<1>2. IInv /\ FreeInv /\ [Next]_vars /\ [Apart]_vars => FreeInv'
  <2> SUFFICES ASSUME IInv, FreeInv, [Next]_vars, [Apart]_vars
               PROVE  FreeInv'
    OBVIOUS
  <2>0. TypeOK
    BY DEF IInv
  <2> USE <2>0 DEF TypeOK, FreeInv, SweptStaysPaid, PagesAreFree
  <2>1. ASSUME NEW p \in Payments, Credit(p) PROVE FreeInv'
    <3>1. PICK new : new = <<p, completed[p] + 1>>
      OBVIOUS
    <3>2. /\ \A k \in Kinds : payoutId[<<new, k>>] = NoPayout
          /\ entry' =
               [e \in Entries |-> IF e[1] = new THEN "pending" ELSE entry[e]]
      BY <2>1, <3>1, CreditIsNew
    <3>3. \A e \in Entries : payoutId[e] # NoPayout => entry'[e] = entry[e]
      BY <3>2, EntryForms
    <3> QED BY <2>1, <3>3 DEF Credit
  <2>2. ASSUME NEW c \in Credits, Mature(c) PROVE FreeInv'
    BY <2>2 DEF Mature
  <2>3. ASSUME NEW p \in Payments, NEW a \in Parts, Refund(p, a) PROVE FreeInv'
    BY <2>3 DEF Refund
  <2>4. ASSUME NEW d \in Periods, CreatePayout(d) PROVE FreeInv'
    <3>1. CASE UNCHANGED vars
      BY <3>1 DEF vars
    <3>2. CASE Apart
      <4>1. \A s \in Sweepers : sweep[s] \cap Taken(d) = {}
        BY <2>4, <3>2
      <4> QED BY <2>4, <4>1 DEF CreatePayout
    <3> QED BY <3>1, <3>2
  <2>5. ASSUME NEW s \in Sweepers, SweepQuery(s) PROVE FreeInv'
    <3>1. PICK page \in Pages : sweep' = [sweep EXCEPT ![s] = page]
      BY <2>5 DEF SweepQuery
    <3>2. page \subseteq Due
      BY DEF Pages
    <3>3. \A e \in Due : payoutId[e] = NoPayout
      BY DEF Due
    <3> QED BY <2>5, <3>1, <3>2, <3>3 DEF SweepQuery
  <2>6. ASSUME NEW s \in Sweepers, SweepCommit(s) PROVE FreeInv'
    BY <2>6 DEF SweepCommit
  <2>7. ASSUME NEW s \in Sweepers, SweepDies(s) PROVE FreeInv'
    BY <2>7 DEF SweepDies
  <2>8. ASSUME NEW S, ExpireBatch(S) PROVE FreeInv'
    BY <2>8 DEF ExpireBatch
  <2>9. ASSUME UNCHANGED vars PROVE FreeInv'
    BY <2>9 DEF vars
  <2> QED
    BY <2>1, <2>2, <2>3, <2>4, <2>5, <2>6, <2>7, <2>8, <2>9 DEF Next
<1>3. FreeInv => SweptStaysPaid
  BY DEF FreeInv
<1> QED BY <1>1, <1>2, <1>3, InvIInv, PTL DEF Spec

-----------------------------------------------------------------------------
(***************************************************************************)
(* The ledger implements Account.                                          *)
(***************************************************************************)
\* The credits whose entries a payout of the period takes.
Wanted(d) ==
  {c \in Credited : c[1] \in Selected(d) /\ payoutId[<<c, "payment">>] = NoPayout}

\* The payments they are of.
Wanting(d) == {c[1] : c \in Wanted(d)}

\* Where each credit went, as the account sees it.
Went == [c \in Credited |-> payoutId[<<c, "payment">>]]

LEMMA CreditedForm ==
  ASSUME IInv
  PROVE  /\ Credited \in SUBSET Credits /\ IsFiniteSet(Credited)
         /\ \A c \in Credits : c \in Credited <=> c[2] <= completed[c[1]]
         /\ \A p \in Payments :
              /\ status[p] # "open" <=> <<p, forgotten[p] + 1>> \in Credited
              /\ status[p] = "open" => <<p, forgotten[p] + 1>> \notin Credited
<1>1. Credited \in SUBSET Credits /\ IsFiniteSet(Credited)
  <2>1. Credited \in SUBSET Credits
    BY DEF Credited
  <2> QED BY <2>1, CreditForms, FS_Subset
<1>2. ASSUME NEW c \in Credits PROVE c \in Credited <=> c[2] <= completed[c[1]]
  <2>1. c[2] \in Int /\ completed[c[1]] \in Int
    BY CreditForms, OverwriteAssumption DEF IInv, TypeOK
  <2>2. entry[<<c, "payment">>] = "none" <=> c[2] > completed[c[1]]
    BY EntryForms DEF IInv, RowsAreCredits
  <2> QED BY <2>1, <2>2 DEF Credited
<1>3. ASSUME NEW p \in Payments
      PROVE  status[p] # "open" <=> <<p, forgotten[p] + 1>> \in Credited
  <2>1. PICK now : now = <<p, forgotten[p] + 1>>
    OBVIOUS
  <2>2. /\ forgotten[p] \in Nat /\ completed[p] \in 0..(MaxOverwrites + 1)
        /\ forgotten[p] <= MaxOverwrites
        /\ completed[p] = forgotten[p] + (IF status[p] = "open" THEN 0 ELSE 1)
    BY OverwriteAssumption DEF IInv, TypeOK, SucceededOnce
  <2>3. forgotten[p] + 1 \in 1..(MaxOverwrites + 1)
    BY <2>2, OverwriteAssumption
  <2>4. now \in Credits /\ now[1] = p /\ now[2] = forgotten[p] + 1
    BY <2>1, <2>3, CreditForms
  <2>5. now \in Credited <=> forgotten[p] + 1 <= completed[p]
    BY <1>2, <2>4
  <2>6. status[p] # "open" <=> forgotten[p] + 1 <= completed[p]
    BY <2>2
  <2> QED BY <2>1, <2>5, <2>6
<1> QED BY <1>1, <1>2, <1>3

\* A payout takes all entries of the credits it takes, and nothing else.
LEMMA TakenIsWanted ==
  ASSUME IInv, NEW d \in Periods
  PROVE  Taken(d) = Wanted(d) \X Kinds
<1>1. ASSUME NEW c \in Credits, NEW k \in Kinds
      PROVE  <<c, k>> \in Taken(d) <=> c \in Wanted(d)
  <2>1. <<c, k>> \in Entries /\ "payment" \in Kinds
    BY EntryForms
  <2>2. payoutId[<<c, k>>] = payoutId[<<c, "payment">>]
    BY DEF IInv, FeeFollowsPayment
  <2>3. entry[<<c, k>>] = "none" <=> entry[<<c, "payment">>] = "none"
    BY <2>1 DEF IInv, RowsAreCredits
  <2> QED
    BY <2>1, <2>2, <2>3
       DEF Taken, Wanted, Credited, IsUntaken, IInv, UntakenIsUnpaid
<1>2. \A e \in Taken(d) : e[1] \in Credits /\ e[2] \in Kinds /\ e = <<e[1], e[2]>>
  BY EntryForms DEF Taken
<1>3. Wanted(d) \subseteq Credits
  BY DEF Wanted, Credited
<1> QED BY <1>1, <1>2, <1>3

\* The fees of the entries that a payout takes, also when there are none.
LEMMA FeesTaken ==
  ASSUME IInv, NEW d \in Periods
  PROVE  Total({e \in Taken(d) : e[2] = "platform_fee"}, EntryAmount)
           = Total(Wanted(d), [c \in Credits |-> -Fee])
<1> DEFINE fees == {e \in Taken(d) : e[2] = "platform_fee"}
           each == [c \in Credits |-> -Fee]
<1>1. Wanted(d) \subseteq Credits /\ IsFiniteSet(Wanted(d))
  <2>1. Wanted(d) \in SUBSET Credits
    BY DEF Wanted, Credited
  <2> QED BY <2>1, CreditForms, FS_Subset
<1>2. \A c \in Wanted(d) : each[c] = -Fee /\ each[c] \in Int
  BY <1>1, FeeType
<1>3. CASE Fee > 0
  <2>1. "platform_fee" \in Kinds
    BY <1>3 DEF Kinds
  <2>2. fees = Wanted(d) \X {"platform_fee"}
    BY <2>1, TakenIsWanted
  <2>3. \A c \in Wanted(d) :
          each[c] \in Int /\ EntryAmount[<<c, "platform_fee">>] = each[c]
    BY <1>1, <1>2, <2>1, EntryForms DEF EntryAmount
  <2> HIDE DEF fees, each
  <2>4. Total(Rows(Wanted(d), "platform_fee"), EntryAmount)
          = Total(Wanted(d), each)
    BY <1>1, <2>3, TotalRows
  <2>5. Total(fees, EntryAmount) = Total(Wanted(d), each)
    BY <2>2, <2>4 DEF Rows
  <2> QED BY <2>5 DEF fees, each
<1>4. CASE ~(Fee > 0)
  <2>1. Kinds = {"payment"}
    BY <1>4 DEF Kinds
  <2>2. fees = {}
    BY <2>1, TakenIsWanted
  <2>3. \A c \in Wanted(d) : each[c] = 0
    BY <1>2, <1>4, FeeType
  <2> HIDE DEF fees, each
  <2>4. Total(Wanted(d), each) = 0
    BY <1>1, <2>3, TotalZero
  <2> QED BY <2>2, <2>4, TotalEmpty DEF fees, each
<1> QED BY <1>3, <1>4

\* A payout is positive and no more than the fee and the refunds leave of the
\* credits it takes.
LEMMA NetIsLeft ==
  ASSUME IInv, NEW d \in Periods, NetAmount(d) > 0,
         NEW kept, \A c \in Wanted(d) : kept[c] = Gross - Fee
  PROVE  /\ NetAmount(d) \in Int /\ Total(Wanted(d), kept) \in Int
         /\ Total(Wanting(d), refunded) \in Nat
         /\ NetAmount(d) <= Total(Wanted(d), kept) - Total(Wanting(d), refunded)
<1> DEFINE prices == [c \in Credits |-> Gross]
           fees   == [c \in Credits |-> -Fee]
           W == Wanted(d)
           P == Wanting(d)
<1>1. /\ W \in SUBSET Credits /\ IsFiniteSet(W)
      /\ P \in SUBSET Selected(d)
  <2>1. W \in SUBSET Credits /\ P \in SUBSET Selected(d)
    BY DEF Wanted, Wanting, Credited
  <2> QED BY <2>1, CreditForms, FS_Subset
<1>2. \A c \in W :
        /\ prices[c] \in Int /\ fees[c] \in Int /\ fees[c] <= 0
        /\ kept[c] \in Int /\ kept[c] = prices[c] + fees[c]
  BY <1>1, FeeType, AmountAssumption
<1>3. \A c \in W :
        prices[c] \in Int /\ EntryAmount[<<c, "payment">>] = prices[c]
  BY <1>1, <1>2, EntryForms DEF EntryAmount
<1>4. {e \in Taken(d) : e[2] = "payment"} = W \X {"payment"}
  BY TakenIsWanted, EntryForms
<1> HIDE DEF prices, fees, W, P
<1>5. Total({e \in Taken(d) : e[2] = "payment"}, EntryAmount) = Total(W, prices)
  <2>1. Total(Rows(W, "payment"), EntryAmount) = Total(W, prices)
    BY <1>1, <1>3, TotalRows
  <2> QED BY <1>4, <2>1 DEF Rows
<1>6. Total({e \in Taken(d) : e[2] = "platform_fee"}, EntryAmount)
        = Total(W, fees)
  BY FeesTaken DEF W, fees
<1>7. NetAmount(d)
        = NonNegative(NonNegative(Total(W, prices) - RefundsOf(d)) + Total(W, fees))
  BY <1>5, <1>6 DEF NetAmount
<1>8. /\ Total(P, refunded) <= RefundsOf(d) /\ RefundsOf(d) \in Int
      /\ Total(P, refunded) \in Nat
  <2>1. Selected(d) \in SUBSET Payments /\ IsFiniteSet(Selected(d))
    BY TakenAmounts DEF IInv
  <2>2. \A p \in Selected(d) : refunded[p] \in Int /\ refunded[p] <= refunded[p]
                               /\ refunded[p] >= 0
    BY <2>1, AmountAssumption DEF IInv, TypeOK
  <2>3. Total(P, refunded) <= Total(Selected(d), refunded)
    BY <1>1, <2>1, <2>2, TotalMonotone
  <2>4. IsFiniteSet(P) /\ \A p \in P : refunded[p] \in Nat
    BY <1>1, <2>1, <2>2, FS_Subset
  <2>5. Total(P, refunded) \in Nat
    BY <2>4, TotalNat
  <2> QED BY <2>3, <2>5, TakenAmounts DEF RefundsOf, IInv
<1>9. PICK pr, fe, ke, re :
        /\ pr = Total(W, prices) /\ fe = Total(W, fees) /\ ke = Total(W, kept)
        /\ re = Total(P, refunded)
  OBVIOUS
<1>10. pr \in Int /\ fe \in Int /\ ke \in Int /\ re \in Nat
  BY <1>1, <1>2, <1>8, <1>9, TotalType
<1>11. ke = pr + fe
  BY <1>1, <1>2, <1>9, TotalPlus
<1>12. fe <= 0
  BY <1>1, <1>2, <1>9, TotalNonPositive
<1>13. PICK rd \in Int : rd = RefundsOf(d) /\ re <= rd
  BY <1>8, <1>9
<1>14. NetAmount(d) = NonNegative(NonNegative(pr - rd) + fe)
  BY <1>7, <1>9, <1>13
<1>15. NetAmount(d) = pr - rd + fe /\ NetAmount(d) > 0
  BY <1>10, <1>12, <1>14 DEF NonNegative
<1>16. NetAmount(d) <= ke - re /\ NetAmount(d) \in Int
  BY <1>10, <1>11, <1>13, <1>15
<1> QED BY <1>9, <1>10, <1>16 DEF W, P

LEMMA SameTotal == \A S, f : Acc!Total(S, f) = Total(S, f)
BY DEF Total, MapThenSumSet, MapThenFoldSet,
       Acc!Total, Acc!MapThenSumSet, Acc!MapThenFoldSet

LEMMA AccountInit == Init => Acc!Init
<1> SUFFICES ASSUME Init PROVE Acc!Init
  OBVIOUS
<1>1. Credited = {}
  BY EntryForms DEF Init, Credited
<1>2. [c \in Credited |-> payoutId[<<c, "payment">>]] = [c \in {} |-> NoPayout]
  BY <1>1
<1> QED BY <1>2 DEF Init, Acc!Init

LEMMA CreditStep ==
  ASSUME IInv, NEW p \in Payments, Credit(p)
  PROVE  Acc!Next
<1>1. PICK new : new = <<p, completed[p] + 1>>
  OBVIOUS
<1>2. /\ new \in Credits /\ new = <<p, forgotten[p] + 1>>
      /\ entry[<<new, "payment">>] = "none"
      /\ payoutId[<<new, "payment">>] = NoPayout
      /\ entry' = [e \in Entries |-> IF e[1] = new THEN "pending" ELSE entry[e]]
  BY <1>1, CreditIsNew, EntryForms
<1>3. \A c \in Credits : entry'[<<c, "payment">>]
                           = IF c = new THEN "pending" ELSE entry[<<c, "payment">>]
  BY <1>2, EntryForms
<1>4. new \notin Credited /\ Credited' = Credited \cup {new}
  BY <1>2, <1>3 DEF Credited
<1>5. UNCHANGED <<forgotten, refunded, net, payoutId>>
  BY DEF Credit
<1>6. Acc!Current(p) = new
  BY <1>2 DEF Acc!Current
<1>7. Acc!Credits = Credited
  BY DEF Acc!Credits
<1>8. [c \in Credited' |-> payoutId'[<<c, "payment">>]]
        = [c \in Credited \cup {new} |-> IF c = new THEN NoPayout
             ELSE [x \in Credited |-> payoutId[<<x, "payment">>]][c]]
  BY <1>2, <1>4, <1>5
<1>9. Acc!Settle(p)
  BY <1>4, <1>5, <1>6, <1>7, <1>8 DEF Acc!Settle
<1> QED BY <1>9 DEF Acc!Next

LEMMA ExpireStep ==
  ASSUME IInv, NEW S \in SUBSET Payments, ExpireBatch(S)
  PROVE  Acc!Next
<1>1. UNCHANGED <<entry, payoutId, refunded, net>>
  BY DEF ExpireBatch
<1>2. \A p \in S : <<p, forgotten[p] + 1>> \in Credited
  BY CreditedForm DEF ExpireBatch
<1>3. UNCHANGED [c \in Credited |-> payoutId[<<c, "payment">>]]
  BY <1>1 DEF Credited
<1>4. \A p \in S : Acc!Current(p) \in Acc!Credits
  BY <1>2 DEF Acc!Current, Acc!Credits
<1>5. Acc!Forget(S)
  BY <1>1, <1>3, <1>4 DEF Acc!Forget, ExpireBatch
<1> QED BY <1>5 DEF Acc!Next

LEMMA RefundStep ==
  ASSUME IInv, NEW p \in Payments, NEW a \in Parts, Refund(p, a)
  PROVE  Acc!Next
<1>1. /\ refunded' = [refunded EXCEPT ![p] = @ + a]
      /\ a \in 1..Gross /\ refunded[p] + a <= Gross
      /\ UNCHANGED <<entry, payoutId, net, forgotten>>
  BY RefundIInv
<1>2. UNCHANGED [c \in Credited |-> payoutId[<<c, "payment">>]]
  BY <1>1 DEF Credited
<1>3. Acc!Current(p) \in Acc!Credits
  BY CreditedForm DEF Acc!Current, Acc!Credits, Refund
<1>4. Acc!Refund(p, a)
  BY <1>1, <1>2, <1>3 DEF Acc!Refund
<1> QED BY <1>1, <1>4 DEF Acc!Next

LEMMA TransferStep ==
  ASSUME IInv, NEW d \in Periods, CreatePayout(d)
  PROVE  Acc!Next
<1>1. PICK C : C = Wanted(d)
  OBVIOUS
<1>2. C \in SUBSET Credited /\ C \in SUBSET Credits
  BY <1>1 DEF Wanted, Credited
<1>3. \A c \in Credits :
        payoutId'[<<c, "payment">>]
          = IF c \in C THEN d ELSE payoutId[<<c, "payment">>]
  BY <1>1, EntryForms, TakenIsWanted DEF CreatePayout
<1>4. Credited' = Credited
  <2>1. \A e \in Entries : entry'[e] = "none" <=> entry[e] = "none"
    BY DEF CreatePayout, Taken, IInv, TypeOK
  <2> QED BY <2>1, EntryForms DEF Credited
<1>5. [c \in Credited' |-> payoutId'[<<c, "payment">>]]
        = [c \in Credited |-> IF c \in C THEN d
             ELSE [x \in Credited |-> payoutId[<<x, "payment">>]][c]]
  BY <1>3, <1>4, CreditedForm
<1>6. \A c \in C : [x \in Credited |-> payoutId[<<x, "payment">>]][c] = NoPayout
  BY <1>1, <1>2 DEF Wanted
<1>7. /\ net[d] = 0 /\ net' = [net EXCEPT ![d] = NetAmount(d)]
      /\ NetAmount(d) > 0 /\ UNCHANGED <<forgotten, refunded>>
  BY DEF CreatePayout, PeriodIsFree
<1>8. NetAmount(d) \in 1..Acc!Left(C)
  <2>1. PICK kept : kept = [c \in C |-> Gross - Fee]
    OBVIOUS
  <2>2. /\ NetAmount(d) \in Int /\ Total(C, kept) \in Int
        /\ Total(Wanting(d), refunded) \in Nat
        /\ NetAmount(d) <= Total(C, kept) - Total(Wanting(d), refunded)
    BY <1>1, <1>7, <2>1, NetIsLeft
  <2>3. Wanting(d) = {c[1] : c \in C}
    BY <1>1 DEF Wanting
  <2>4. Acc!Left(C) = Total(C, kept) - Total(Wanting(d), refunded)
    BY <2>1, <2>3, SameTotal DEF Acc!Left
  <2> QED BY <1>7, <2>2, <2>4
<1>9. Acc!Credits = Credited
  BY DEF Acc!Credits
<1>10. Acc!Transfer(d, C)
  BY <1>2, <1>5, <1>6, <1>7, <1>8, <1>9 DEF Acc!Transfer
<1> QED BY <1>2, <1>9, <1>10 DEF Acc!Next

LEMMA AccountStep == IInv /\ [Next]_vars => [Acc!Next]_Acc!account
<1> SUFFICES ASSUME IInv, [Next]_vars PROVE [Acc!Next]_Acc!account
  OBVIOUS
<1>1. ASSUME UNCHANGED <<refunded, payoutId, net, forgotten, Credited>>
      PROVE  UNCHANGED Acc!account
  <2>1. UNCHANGED [c \in Credited |-> payoutId[<<c, "payment">>]]
    BY <1>1
  <2> QED BY <1>1, <2>1 DEF Acc!account
<1>2. UNCHANGED vars => UNCHANGED Acc!account
  BY <1>1 DEF vars, Credited
<1>3. \A c \in Credits : Mature(c) => UNCHANGED Acc!account
  BY <1>1 DEF Mature, Credited
<1>4. ASSUME NEW s \in Sweepers, SweepQuery(s) \/ SweepCommit(s) \/ SweepDies(s)
      PROVE  UNCHANGED Acc!account
  <2>1. /\ UNCHANGED <<refunded, payoutId, net, forgotten>>
        /\ \A e \in Entries : entry'[e] = "none" <=> entry[e] = "none"
    BY <1>4, SweepIInv
  <2>2. UNCHANGED Credited
    BY <2>1, EntryForms DEF Credited
  <2> QED BY <1>1, <2>1, <2>2
<1>5. ASSUME NEW S \in (SUBSET Late) \ {{}}, ExpireBatch(S) PROVE Acc!Next
  <2>1. S \in SUBSET Payments
    BY OverwriteAssumption
  <2> QED BY <1>5, <2>1, ExpireStep
<1> QED
  BY <1>2, <1>3, <1>4, <1>5, CreditStep, RefundStep, TransferStep DEF Next

\* The ledger implements the account, for any payments, overlapping periods,
\* pages and sweeps and however often the job overwrites a success: a payment
\* is credited again only after that, a credit goes into one payout, for good,
\* and a payout never exceeds what the fee and the refunds leave of its credits.
THEOREM LedgerKeepsTheAccount == Spec => KeepsTheAccount
BY InvIInv, AccountInit, AccountStep, PTL DEF Spec, KeepsTheAccount, Acc!Spec

-----------------------------------------------------------------------------
(***************************************************************************)
(* What leaves the account never exceeds what came in.                     *)
(***************************************************************************)
Out == {c \in Credited : payoutId[<<c, "payment">>] # NoPayout}

Kept == [c \in Credits |-> Gross - Fee]

Covered == Total(Periods, net) <= Total(Out, Kept)

LEMMA OutForm ==
  /\ Out \in SUBSET Credits /\ IsFiniteSet(Out)
  /\ \A c \in Credits : Kept[c] \in Int
<1>1. Out \in SUBSET Credits
  BY DEF Out, Credited
<1> QED BY <1>1, CreditForms, FS_Subset, FeeType, AmountAssumption DEF Kept

LEMMA CoveredIsNotOverdrawn == IInv /\ Covered => Acc!NotOverdrawn
<1> SUFFICES ASSUME IInv, Covered PROVE Acc!NotOverdrawn
  OBVIOUS
<1>1. Acc!Credits = Credited
  BY DEF Acc!Credits
<1>2. {c \in Credited : [x \in Credited |-> payoutId[<<x, "payment">>]][c] # NoPayout}
        = Out
  BY DEF Out
<1>3. PICK kept : kept = [c \in Out |-> Gross - Fee]
  OBVIOUS
<1>4. \A c \in Out : Kept[c] \in Int /\ kept[c] = Kept[c]
  BY <1>3, OutForm DEF Kept
<1>5. Total(Out, kept) = Total(Out, Kept)
  BY <1>4, OutForm, TotalSame
<1>6. \A c \in Credited : c[2] \in 1..(forgotten[c[1]] + 1)
  <2> SUFFICES ASSUME NEW c \in Credited PROVE c[2] \in 1..(forgotten[c[1]] + 1)
    OBVIOUS
  <2>1. c \in Credits /\ c[2] <= completed[c[1]]
    BY CreditedForm
  <2>2. c[1] \in Payments /\ c[2] \in Int /\ c[2] >= 1
    BY <2>1, CreditForms, OverwriteAssumption
  <2>3. /\ forgotten[c[1]] \in Int /\ completed[c[1]] \in Int
        /\ completed[c[1]] <= forgotten[c[1]] + 1
    BY <2>2, OverwriteAssumption DEF IInv, TypeOK, SucceededOnce
  <2> QED BY <2>1, <2>2, <2>3
<1>7. Total(Periods, net) <= Total(Out, kept)
  BY <1>5 DEF Covered
<1>8. /\ Acc!Total(Periods, net) = Total(Periods, net)
      /\ Acc!Total(Out, kept) = Total(Out, kept)
  BY SameTotal
<1> QED BY <1>1, <1>2, <1>3, <1>6, <1>7, <1>8 DEF Acc!NotOverdrawn

LEMMA PeriodsAreFinite == IsFiniteSet(Periods)
BY CreditForms, PeriodAssumption, FS_SUBSET, FS_Subset

LEMMA InitCovered == Init => Covered
<1> SUFFICES ASSUME Init PROVE Covered
  OBVIOUS
<1>1. Out = {}
  BY EntryForms DEF Init, Out, Credited
<1>2. \A d \in Periods : net[d] = 0
  BY DEF Init
<1>3. Total(Periods, net) = 0 /\ Total(Out, Kept) = 0
  BY <1>1, <1>2, PeriodsAreFinite, TotalZero, TotalEmpty
<1> QED BY <1>3 DEF Covered

LEMMA PayoutCovered ==
  ASSUME IInv, Covered, NEW d \in Periods, CreatePayout(d)
  PROVE  Covered'
<1> DEFINE S == Wanted(d)
           P == Periods \ {d}
<1>1. /\ S \in SUBSET Credits /\ Out \in SUBSET Credits /\ Out \cap S = {}
      /\ IsFiniteSet(S) /\ IsFiniteSet(Out)
  <2>1. S \in SUBSET Credits /\ Out \in SUBSET Credits /\ Out \cap S = {}
    BY DEF Wanted, Credited, Out
  <2> QED BY <2>1, CreditForms, FS_Subset
<1>2. Out' = Out \cup S
  <2>1. \A e \in Entries : entry'[e] = "none" <=> entry[e] = "none"
    BY DEF CreatePayout, Taken, IInv, TypeOK
  <2>2. Credited' = Credited
    BY <2>1, EntryForms DEF Credited
  <2>3. \A c \in Credits :
          payoutId'[<<c, "payment">>]
            = IF c \in S THEN d ELSE payoutId[<<c, "payment">>]
    BY EntryForms, TakenIsWanted DEF CreatePayout
  <2> QED BY <2>2, <2>3, CreditedForm, PeriodAssumption DEF Out, Wanted
<1>3. \A c \in Credits : Kept[c] \in Int
  BY OutForm
<1>4. NetAmount(d) \in Int /\ NetAmount(d) <= Total(S, Kept)
  <2>1. \A c \in S : Kept[c] = Gross - Fee
    BY <1>1 DEF Kept
  <2>2. NetAmount(d) > 0
    BY DEF CreatePayout
  <2> QED BY <2>1, <2>2, NetIsLeft
<1>5. /\ net[d] = 0 /\ net'[d] = NetAmount(d)
      /\ \A q \in P : net'[q] = net[q]
      /\ \A q \in Periods : net[q] \in Int
      /\ \A q \in Periods : net'[q] \in Int
  BY <1>4 DEF CreatePayout, PeriodIsFree, IInv, TypeOK
<1> HIDE DEF S
<1>6. Total(Out \cup S, Kept) = Total(Out, Kept) + Total(S, Kept)
  BY <1>1, <1>3, CreditForms, TotalUnion
<1>7. /\ Total(Periods, net) = net[d] + Total(P, net)
      /\ Total(Periods, net') = net'[d] + Total(P, net')
  BY <1>5, PeriodsAreFinite, TotalApart
<1>8. Total(P, net') = Total(P, net)
  <2>1. IsFiniteSet(P) /\ \A q \in P : net[q] \in Int /\ net'[q] = net[q]
    BY <1>5, PeriodsAreFinite, FS_RemoveElement
  <2> HIDE DEF P
  <2> QED BY <2>1, TotalSame
<1>9. /\ Total(P, net) \in Int /\ Total(Out, Kept) \in Int
      /\ Total(S, Kept) \in Int
  <2>1. P \in SUBSET Periods
    OBVIOUS
  <2>2. Total(P, net) \in Int
    BY <1>5, <2>1, PeriodsAreFinite, TotalPart
  <2> QED BY <1>1, <1>3, <2>2, TotalType
<1> HIDE DEF P
<1>10. PICK n, o, k : /\ n = Total(P, net) /\ o = Total(Out, Kept)
                      /\ k = Total(S, Kept)
  OBVIOUS
<1>11. n \in Int /\ o \in Int /\ k \in Int
  BY <1>9, <1>10
<1>12. Total(Periods, net') = NetAmount(d) + n /\ n <= o
  BY <1>5, <1>7, <1>8, <1>10, <1>11 DEF Covered
<1>13. Total(Out, Kept)' = o + k
  BY <1>2, <1>6, <1>10 DEF Kept
<1>14. NetAmount(d) \in Int /\ NetAmount(d) <= k
  BY <1>4, <1>10
<1> QED BY <1>11, <1>12, <1>13, <1>14 DEF Covered

\* A credit adds no credit that a payout has taken.
LEMMA CreditCovered ==
  ASSUME IInv, Covered, NEW p \in Payments, Credit(p)
  PROVE  Covered'
<1>1. PICK new : new = <<p, completed[p] + 1>>
  OBVIOUS
<1>2. /\ entry[<<new, "payment">>] = "none"
      /\ payoutId[<<new, "payment">>] = NoPayout
      /\ entry' = [e \in Entries |-> IF e[1] = new THEN "pending" ELSE entry[e]]
  BY <1>1, CreditIsNew, EntryForms
<1>3. \A c \in Credits :
        payoutId[<<c, "payment">>] # NoPayout
          => entry'[<<c, "payment">>] = entry[<<c, "payment">>]
  BY <1>2, EntryForms
<1>4. UNCHANGED <<payoutId, net>>
  BY DEF Credit
<1>5. Out' = Out
  BY <1>3, <1>4 DEF Out, Credited
<1> QED BY <1>4, <1>5 DEF Covered, Kept

LEMMA NextCovered == IInv /\ Covered /\ [Next]_vars => Covered'
<1> SUFFICES ASSUME IInv, Covered, [Next]_vars PROVE Covered'
  OBVIOUS
<1>1. ASSUME NEW d \in Periods, CreatePayout(d) PROVE Covered'
  BY <1>1, PayoutCovered
<1>2. ASSUME UNCHANGED <<Credited, payoutId, net>> PROVE Covered'
  BY <1>2 DEF Covered, Out, Kept
<1>3. ASSUME NEW s \in Sweepers, SweepQuery(s) \/ SweepCommit(s) \/ SweepDies(s)
      PROVE  Covered'
  <2>1. /\ UNCHANGED <<payoutId, net>>
        /\ \A e \in Entries : entry'[e] = "none" <=> entry[e] = "none"
    BY <1>3, SweepIInv
  <2>2. UNCHANGED Credited
    BY <2>1, EntryForms DEF Credited
  <2> QED BY <1>2, <2>1, <2>2
<1>4. ASSUME UNCHANGED <<entry, payoutId, net>> PROVE Covered'
  BY <1>2, <1>4 DEF Credited
<1> QED
  BY <1>1, <1>3, <1>4, CreditCovered
     DEF Next, vars, ExpireBatch, Mature, Refund

\* All payouts of the event together never exceed what the credits they took
\* earned after the platform's fee, and a payment has been credited once, and
\* once more only for each of its successes that the expire-stale-payments job
\* has overwritten: that job is the whole cause of a second transfer of the same
\* payment, for any number of payments and periods.
THEOREM NeverOverdrawn == Spec => []Acc!NotOverdrawn
BY InvIInv, InitCovered, NextCovered, CoveredIsNotOverdrawn, PTL DEF Spec
===============================================================================
