----------------------------- MODULE FiniteFacts -----------------------------
(***************************************************************************)
(* Facts about finite sets that the proofs about policies and plans need:  *)
(* an order has a best element, and a sum grows by what is added to it.    *)
(* Each is an induction, stated as the choice of a smallest counterexample.*)
(***************************************************************************)
EXTENDS FiniteSetsExt, FiniteSetTheorems, WellFoundedInduction, TLAPS

(* Sets of finite sets have minimal elements.                              *)
LEMMA Smallest ==
  ASSUME NEW S, IsFiniteSet(S), NEW F, F \subseteq SUBSET S, F # {}
  PROVE  \E X \in F : \A Y \in F : Y \subseteq X => Y = X
<1>1. IsWellFoundedOn(StrictSubsetOrdering(S), SUBSET S)
  BY FS_StrictSubsetOrderingWellFounded, FS_FiniteSubsetsOfFinite
<1>2. PICK X \in F : \A Y \in F : <<Y, X>> \notin StrictSubsetOrdering(S)
  BY <1>1, WFMin
<1>3. ASSUME NEW Y \in F, Y \subseteq X, Y # X PROVE FALSE
  <2>1. <<Y, X>> \in (SUBSET S) \X (SUBSET S)
    OBVIOUS
  <2> QED
    BY <1>2, <1>3, <2>1 DEF StrictSubsetOrdering
<1> QED
  BY <1>3

(* A strict order leaves some element of a finite set unbeaten.            *)
LEMMA Unbeaten ==
  ASSUME NEW S, IsFiniteSet(S), S # {}, NEW R,
         \A x \in S : <<x, x>> \notin R,
         \A x, y, z \in S : <<x, y>> \in R /\ <<y, z>> \in R => <<x, z>> \in R
  PROVE  \E x \in S : \A y \in S : <<y, x>> \notin R
<1> DEFINE Over(x) == {y \in S : <<y, x>> \in R}
<1>1. PICK x \in S : \A y \in S : Over(y) \subseteq Over(x) => Over(y) = Over(x)
  <2> DEFINE F == {Over(x) : x \in S}
  <2>1. \A y \in S : Over(y) \in SUBSET S
    OBVIOUS
  <2> HIDE DEF Over
  <2>2. F \subseteq SUBSET S
    BY <2>1
  <2>3. F # {}
    OBVIOUS
  <2> HIDE DEF F
  <2>4. PICK X \in F : \A Y \in F : Y \subseteq X => Y = X
    BY <2>2, <2>3, Smallest
  <2>5. PICK x \in S : X = Over(x)
    BY DEF F
  <2>6. \A y \in S : Over(y) \in F
    BY DEF F
  <2> QED
    BY <2>4, <2>5, <2>6
<1>2. ASSUME NEW y \in S, <<y, x>> \in R PROVE FALSE
  <2>1. Over(y) \subseteq Over(x)
    BY <1>2
  <2>2. y \in Over(x) /\ y \notin Over(y)
    BY <1>2
  <2> QED
    BY <1>1, <2>1, <2>2
<1> QED
  BY <1>2

(* Of the best elements of a finite set of numbers one is the first; R     *)
(* says what is better than what, and may not tell elements apart.         *)
LEMMA FirstOfBest ==
  ASSUME NEW S, IsFiniteSet(S), S \subseteq Nat, S # {}, NEW R,
         \A a, b \in S : <<a, b>> \in R => <<b, a>> \notin R,
         \A a, b, c \in S : <<a, b>> \notin R /\ <<b, c>> \notin R => <<a, c>> \notin R
  PROVE  \E a \in S : \A b \in S : <<a, b>> \in R \/ (<<b, a>> \notin R /\ a <= b)
<1> DEFINE Before(a, b) == <<a, b>> \in R \/ (<<b, a>> \notin R /\ a < b)
           Q == {r \in S \X S : Before(r[1], r[2])}
<1>1. /\ \A a \in S : ~Before(a, a)
      /\ \A a, b, c \in S : Before(a, b) /\ Before(b, c) => Before(a, c)
  OBVIOUS
<1>2. \A a, b \in S : Before(a, b) <=> <<a, b>> \in Q
  OBVIOUS
<1> HIDE DEF Before, Q
<1>3. /\ \A a \in S : <<a, a>> \notin Q
      /\ \A a, b, c \in S : <<a, b>> \in Q /\ <<b, c>> \in Q => <<a, c>> \in Q
  BY <1>1, <1>2
<1>4. PICK a \in S : \A b \in S : <<b, a>> \notin Q
  BY <1>3, Unbeaten
<1>5. \A b \in S : ~Before(b, a)
  BY <1>2, <1>4
<1> QED
  BY <1>5 DEF Before

-----------------------------------------------------------------------------
(* The functions by which a sum is computed.                               *)
Chosen(s) == CHOOSE x \in s : TRUE

Adds(g, f, S) ==
    g = [s \in SUBSET S |-> IF s = {} THEN 0 ELSE f[Chosen(s)] + g[s \ {Chosen(s)}]]

LEMMA SumByAdds ==
  ASSUME NEW f, NEW S, \E g : Adds(g, f, S)
  PROVE  \E g : Adds(g, f, S) /\ SumFunctionOnSet(f, S) = g[S]
<1> DEFINE h == CHOOSE g : Adds(g, f, S)
<1>1. Adds(h, f, S)
  OBVIOUS
<1>2. SumFunctionOnSet(f, S) = h[S]
  BY DEF SumFunctionOnSet, FoldFunctionOnSet, MapThenFoldSet, Adds, Chosen
<1> QED
  BY <1>1, <1>2

(* They agree wherever they are defined.                                   *)
LEMMA AddsUnique ==
  ASSUME NEW f, NEW S, NEW T, NEW g, NEW h, Adds(g, f, S), Adds(h, f, T),
         NEW U, U \subseteq S, U \subseteq T, IsFiniteSet(U)
  PROVE  g[U] = h[U]
<1> DEFINE F == {X \in SUBSET U : g[X] # h[X]}
<1> SUFFICES ASSUME F # {} PROVE FALSE
  OBVIOUS
<1>0. F \subseteq SUBSET U
  OBVIOUS
<1> HIDE DEF F
<1>1. PICK X \in F : \A Y \in F : Y \subseteq X => Y = X
  BY <1>0, Smallest
<1> USE DEF F
<1> DEFINE Z == X \ {Chosen(X)}
<1>2. X \in SUBSET S /\ X \in SUBSET T
  OBVIOUS
<1>3. X # {}
  BY <1>2 DEF Adds
<1>4. Chosen(X) \in X
  BY <1>3 DEF Chosen
<1>5. g[Z] = h[Z]
  BY <1>1, <1>4
<1>6. g[X] = f[Chosen(X)] + g[Z] /\ h[X] = f[Chosen(X)] + h[Z]
  BY <1>2, <1>3 DEF Adds
<1> QED
  BY <1>5, <1>6

LEMMA AddsExists ==
  ASSUME NEW f, NEW S, IsFiniteSet(S)
  PROVE  \E g : Adds(g, f, S)
<1> DEFINE F == {X \in SUBSET S : ~\E g : Adds(g, f, X)}
<1> SUFFICES ASSUME F # {} PROVE FALSE
  BY S \in SUBSET S
<1>0. F \subseteq SUBSET S
  OBVIOUS
<1> HIDE DEF F
<1>1. PICK X \in F : \A Y \in F : Y \subseteq X => Y = X
  BY <1>0, Smallest
<1> USE DEF F
<1> DEFINE G(s) == CHOOSE g : Adds(g, f, s)
           Z(s) == s \ {Chosen(s)}
<1>2. ASSUME NEW s \in SUBSET X, s # X PROVE Adds(G(s), f, s) /\ IsFiniteSet(s)
  <2>1. \E g : Adds(g, f, s)
    BY <1>1, <1>2
  <2> QED
    BY <2>1, FS_Subset
<1>3. ASSUME NEW s \in SUBSET X, s # {}
      PROVE  Z(s) \in SUBSET X /\ Z(s) # X /\ Z(s) # s
  BY <1>3 DEF Chosen
<1> HIDE DEF G
<1> DEFINE v == [s \in SUBSET X |->
                   IF s = {} THEN 0 ELSE f[Chosen(s)] + G(Z(s))[Z(s)]]
<1>4. ASSUME NEW s \in SUBSET X, s # X PROVE v[s] = G(s)[s]
  <2>1. CASE s = {}
    BY <2>1, <1>2, <1>4 DEF Adds
  <2>2. CASE s # {}
    <3>1. G(s)[s] = f[Chosen(s)] + G(s)[Z(s)]
      BY <2>2, <1>2, <1>4 DEF Adds
    <3>2. Adds(G(s), f, s) /\ Adds(G(Z(s)), f, Z(s)) /\ IsFiniteSet(Z(s))
      BY <1>2, <1>3, <1>4, <2>2
    <3>3. G(s)[Z(s)] = G(Z(s))[Z(s)]
      BY <3>2, AddsUnique
    <3> QED
      BY <2>2, <3>1, <3>3
  <2> QED
    BY <2>1, <2>2
<1>5. ASSUME NEW s \in SUBSET X, s # {} PROVE v[Z(s)] = G(Z(s))[Z(s)]
  BY <1>3, <1>4, <1>5
<1>6. v = [s \in SUBSET X |-> IF s = {} THEN 0 ELSE f[Chosen(s)] + v[Z(s)]]
  BY <1>5
<1>7. Adds(v, f, X)
  BY <1>6 DEF Adds
<1> QED
  BY <1>7

(* A sum of numbers is a number, and does not depend on the order.         *)
LEMMA AddsNat ==
  ASSUME NEW f, NEW S, NEW g, Adds(g, f, S), IsFiniteSet(S), \A x \in S : f[x] \in Nat
  PROVE  \A T \in SUBSET S : g[T] \in Nat
<1> DEFINE F == {X \in SUBSET S : g[X] \notin Nat}
<1> SUFFICES ASSUME F # {} PROVE FALSE
  OBVIOUS
<1>0. F \subseteq SUBSET S
  OBVIOUS
<1> HIDE DEF F
<1>1. PICK X \in F : \A Y \in F : Y \subseteq X => Y = X
  BY <1>0, Smallest
<1> USE DEF F
<1> DEFINE Z == X \ {Chosen(X)}
<1>2. X # {}
  BY DEF Adds
<1>3. Chosen(X) \in X
  BY <1>2 DEF Chosen
<1>4. g[Z] \in Nat
  BY <1>1, <1>3
<1>5. g[X] = f[Chosen(X)] + g[Z]
  BY <1>2 DEF Adds
<1> QED
  BY <1>3, <1>4, <1>5

LEMMA AddsAny ==
  ASSUME NEW f, NEW S, NEW g, Adds(g, f, S), IsFiniteSet(S), \A x \in S : f[x] \in Nat
  PROVE  \A T \in SUBSET S : \A x \in T : g[T] = f[x] + g[T \ {x}]
<1> DEFINE F == {X \in SUBSET S : \E x \in X : g[X] # f[x] + g[X \ {x}]}
<1> SUFFICES ASSUME F # {} PROVE FALSE
  OBVIOUS
<1>0. F \subseteq SUBSET S
  OBVIOUS
<1> HIDE DEF F
<1>1. PICK X \in F : \A Y \in F : Y \subseteq X => Y = X
  BY <1>0, Smallest
<1> USE DEF F
<1>2. PICK x \in X : g[X] # f[x] + g[X \ {x}]
  OBVIOUS
<1> DEFINE y == Chosen(X)
<1>3. y \in X
  BY DEF Chosen
<1>4. g[X] = f[y] + g[X \ {y}]
  BY <1>3 DEF Adds
<1>5. x # y
  BY <1>2, <1>4
<1> HIDE DEF y
<1>6. ASSUME NEW w \in X, NEW z \in X, w # z
      PROVE  g[X \ {w}] = f[z] + g[(X \ {w}) \ {z}]
  <2> DEFINE Y == X \ {w}
  <2>1. Y \in SUBSET S /\ Y \subseteq X /\ Y # X /\ z \in Y
    BY <1>6
  <2>2. Y \notin F
    BY <1>1, <2>1
  <2> QED
    BY <2>1, <2>2
<1>7. /\ g[X \ {y}] = f[x] + g[(X \ {y}) \ {x}]
      /\ g[X \ {x}] = f[y] + g[(X \ {x}) \ {y}]
  BY <1>3, <1>5, <1>6
<1>8. (X \ {y}) \ {x} = (X \ {x}) \ {y}
  OBVIOUS
<1>9. f[x] \in Nat /\ f[y] \in Nat /\ g[(X \ {x}) \ {y}] \in Nat
  BY <1>3, AddsNat
<1>10. g[X] = f[x] + g[X \ {x}]
  <2> DEFINE k == g[(X \ {x}) \ {y}]
  <2>1. g[X \ {y}] = f[x] + k /\ g[X \ {x}] = f[y] + k /\ k \in Nat
    BY <1>7, <1>8, <1>9
  <2> HIDE DEF k, F
  <2> QED
    BY <1>4, <1>9, <2>1
<1> QED
  BY <1>2, <1>10

(* What SumFunctionOnSet does.                                             *)
LEMMA SumNat ==
  ASSUME NEW f, NEW S, IsFiniteSet(S), \A x \in S : f[x] \in Nat
  PROVE  SumFunctionOnSet(f, S) \in Nat
BY AddsExists, SumByAdds, AddsNat

LEMMA SumEmpty == ASSUME NEW f PROVE SumFunctionOnSet(f, {}) = 0
<1>1. PICK g : Adds(g, f, {}) /\ SumFunctionOnSet(f, {}) = g[{}]
  BY AddsExists, SumByAdds, FS_EmptySet
<1> QED
  BY <1>1 DEF Adds

LEMMA SumAdd ==
  ASSUME NEW f, NEW S, IsFiniteSet(S), NEW x, x \notin S,
         f[x] \in Nat, \A y \in S : f[y] \in Nat
  PROVE  SumFunctionOnSet(f, S \cup {x}) = f[x] + SumFunctionOnSet(f, S)
<1> DEFINE T == S \cup {x}
<1>1. IsFiniteSet(T) /\ T \ {x} = S
  BY FS_AddElement
<1>2. PICK g : Adds(g, f, T) /\ SumFunctionOnSet(f, T) = g[T]
  BY <1>1, AddsExists, SumByAdds
<1>3. PICK h : Adds(h, f, S) /\ SumFunctionOnSet(f, S) = h[S]
  BY AddsExists, SumByAdds
<1>4. g[S] = h[S]
  BY <1>2, <1>3, AddsUnique
<1>5. g[T] = f[x] + g[T \ {x}]
  <2>1. \A y \in T : f[y] \in Nat
    OBVIOUS
  <2> QED
    BY <1>1, <1>2, <2>1, AddsAny
<1> QED
  BY <1>1, <1>2, <1>3, <1>4, <1>5

(* A sum depends only on the summands.                                     *)
LEMMA SumSame ==
  ASSUME NEW f, NEW g, NEW S, IsFiniteSet(S), \A x \in S : f[x] = g[x]
  PROVE  SumFunctionOnSet(f, S) = SumFunctionOnSet(g, S)
<1>1. PICK u : Adds(u, f, S) /\ SumFunctionOnSet(f, S) = u[S]
  BY AddsExists, SumByAdds
<1>2. PICK v : Adds(v, g, S) /\ SumFunctionOnSet(g, S) = v[S]
  BY AddsExists, SumByAdds
<1>3. \A s \in SUBSET S : s # {} => Chosen(s) \in S
  BY DEF Chosen
<1>4. Adds(v, f, S)
  BY <1>2, <1>3 DEF Adds
<1> QED
  BY <1>1, <1>2, <1>4, AddsUnique

(* A sum of more numbers is at least as large.                             *)
LEMMA SumGrows ==
  ASSUME NEW f, NEW S, IsFiniteSet(S), \A x \in S : f[x] \in Nat, NEW T \in SUBSET S
  PROVE  SumFunctionOnSet(f, T) <= SumFunctionOnSet(f, S)
<1> DEFINE Sum(X) == SumFunctionOnSet(f, X)
           F == {X \in SUBSET S : T \subseteq X /\ ~(Sum(T) <= Sum(X))}
<1>1. \A X \in SUBSET S : IsFiniteSet(X) /\ Sum(X) \in Nat
  BY FS_Subset, SumNat
<1> HIDE DEF Sum
<1>2. F = {}
  <2> SUFFICES ASSUME F # {} PROVE FALSE
    OBVIOUS
  <2>1. F \subseteq SUBSET S
    OBVIOUS
  <2> HIDE DEF F
  <2>2. PICK X \in F : \A Y \in F : Y \subseteq X => Y = X
    BY <2>1, Smallest
  <2> USE DEF F
  <2>3. PICK x \in X : x \notin T
    <3>1. X # T
      <4>1. Sum(T) \in Nat
        BY <1>1
      <4> QED
        BY <2>2, <4>1
    <3> QED
      BY <2>2, <3>1
  <2> DEFINE Y == X \ {x}
  <2>4. Y \in SUBSET S /\ T \subseteq Y /\ Y # X /\ Y \cup {x} = X
    BY <2>3
  <2>5. Sum(T) <= Sum(Y)
    BY <2>2, <2>4
  <2>6. Sum(X) = f[x] + Sum(Y)
    BY <1>1, <2>4, SumAdd DEF Sum
  <2>7. f[x] \in Nat /\ Sum(Y) \in Nat /\ Sum(T) \in Nat
    BY <1>1, <2>4
  <2> HIDE DEF Y
  <2>8. Sum(T) <= Sum(X)
    BY <2>5, <2>6, <2>7
  <2> QED
    BY <2>2, <2>8
<1> QED
  BY <1>2 DEF Sum

(* A sum of numbers is at most the sum of what bounds each of them.        *)
LEMMA SumBounded ==
  ASSUME NEW f, NEW g, NEW h, NEW S, IsFiniteSet(S),
         \A x \in S : f[x] \in Nat /\ g[x] \in Nat /\ h[x] \in Nat /\ f[x] <= g[x] + h[x]
  PROVE  SumFunctionOnSet(f, S) <= SumFunctionOnSet(g, S) + SumFunctionOnSet(h, S)
<1> DEFINE A(X) == SumFunctionOnSet(f, X)
           B(X) == SumFunctionOnSet(g, X)
           C(X) == SumFunctionOnSet(h, X)
           F == {X \in SUBSET S : ~(A(X) <= B(X) + C(X))}
<1>1. \A X \in SUBSET S : IsFiniteSet(X) /\ A(X) \in Nat /\ B(X) \in Nat /\ C(X) \in Nat
  BY FS_Subset, SumNat
<1>2. A({}) = 0 /\ B({}) = 0 /\ C({}) = 0
  BY SumEmpty
<1>3. \A X \in SUBSET S, x \in S : x \notin X => /\ A(X \cup {x}) = f[x] + A(X)
                                               /\ B(X \cup {x}) = g[x] + B(X)
                                               /\ C(X \cup {x}) = h[x] + C(X)
  BY <1>1, SumAdd
<1> HIDE DEF A, B, C
<1>4. F = {}
  <2> SUFFICES ASSUME F # {} PROVE FALSE
    OBVIOUS
  <2>1. F \subseteq SUBSET S
    OBVIOUS
  <2> HIDE DEF F
  <2>2. PICK X \in F : \A Y \in F : Y \subseteq X => Y = X
    BY <2>1, Smallest
  <2> USE DEF F
  <2>3. PICK x \in X : TRUE
    <3>1. A({}) <= B({}) + C({})
      BY <1>2
    <3>2. ~(A(X) <= B(X) + C(X))
      BY <2>2
    <3>3. X # {}
      BY <3>1, <3>2
    <3> QED
      BY <3>3
  <2> DEFINE Y == X \ {x}
  <2>4. Y \in SUBSET S /\ x \in S /\ x \notin Y /\ Y # X /\ Y \cup {x} = X
    BY <2>3
  <2>5. A(Y) <= B(Y) + C(Y)
    BY <2>2, <2>4
  <2> HIDE DEF Y
  <2>6. A(X) = f[x] + A(Y) /\ B(X) = g[x] + B(Y) /\ C(X) = h[x] + C(Y)
    BY <1>3, <2>4
  <2>7. /\ f[x] \in Nat /\ g[x] \in Nat /\ h[x] \in Nat /\ f[x] <= g[x] + h[x]
        /\ A(Y) \in Nat /\ B(Y) \in Nat /\ C(Y) \in Nat
    BY <1>1, <2>4
  <2>8. A(X) <= B(X) + C(X)
    BY <2>5, <2>6, <2>7
  <2> QED
    BY <2>2, <2>8
<1> QED
  BY <1>4 DEF A, B, C

-----------------------------------------------------------------------------
(* Fractions compared by cross-multiplication are ordered: p/u >= q/v and  *)
(* q/v >= r/w give p/u >= r/w.                                             *)
LEMMA TimesMonotone ==
  ASSUME NEW m \in Nat, NEW n \in Nat, NEW k \in Nat, m >= n
  PROVE  m * k >= n * k
<1>1. PICK d \in Nat : m = n + d
  <2>1. m - n \in Nat /\ m = n + (m - n)
    OBVIOUS
  <2> QED
    BY <2>1
<1>2. m * k = n * k + d * k /\ d * k \in Nat /\ n * k \in Nat
  BY <1>1
<1> QED
  BY <1>2

LEMMA Fractions ==
  ASSUME NEW p \in Nat, NEW q \in Nat, NEW r \in Nat,
         NEW u \in Nat \ {0}, NEW v \in Nat \ {0}, NEW w \in Nat \ {0},
         p * v >= q * u, q * w >= r * v
  PROVE  p * w >= r * u
<1> SUFFICES ASSUME ~(p * w >= r * u) PROVE FALSE
  OBVIOUS
<1>1. /\ p * v \in Nat /\ q * u \in Nat /\ q * w \in Nat
      /\ r * v \in Nat /\ p * w \in Nat /\ r * u \in Nat
  OBVIOUS
<1>2. (p * v) * w >= (q * u) * w /\ (q * w) * u >= (r * v) * u
  BY <1>1, TimesMonotone
<1>3. r * u >= p * w + 1
  BY <1>1
<1>4. (r * u) * v >= (p * w + 1) * v
  BY <1>1, <1>3, TimesMonotone
<1>5. (p * v) * w = (p * w) * v /\ (q * u) * w = (q * w) * u /\ (r * v) * u = (r * u) * v
  OBVIOUS
<1>6. (p * w + 1) * v = (p * w) * v + v
  BY <1>1
<1>7. (p * w) * v \in Nat /\ (q * w) * u \in Nat /\ (r * u) * v \in Nat
  BY <1>1
<1> QED
  BY <1>2, <1>4, <1>5, <1>6, <1>7
=============================================================================
