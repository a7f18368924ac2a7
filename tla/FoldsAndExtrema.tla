-------------------------- MODULE FoldsAndExtrema ---------------------------
(***************************************************************************)
(* What the other proofs need about data: that a set of integers has a     *)
(* greatest or a least element, for Max and Min of FiniteSetsExt choose    *)
(* one without saying when there is one; that the folds of the community   *)
(* modules exist; and what those that are sums, over sets and over         *)
(* sequences, add up to.  The proofs by induction take a least             *)
(* counterexample out of a set, where the induction theorems of the        *)
(* library have a predicate.                                               *)
(***************************************************************************)
EXTENDS Integers, Sequences, FiniteSets, SequencesExt, SequenceTheorems,
        FiniteSetTheorems, WellFoundedInduction, TLAPS

\* The least-number principle, for a set where the library's has a predicate.
LEMMA LeastNatural ==
  ASSUME NEW S \in SUBSET Nat, S # {}
  PROVE  \E m \in S : \A n \in S : m <= n
  <1> DEFINE R == {ss \in Nat \X Nat : ss[1] < ss[2]}
  <1>1. IsWellFoundedOn(R, Nat)
    BY NatLessThanWellFounded DEF OpToRel
  <1> HIDE DEF R
  <1>2. PICK m \in S : \A n \in S : ~ (<<n, m>> \in R)
    BY <1>1, WFMin
  <1>3. ASSUME NEW n \in S
        PROVE  m <= n
    <2>1. n < m => <<n, m>> \in R
      BY DEF R
    <2>2. QED
      BY <1>2, <2>1
  <1>4. QED
    BY <1>2, <1>3

\* The elements above x shrink as x grows, and a finite set has a smallest
\* subset among them: above the greatest element there is none.
LEMMA GreatestInteger ==
  ASSUME NEW S \in SUBSET Int, IsFiniteSet(S), S # {}
  PROVE  \E m \in S : \A n \in S : m >= n
  <1> DEFINE Above(x) == {y \in S : y > x}
             T        == {Above(x) : x \in S}
             R        == StrictSubsetOrdering(S)
  <1>1. IsWellFoundedOn(R, FiniteSubsetsOf(S))
    BY FS_StrictSubsetOrderingWellFounded
  <1>2. T \subseteq FiniteSubsetsOf(S)
    BY FS_FiniteSubsetsOfFinite
  <1>3. T # {}
    OBVIOUS
  <1>4. PICK A \in T : \A B \in T : ~ (<<B, A>> \in R)
    <2> HIDE DEF T, R
    <2> QED
      BY <1>1, <1>2, <1>3, WFMin
  <1>5. PICK m \in S : A = Above(m)
    OBVIOUS
  <1>6. ASSUME NEW n \in S, n > m
        PROVE  FALSE
    <2>1. Above(n) \subseteq Above(m) /\ n \in Above(m) /\ n \notin Above(n)
      <3>1. n \in Int /\ m \in Int /\ ~ (n > n)
        OBVIOUS
      <3>2. \A y \in S : y > n => y > m
        BY <1>6, <3>1
      <3>3. QED
        BY <1>6, <3>1, <3>2
    <2>2. <<Above(n), Above(m)>> \in R
      <3>1. Above(n) \in SUBSET S /\ Above(m) \in SUBSET S /\ Above(n) # Above(m)
        BY <2>1
      <3> HIDE DEF Above
      <3>2. QED
        BY <2>1, <3>1 DEF StrictSubsetOrdering
    <2>3. QED
      BY <1>4, <1>5, <2>2
  <1>7. QED
    BY <1>6

LEMMA MaxOfIntegers ==
  ASSUME NEW S \in SUBSET Int, IsFiniteSet(S), S # {}
  PROVE  Max(S) \in S /\ \A n \in S : Max(S) >= n
  BY GreatestInteger DEF Max

\* The same for a set of consecutive naturals' subset and for the image of one.
LEMMA MaxOfRange ==
  ASSUME NEW N \in Nat, NEW S \in SUBSET (1 .. N), S # {}
  PROVE  Max(S) \in S /\ \A n \in S : Max(S) >= n
  <1>1. IsFiniteSet(1 .. N)
    BY FS_Interval
  <1>2. IsFiniteSet(S)
    BY <1>1, FS_Subset
  <1>3. S \in SUBSET Int
    OBVIOUS
  <1>4. QED
    BY <1>2, <1>3, MaxOfIntegers

LEMMA MaxOfTwo ==
  ASSUME NEW a \in Int, NEW b \in Int
  PROVE  Max({a, b}) = IF a >= b THEN a ELSE b
  <1>1. \E m \in {a, b} : \A n \in {a, b} : m >= n
    OBVIOUS
  <1>2. Max({a, b}) \in {a, b} /\ \A n \in {a, b} : Max({a, b}) >= n
    BY <1>1 DEF Max
  <1>3. QED
    BY <1>2

LEMMA MinOfTwo ==
  ASSUME NEW a \in Int, NEW b \in Int
  PROVE  Min({a, b}) = IF a <= b THEN a ELSE b
  <1>1. \E m \in {a, b} : \A n \in {a, b} : m <= n
    OBVIOUS
  <1>2. Min({a, b}) \in {a, b} /\ \A n \in {a, b} : Min({a, b}) <= n
    BY <1>1 DEF Min
  <1>3. QED
    BY <1>2

-----------------------------------------------------------------------------
(* Induction over finite sets, again with a set where the library has a        *)
(* predicate: among some subsets of a finite set, one has none below it.       *)

LEMMA SmallestSubset ==
  ASSUME NEW S, IsFiniteSet(S), NEW B \in SUBSET (SUBSET S), B # {}
  PROVE  \E T \in B : \A U \in SUBSET T : U # T => U \notin B
  <1> DEFINE R == StrictSubsetOrdering(S)
  <1>1. IsWellFoundedOn(R, FiniteSubsetsOf(S))
    BY FS_StrictSubsetOrderingWellFounded
  <1>2. B \subseteq FiniteSubsetsOf(S)
    BY FS_FiniteSubsetsOfFinite
  <1> HIDE DEF R
  <1>3. PICK T \in B : \A U \in B : ~ (<<U, T>> \in R)
    BY <1>1, <1>2, WFMin
  <1>4. ASSUME NEW U \in SUBSET T, U # T, U \in B
        PROVE  FALSE
    <2>1. <<U, T>> \in R
      BY <1>4 DEF R, StrictSubsetOrdering
    <2>2. QED
      BY <1>3, <1>4, <2>1
  <1>5. QED
    BY <1>3, <1>4

-----------------------------------------------------------------------------
(* Folds.  The folds of the community modules take the elements of a set in    *)
(* the order in which a choice c yields them; a function g with the folds of   *)
(* all subsets satisfies Folds, for an H that adds an element to a fold.       *)

Folds(g, base, H, c, S) ==
  g = [t \in SUBSET S |-> IF t = {} THEN base ELSE H[<<t, g[t \ {c[t]}]>>]]

Chooses(c, S) == \A t \in SUBSET S : t # {} => c[t] \in t

LEMMA FoldsAreUnique ==
  ASSUME NEW S, IsFiniteSet(S), NEW T, NEW base, NEW H,
         NEW c, Chooses(c, S), Chooses(c, T),
         NEW g, NEW h, Folds(g, base, H, c, S), Folds(h, base, H, c, T)
  PROVE  \A t \in SUBSET S : t \in SUBSET T => g[t] = h[t]
  <1>1. g[{}] = base /\ \A t \in SUBSET S : t # {} => g[t] = H[<<t, g[t \ {c[t]}]>>]
    BY DEF Folds, Chooses
  <1>2. h[{}] = base /\ \A t \in SUBSET T : t # {} => h[t] = H[<<t, h[t \ {c[t]}]>>]
    BY DEF Folds, Chooses
  <1> DEFINE B == {t \in SUBSET S : t \in SUBSET T /\ g[t] # h[t]}
  <1> SUFFICES ASSUME B # {}
               PROVE  FALSE
    OBVIOUS
  <1>3. PICK t \in B : \A u \in SUBSET t : u # t => u \notin B
    <2>1. B \in SUBSET (SUBSET S)
      OBVIOUS
    <2> HIDE DEF B
    <2>2. QED
      BY <2>1, SmallestSubset
  <1>4. t # {}
    BY <1>1, <1>2
  <1>5. c[t] \in t /\ t \ {c[t]} \in SUBSET t /\ t \ {c[t]} # t
    BY <1>4 DEF Chooses
  <1>6. g[t \ {c[t]}] = h[t \ {c[t]}]
    BY <1>3, <1>5
  <1>7. QED
    BY <1>1, <1>2, <1>4, <1>6

LEMMA FoldsExist ==
  ASSUME NEW S, IsFiniteSet(S), NEW base, NEW H, NEW c, Chooses(c, S)
  PROVE  \E g : Folds(g, base, H, c, S)
  <1> DEFINE B == {T \in SUBSET S : ~ \E g : Folds(g, base, H, c, T)}
  <1> SUFFICES ASSUME B # {}
               PROVE  FALSE
    OBVIOUS
  <1>1. B \in SUBSET (SUBSET S)
    OBVIOUS
  <1>2. PICK T \in B : \A U \in SUBSET T : U # T => U \notin B
    <2> HIDE DEF B
    <2>1. QED
      BY <1>1, SmallestSubset
  <1>3. T \in SUBSET S /\ (~ \E g : Folds(g, base, H, c, T))
    OBVIOUS
  <1> DEFINE G(U) == CHOOSE g : Folds(g, base, H, c, U)
  <1>4. \A U \in SUBSET T : U # T => Folds(G(U), base, H, c, U)
    BY <1>2, <1>3
  <1> HIDE DEF B, G
  <1>5. \A U \in SUBSET T : IsFiniteSet(U) /\ Chooses(c, U)
    <2>1. \A U \in SUBSET T : U \in SUBSET S
      BY <1>3
    <2>2. QED
      BY <2>1, FS_Subset DEF Chooses
  <1>6. ASSUME NEW U \in SUBSET T, U # T, U # {}
        PROVE  G(U)[U] = H[<<U, G(U \ {c[U]})[U \ {c[U]}]>>]
    <2> DEFINE V == U \ {c[U]}
    <2>1. c[U] \in U /\ V \in SUBSET U /\ V \in SUBSET T /\ V # T
      BY <1>5, <1>6 DEF Chooses
    <2>2. Folds(G(U), base, H, c, U) /\ Folds(G(V), base, H, c, V)
      BY <1>4, <1>6, <2>1
    <2>3. G(U)[U] = H[<<U, G(U)[V]>>]
      <3>1. PICK g : g = G(U)
        OBVIOUS
      <3>2. \A t \in SUBSET U : t # {} => g[t] = H[<<t, g[t \ {c[t]}]>>]
        BY <1>5, <2>2, <3>1 DEF Folds, Chooses
      <3>3. QED
        BY <1>6, <3>1, <3>2
    <2>4. G(U)[V] = G(V)[V]
      <3> HIDE DEF V
      <3>1. QED
        BY <1>5, <2>1, <2>2, FoldsAreUnique
    <2>5. QED
      BY <2>3, <2>4
  <1>7. {} # T => G({})[{}] = base
    <2> SUFFICES ASSUME {} # T
                 PROVE  G({})[{}] = base
      OBVIOUS
    <2>1. PICK g : g = G({})
      OBVIOUS
    <2>2. Folds(g, base, H, c, {}) /\ Chooses(c, {})
      BY <1>4, <1>5, <2>1
    <2>3. g[{}] = base
      BY <2>2 DEF Folds
    <2>4. QED
      BY <2>1, <2>3
  <1> DEFINE last == IF T = {} THEN base ELSE H[<<T, G(T \ {c[T]})[T \ {c[T]}]>>]
             h == [t \in SUBSET T |-> IF t = T THEN last ELSE G(t)[t]]
  <1>8. ASSUME NEW t \in SUBSET T
        PROVE  h[t] = IF t = {} THEN base ELSE H[<<t, h[t \ {c[t]}]>>]
    <2>1. CASE t = {}
      BY <1>7, <2>1
    <2>2. CASE t # {}
      <3>1. c[t] \in t /\ t \ {c[t]} \in SUBSET T /\ t \ {c[t]} # T
        BY <1>5, <2>2 DEF Chooses
      <3>2. h[t \ {c[t]}] = G(t \ {c[t]})[t \ {c[t]}]
        BY <3>1
      <3>3. h[t] = H[<<t, G(t \ {c[t]})[t \ {c[t]}]>>]
        BY <1>6, <2>2
      <3>4. QED
        BY <2>2, <3>2, <3>3
    <2>3. QED
      BY <2>1, <2>2
  <1>9. Folds(h, base, H, c, T)
    <2>1. h = [t \in SUBSET T |-> h[t]]
      OBVIOUS
    <2> HIDE DEF h
    <2>2. QED
      BY <1>8, <2>1 DEF Folds
  <1>10. QED
    BY <1>3, <1>9

\* Folds stay in a set that contains the base and is closed under H.
LEMMA FoldsAreTyped ==
  ASSUME NEW S, IsFiniteSet(S), NEW V, NEW base \in V, NEW H \in [(SUBSET S) \X V -> V],
         NEW c, Chooses(c, S), NEW g, Folds(g, base, H, c, S)
  PROVE  \A t \in SUBSET S : g[t] \in V
  <1>1. g[{}] = base /\ \A t \in SUBSET S : t # {} => g[t] = H[<<t, g[t \ {c[t]}]>>]
    BY DEF Folds, Chooses
  <1> DEFINE B == {t \in SUBSET S : g[t] \notin V}
  <1> SUFFICES ASSUME B # {}
               PROVE  FALSE
    OBVIOUS
  <1>2. PICK t \in B : \A u \in SUBSET t : u # t => u \notin B
    <2>1. B \in SUBSET (SUBSET S)
      OBVIOUS
    <2> HIDE DEF B
    <2>2. QED
      BY <2>1, SmallestSubset
  <1>3. t # {}
    BY <1>1
  <1>4. c[t] \in t /\ t \ {c[t]} \in SUBSET t /\ t \ {c[t]} # t
    BY <1>3 DEF Chooses
  <1>5. g[t \ {c[t]}] \in V
    BY <1>2, <1>4
  <1>6. g[t] = H[<<t, g[t \ {c[t]}]>>]
    BY <1>1, <1>3
  <1>7. QED
    BY <1>5, <1>6

-----------------------------------------------------------------------------
(* Sums: the folds that add f.                                                 *)

Sums(g, f, c, S) ==
  g = [t \in SUBSET S |-> IF t = {} THEN 0 ELSE f[c[t]] + g[t \ {c[t]}]]

Integral(f, S) == \A x \in S : f[x] \in Int

LEMMA SumsExist ==
  ASSUME NEW S, IsFiniteSet(S), NEW f, Integral(f, S), NEW c, Chooses(c, S)
  PROVE  \E g : Sums(g, f, c, S)
  <1> DEFINE H == [p \in (SUBSET S) \X Int |-> IF p[1] = {} THEN 0 ELSE f[c[p[1]]] + p[2]]
  <1>1. H \in [(SUBSET S) \X Int -> Int]
    BY DEF Integral, Chooses
  <1>2. \A t \in SUBSET S : \A n \in Int : t # {} => H[<<t, n>>] = f[c[t]] + n
    OBVIOUS
  <1> HIDE DEF H
  <1>3. PICK g : Folds(g, 0, H, c, S)
    BY FoldsExist
  <1>4. \A t \in SUBSET S : g[t] \in Int
    BY <1>1, <1>3, FoldsAreTyped
  <1>5. \A t \in SUBSET S : t # {} => H[<<t, g[t \ {c[t]}]>>] = f[c[t]] + g[t \ {c[t]}]
    BY <1>2, <1>4
  <1>6. Sums(g, f, c, S)
    BY <1>3, <1>5 DEF Folds, Sums
  <1>7. QED
    BY <1>6

AnyOrder(g, f, S) == \A t \in SUBSET S : \A x \in t : g[t] = f[x] + g[t \ {x}]

LEMMA SumsAreInt ==
  ASSUME NEW S, IsFiniteSet(S), NEW f, Integral(f, S),
         NEW c, Chooses(c, S), NEW g, Sums(g, f, c, S)
  PROVE  \A t \in SUBSET S : g[t] \in Int
  <1>1. g[{}] = 0 /\ \A t \in SUBSET S : t # {} => g[t] = f[c[t]] + g[t \ {c[t]}]
    BY DEF Sums, Chooses
  <1> DEFINE B == {t \in SUBSET S : g[t] \notin Int}
  <1> SUFFICES ASSUME B # {}
               PROVE  FALSE
    OBVIOUS
  <1>2. PICK t \in B : \A u \in SUBSET t : u # t => u \notin B
    <2>1. B \in SUBSET (SUBSET S)
      OBVIOUS
    <2> HIDE DEF B
    <2>2. QED
      BY <2>1, SmallestSubset
  <1>3. t \in SUBSET S /\ ~ (g[t] \in Int)
    OBVIOUS
  <1>4. t # {}
    <2>1. g[{}] \in Int
      BY <1>1
    <2> HIDE DEF B
    <2>2. QED
      BY <1>3, <2>1
  <1>5. c[t] \in t /\ t \ {c[t]} \in SUBSET t /\ t \ {c[t]} # t
    BY <1>4 DEF Chooses
  <1>6. g[t \ {c[t]}] \in Int /\ f[c[t]] \in Int
    BY <1>2, <1>5 DEF Integral
  <1>7. g[t] = f[c[t]] + g[t \ {c[t]}]
    BY <1>1, <1>3, <1>4
  <1> HIDE DEF B
  <1>8. QED
    BY <1>3, <1>6, <1>7

\* The order of the elements does not matter.
LEMMA SumsAnyOrder ==
  ASSUME NEW S, IsFiniteSet(S), NEW f, Integral(f, S),
         NEW c, Chooses(c, S), NEW g, Sums(g, f, c, S)
  PROVE  AnyOrder(g, f, S)
  <1>1. g[{}] = 0 /\ \A t \in SUBSET S : t # {} => g[t] = f[c[t]] + g[t \ {c[t]}]
    BY DEF Sums, Chooses
  <1>2. \A t \in SUBSET S : g[t] \in Int
    BY SumsAreInt
  <1> DEFINE B == {t \in SUBSET S : \E x \in t : g[t] # f[x] + g[t \ {x}]}
  <1> SUFFICES ASSUME B # {}
               PROVE  FALSE
    BY DEF AnyOrder
  <1>3. PICK t \in B : \A u \in SUBSET t : u # t => u \notin B
    <2>1. B \in SUBSET (SUBSET S)
      OBVIOUS
    <2> HIDE DEF B
    <2>2. QED
      BY <2>1, SmallestSubset
  <1>4. PICK x \in t : g[t] # f[x] + g[t \ {x}]
    OBVIOUS
  <1>5. PICK y \in t : y = c[t]
    BY <1>4 DEF Chooses
  <1>6. g[t] = f[y] + g[t \ {y}]
    BY <1>1, <1>4, <1>5
  <1>7. x # y
    BY <1>4, <1>6
  <1> DEFINE tx == t \ {x}
             ty == t \ {y}
             u  == (t \ {x}) \ {y}
  <1>8. tx \in SUBSET t /\ ty \in SUBSET t /\ tx # t /\ ty # t /\ y \in tx /\ x \in ty
        /\ ty \ {x} = u /\ tx \ {y} = u
    BY <1>4, <1>7
  <1> HIDE DEF tx, ty, u
  <1>9. g[ty] = f[x] + g[u] /\ g[tx] = f[y] + g[u]
    <2>1. \A v \in SUBSET t : v # t => \A z \in v : g[v] = f[z] + g[v \ {z}]
      <3>1. t \in SUBSET S
        BY <1>3
      <3>2. \A v \in SUBSET t : v # t => v \notin B
        BY <1>3
      <3>3. \A v \in SUBSET S : v \notin B => \A z \in v : g[v] = f[z] + g[v \ {z}]
        OBVIOUS
      <3> HIDE DEF B
      <3>4. QED
        BY <3>1, <3>2, <3>3
    <2> HIDE DEF B
    <2>2. g[ty] = f[x] + g[ty \ {x}] /\ g[tx] = f[y] + g[tx \ {y}]
      BY <1>8, <2>1
    <2>3. QED
      BY <1>8, <2>2
  <1>10. g[u] \in Int /\ f[x] \in Int /\ f[y] \in Int
    BY <1>2, <1>8 DEF Integral
  <1>11. g[t] = f[x] + g[tx]
    BY <1>6, <1>9, <1>10 DEF ty
  <1>12. QED
    BY <1>4, <1>11 DEF tx

\* Neither do the choice and the values elsewhere.
LEMMA SumsAgree ==
  ASSUME NEW S, IsFiniteSet(S), NEW f, Integral(f, S),
         NEW c, Chooses(c, S), NEW g, Sums(g, f, c, S),
         NEW T, IsFiniteSet(T), NEW e, Integral(e, T),
         NEW d, Chooses(d, T), NEW h, Sums(h, e, d, T),
         S \subseteq T, \A x \in S : f[x] = e[x]
  PROVE  \A t \in SUBSET S : g[t] = h[t]
  <1>1. g[{}] = 0 /\ h[{}] = 0
    BY DEF Sums
  <1>2. AnyOrder(g, f, S)
    BY SumsAnyOrder
  <1>3. AnyOrder(h, e, T)
    BY SumsAnyOrder
  <1> DEFINE B == {t \in SUBSET S : g[t] # h[t]}
  <1> SUFFICES ASSUME B # {}
               PROVE  FALSE
    OBVIOUS
  <1>4. PICK t \in B : \A u \in SUBSET t : u # t => u \notin B
    <2>1. B \in SUBSET (SUBSET S)
      OBVIOUS
    <2> HIDE DEF B
    <2>2. QED
      BY <2>1, SmallestSubset
  <1>5. PICK x \in t : TRUE
    BY <1>1
  <1>6. t \ {x} \in SUBSET t /\ t \ {x} # t
    BY <1>5
  <1>7. g[t \ {x}] = h[t \ {x}]
    BY <1>4, <1>6
  <1>8. g[t] = f[x] + g[t \ {x}] /\ h[t] = e[x] + h[t \ {x}]
    BY <1>2, <1>3, <1>5 DEF AnyOrder
  <1>9. QED
    BY <1>7, <1>8

-----------------------------------------------------------------------------
(* The sum of f over a set, as the community modules compute it. *)

SumOf(f, S) == MapThenSumSet(LAMBDA x : f[x], S)

LEMMA SumOfIsSums ==
  ASSUME NEW S, IsFiniteSet(S), NEW f, Integral(f, S)
  PROVE  \E c, g : Chooses(c, S) /\ Sums(g, f, c, S) /\ SumOf(f, S) = g[S]
  <1> DEFINE Raw(g) == g = [s \in SUBSET S |-> IF s = {} THEN 0
                                               ELSE f[CHOOSE x \in s : TRUE]
                                                      + g[s \ {CHOOSE x \in s : TRUE}]]
             c == [s \in SUBSET S |-> CHOOSE x \in s : TRUE]
             G == CHOOSE g : Raw(g)
  <1>1. SumOf(f, S) = G[S]
    BY DEF SumOf, MapThenSumSet, MapThenFoldSet
  <1>2. Chooses(c, S)
    BY DEF Chooses
  <1>3. \A g : Raw(g) <=> Sums(g, f, c, S)
    BY DEF Sums
  <1>4. \E g : Sums(g, f, c, S)
    <2> HIDE DEF c
    <2>1. QED
      BY <1>2, SumsExist
  <1> HIDE DEF Raw, c
  <1>5. Raw(G)
    BY <1>3, <1>4
  <1>6. QED
    BY <1>1, <1>2, <1>3, <1>5

\* Whatever the choice, the sum of all is the same.
LEMMA SumsOfAll ==
  ASSUME NEW S, IsFiniteSet(S), NEW f, Integral(f, S),
         NEW c, Chooses(c, S), NEW g, Sums(g, f, c, S)
  PROVE  g[S] = SumOf(f, S)
  <1>1. PICK d, h : Chooses(d, S) /\ Sums(h, f, d, S) /\ SumOf(f, S) = h[S]
    BY SumOfIsSums
  <1>2. S \subseteq S /\ S \in SUBSET S
    OBVIOUS
  <1>3. QED
    BY <1>1, <1>2, SumsAgree

LEMMA SumOfRules ==
  ASSUME NEW S, IsFiniteSet(S), NEW f, Integral(f, S)
  PROVE  /\ SumOf(f, S) \in Int
         /\ S = {} => SumOf(f, S) = 0
         /\ \A x \in S : SumOf(f, S) = f[x] + SumOf(f, S \ {x})
  <1>1. PICK c, g : Chooses(c, S) /\ Sums(g, f, c, S) /\ SumOf(f, S) = g[S]
    BY SumOfIsSums
  <1>2. SumOf(f, S) \in Int
    BY <1>1, SumsAreInt
  <1>3. S = {} => SumOf(f, S) = 0
    BY <1>1 DEF Sums
  <1>4. ASSUME NEW x \in S
        PROVE  SumOf(f, S) = f[x] + SumOf(f, S \ {x})
    <2> DEFINE R == S \ {x}
    <2>1. IsFiniteSet(R) /\ R \subseteq S /\ R \in SUBSET R /\ Integral(f, R)
      BY FS_Subset DEF Integral
    <2> HIDE DEF R
    <2>2. PICK d, h : Chooses(d, R) /\ Sums(h, f, d, R) /\ SumOf(f, R) = h[R]
      BY <2>1, SumOfIsSums
    <2>3. h[R] = g[R]
      BY <1>1, <2>1, <2>2, SumsAgree
    <2>4. g[S] = f[x] + g[R]
      BY <1>1, SumsAnyOrder DEF R, AnyOrder
    <2>5. QED
      BY <1>1, <2>2, <2>3, <2>4 DEF R
  <1>5. QED
    BY <1>2, <1>3, <1>4

LEMMA SumOfAgrees ==
  ASSUME NEW S, IsFiniteSet(S), NEW f, NEW e, Integral(f, S), \A x \in S : f[x] = e[x]
  PROVE  SumOf(f, S) = SumOf(e, S)
  <1>1. Integral(e, S) /\ S \subseteq S /\ S \in SUBSET S
    BY DEF Integral
  <1>2. PICK c, g : Chooses(c, S) /\ Sums(g, f, c, S) /\ SumOf(f, S) = g[S]
    BY SumOfIsSums
  <1>3. PICK d, h : Chooses(d, S) /\ Sums(h, e, d, S) /\ SumOf(e, S) = h[S]
    BY <1>1, SumOfIsSums
  <1>4. QED
    BY <1>1, <1>2, <1>3, SumsAgree

\* A sum of no more terms, none of them greater, is not greater.
LEMMA SumOfAtMost ==
  ASSUME NEW S, IsFiniteSet(S), NEW f, NEW e, Integral(f, S), Integral(e, S),
         \A x \in S : f[x] <= e[x]
  PROVE  SumOf(f, S) <= SumOf(e, S)
  <1> DEFINE B == {t \in SUBSET S : ~ (SumOf(f, t) <= SumOf(e, t))}
  <1> SUFFICES ASSUME B # {}
               PROVE  FALSE
    OBVIOUS
  <1>1. PICK t \in B : \A u \in SUBSET t : u # t => u \notin B
    <2>1. B \in SUBSET (SUBSET S)
      OBVIOUS
    <2> HIDE DEF B
    <2>2. QED
      BY <2>1, SmallestSubset
  <1>2. t \in SUBSET S /\ ~ (SumOf(f, t) <= SumOf(e, t))
    OBVIOUS
  <1>3. \A u \in SUBSET t : u # t => SumOf(f, u) <= SumOf(e, u)
    BY <1>1, <1>2
  <1> HIDE DEF B
  <1>4. IsFiniteSet(t) /\ Integral(f, t) /\ Integral(e, t)
    BY <1>2, FS_Subset DEF Integral
  <1>5. /\ t = {} => SumOf(f, t) = 0
        /\ \A x \in t : SumOf(f, t) = f[x] + SumOf(f, t \ {x})
    BY <1>4, SumOfRules
  <1>6. /\ t = {} => SumOf(e, t) = 0
        /\ \A x \in t : SumOf(e, t) = e[x] + SumOf(e, t \ {x})
    BY <1>4, SumOfRules
  <1>7. PICK x \in t : TRUE
    BY <1>2, <1>5, <1>6
  <1> DEFINE r == t \ {x}
  <1>8. r \in SUBSET t /\ r # t /\ IsFiniteSet(r) /\ Integral(f, r) /\ Integral(e, r)
    BY <1>4, FS_Subset DEF Integral
  <1>9. SumOf(f, t) = f[x] + SumOf(f, r) /\ SumOf(e, t) = e[x] + SumOf(e, r)
    BY <1>5, <1>6
  <1> HIDE DEF r
  <1>10. SumOf(f, r) <= SumOf(e, r)
    BY <1>3, <1>8
  <1>11. SumOf(f, r) \in Int /\ SumOf(e, r) \in Int
    BY <1>8, SumOfRules
  <1>12. f[x] \in Int /\ e[x] \in Int /\ f[x] <= e[x]
    BY <1>2, <1>4 DEF Integral
  <1>13. QED
    BY <1>2, <1>9, <1>10, <1>11, <1>12

LEMMA SumOfAdd ==
  ASSUME NEW S, IsFiniteSet(S), NEW f, NEW x, Integral(f, S \cup {x}), x \notin S
  PROVE  SumOf(f, S \cup {x}) = f[x] + SumOf(f, S)
  <1> DEFINE T == S \cup {x}
  <1>1. IsFiniteSet(T) /\ x \in T /\ T \ {x} = S
    BY FS_AddElement
  <1> HIDE DEF T
  <1>2. Integral(f, T)
    BY DEF T
  <1>3. SumOf(f, T) = f[x] + SumOf(f, T \ {x})
    BY <1>1, <1>2, SumOfRules
  <1>4. QED
    BY <1>1, <1>3 DEF T

\* A sum of naturals over a part is not greater than over the whole.
LEMMA SumOfSubset ==
  ASSUME NEW S, IsFiniteSet(S), NEW f, \A x \in S : f[x] \in Nat, NEW T \in SUBSET S
  PROVE  SumOf(f, T) \in Nat /\ SumOf(f, S) \in Nat /\ SumOf(f, T) <= SumOf(f, S)
  <1>1. ASSUME NEW U \in SUBSET S
        PROVE  IsFiniteSet(U) /\ Integral(f, U) /\ SumOf(f, U) \in Int
    <2>1. IsFiniteSet(U) /\ Integral(f, U)
      BY FS_Subset DEF Integral
    <2>2. QED
      BY <2>1, SumOfRules
  <1>2. ASSUME NEW V \in SUBSET S
        PROVE  \A U \in SUBSET S : V \subseteq U => SumOf(f, V) <= SumOf(f, U)
    <2> DEFINE B == {U \in SUBSET S : V \subseteq U /\ ~ (SumOf(f, V) <= SumOf(f, U))}
    <2> SUFFICES ASSUME B # {}
                 PROVE  FALSE
      OBVIOUS
    <2>1. PICK t \in B : \A u \in SUBSET t : u # t => u \notin B
      <3>1. B \in SUBSET (SUBSET S)
        OBVIOUS
      <3> HIDE DEF B
      <3>2. QED
        BY <3>1, SmallestSubset
    <2>2. t \in SUBSET S /\ V \subseteq t /\ ~ (SumOf(f, V) <= SumOf(f, t))
      OBVIOUS
    <2>3. t # V
      <3>1. SumOf(f, V) <= SumOf(f, V)
        BY <1>1
      <3> HIDE DEF B
      <3>2. QED
        BY <2>2, <3>1
    <2>4. PICK x \in t : x \notin V
      BY <2>2, <2>3
    <2> DEFINE r == t \ {x}
    <2>5. r \in SUBSET t /\ r \in SUBSET S /\ r # t /\ V \subseteq r
      BY <2>2, <2>4
    <2>6. SumOf(f, V) <= SumOf(f, r)
      BY <2>1, <2>5
    <2> HIDE DEF B
    <2>7. SumOf(f, t) = f[x] + SumOf(f, r)
      BY <1>1, <2>2, SumOfRules
    <2>8. f[x] \in Nat /\ SumOf(f, r) \in Int /\ SumOf(f, V) \in Int
      BY <1>1, <2>2, <2>5
    <2> HIDE DEF r
    <2>9. QED
      BY <2>2, <2>6, <2>7, <2>8
  <1>3. SumOf(f, {}) = 0
    <2>1. {} \in SUBSET S
      OBVIOUS
    <2>2. QED
      BY <1>1, <2>1, SumOfRules
  <1>4. \A U \in SUBSET S : SumOf(f, U) \in Nat
    <2>1. ASSUME NEW U \in SUBSET S
          PROVE  0 <= SumOf(f, U)
      <3>1. {} \in SUBSET S /\ {} \subseteq U
        OBVIOUS
      <3>2. QED
        BY <1>2, <1>3, <3>1
    <2>2. QED
      BY <1>1, <2>1
  <1>5. QED
    BY <1>2, <1>4

LEMMA SumOfDisjoint ==
  ASSUME NEW S, IsFiniteSet(S), NEW T, IsFiniteSet(T), S \cap T = {},
         NEW f, Integral(f, S \cup T)
  PROVE  SumOf(f, S \cup T) = SumOf(f, S) + SumOf(f, T)
  <1>1. ASSUME NEW U \in SUBSET (S \cup T)
        PROVE  IsFiniteSet(U) /\ Integral(f, U) /\ SumOf(f, U) \in Int
    <2>1. IsFiniteSet(U) /\ Integral(f, U)
      BY FS_Subset, FS_Union DEF Integral
    <2>2. QED
      BY <2>1, SumOfRules
  <1> DEFINE B == {U \in SUBSET T : SumOf(f, S \cup U) # SumOf(f, S) + SumOf(f, U)}
  <1> SUFFICES ASSUME B # {}
               PROVE  FALSE
    OBVIOUS
  <1>2. PICK t \in B : \A u \in SUBSET t : u # t => u \notin B
    <2>1. B \in SUBSET (SUBSET T)
      OBVIOUS
    <2> HIDE DEF B
    <2>2. QED
      BY <2>1, SmallestSubset
  <1>3. t \in SUBSET T /\ SumOf(f, S \cup t) # SumOf(f, S) + SumOf(f, t)
    OBVIOUS
  <1>4. t # {}
    <2>1. {} \in SUBSET (S \cup T) /\ S \in SUBSET (S \cup T) /\ S \cup {} = S
      OBVIOUS
    <2>2. SumOf(f, {}) = 0 /\ SumOf(f, S) \in Int
      BY <1>1, <2>1, SumOfRules
    <2>3. SumOf(f, S \cup {}) = SumOf(f, S) + SumOf(f, {})
      BY <2>1, <2>2
    <2> HIDE DEF B
    <2>4. QED
      BY <1>3, <2>3
  <1>5. PICK x \in t : TRUE
    BY <1>4
  <1> DEFINE r == t \ {x}
             both == S \cup t
             rest == S \cup r
  <1>6. /\ r \in SUBSET t /\ r \in SUBSET T /\ r # t
        /\ x \in both /\ both \ {x} = rest
        /\ both \in SUBSET (S \cup T) /\ t \in SUBSET (S \cup T)
        /\ r \in SUBSET (S \cup T) /\ S \in SUBSET (S \cup T)
    BY <1>3, <1>5
  <1>7. SumOf(f, rest) = SumOf(f, S) + SumOf(f, r)
    BY <1>2, <1>6
  <1>8. SumOf(f, t) = f[x] + SumOf(f, r)
    BY <1>1, <1>6, SumOfRules
  <1> HIDE DEF B, both, rest
  <1>9. SumOf(f, both) = f[x] + SumOf(f, rest)
    BY <1>1, <1>6, SumOfRules
  <1>10. f[x] \in Int /\ SumOf(f, r) \in Int /\ SumOf(f, S) \in Int
    BY <1>1, <1>6 DEF Integral
  <1> HIDE DEF r
  <1>11. QED
    BY <1>3, <1>7, <1>8, <1>9, <1>10 DEF both

\* A sum whose terms go, one by one, into greater terms of another.
LEMMA SumOfInto ==
  ASSUME NEW S, IsFiniteSet(S), NEW f, \A x \in S : f[x] \in Nat,
         NEW T, IsFiniteSet(T), NEW e, \A y \in T : e[y] \in Nat,
         NEW h, \A x \in S : h[x] \in T /\ f[x] <= e[h[x]],
         \A x, y \in S : h[x] = h[y] => x = y
  PROVE  SumOf(f, S) <= SumOf(e, T)
  <1> DEFINE Into(U) == {h[x] : x \in U}
  <1>1. ASSUME NEW U \in SUBSET S
        PROVE  /\ IsFiniteSet(U) /\ Integral(f, U) /\ SumOf(f, U) \in Int
               /\ Into(U) \in SUBSET T /\ IsFiniteSet(Into(U)) /\ Integral(e, Into(U))
               /\ SumOf(e, Into(U)) \in Int
    <2>1. IsFiniteSet(U) /\ Integral(f, U) /\ Into(U) \in SUBSET T
      BY FS_Subset DEF Integral
    <2>2. IsFiniteSet(Into(U)) /\ Integral(e, Into(U))
      BY <2>1, FS_Subset DEF Integral
    <2> HIDE DEF Into
    <2>3. QED
      BY <2>1, <2>2, SumOfRules
  <1> DEFINE B == {U \in SUBSET S : ~ (SumOf(f, U) <= SumOf(e, Into(U)))}
  <1>2. B = {}
    <2> SUFFICES ASSUME B # {}
                 PROVE  FALSE
      OBVIOUS
    <2>1. PICK t \in B : \A u \in SUBSET t : u # t => u \notin B
      <3>1. B \in SUBSET (SUBSET S)
        OBVIOUS
      <3> HIDE DEF B
      <3>2. QED
        BY <3>1, SmallestSubset
    <2>2. t \in SUBSET S /\ ~ (SumOf(f, t) <= SumOf(e, Into(t)))
      OBVIOUS
    <2>3. t # {}
      <3>1. Into({}) = {} /\ {} \in SUBSET S
        OBVIOUS
      <3>2. SumOf(f, {}) = 0 /\ SumOf(e, {}) = 0
        <4>1. IsFiniteSet({}) /\ Integral(f, {}) /\ Integral(e, {})
          BY FS_EmptySet DEF Integral
        <4>2. QED
          BY <4>1, SumOfRules
      <3> HIDE DEF B, Into
      <3>3. SumOf(f, {}) <= SumOf(e, Into({}))
        BY <3>1, <3>2
      <3>4. QED
        BY <2>2, <3>3
    <2>4. PICK x \in t : TRUE
      BY <2>3
    <2> DEFINE r == t \ {x}
    <2>5. r \in SUBSET t /\ r \in SUBSET S /\ r # t /\ x \in S
          /\ h[x] \in Into(t) /\ Into(t) \ {h[x]} = Into(r)
      BY <2>2, <2>4
    <2>6. SumOf(f, r) <= SumOf(e, Into(r))
      BY <2>1, <2>5
    <2> HIDE DEF B, Into
    <2>7. SumOf(f, t) = f[x] + SumOf(f, r)
      BY <1>1, <2>2, SumOfRules
    <2>8. SumOf(e, Into(t)) = e[h[x]] + SumOf(e, Into(r))
      <3>1. PICK A, y : A = Into(t) /\ y = h[x]
        OBVIOUS
      <3>2. IsFiniteSet(A) /\ Integral(e, A) /\ y \in A /\ A \ {y} = Into(r)
        BY <1>1, <2>2, <2>5, <3>1
      <3>3. SumOf(e, A) = e[y] + SumOf(e, A \ {y})
        BY <3>2, SumOfRules
      <3>4. QED
        BY <3>1, <3>2, <3>3
    <2>9. /\ f[x] \in Nat /\ e[h[x]] \in Nat /\ f[x] <= e[h[x]]
          /\ SumOf(f, r) \in Int /\ SumOf(e, Into(r)) \in Int
      BY <1>1, <2>5
    <2> HIDE DEF r
    <2>10. QED
      BY <2>2, <2>6, <2>7, <2>8, <2>9
  <1>3. S \in SUBSET S /\ SumOf(f, S) <= SumOf(e, Into(S))
    BY <1>2
  <1> HIDE DEF B, Into
  <1>4. SumOf(e, Into(S)) <= SumOf(e, T) /\ SumOf(e, T) \in Int
    BY <1>1, <1>3, SumOfSubset
  <1>5. QED
    BY <1>1, <1>3, <1>4

Class(k, S, i) == {x \in S : k[x] = i}

\* A sum taken class by class, k[x] the class of x, with c more for each class.
LEMMA SumOfClasses ==
  ASSUME NEW I, IsFiniteSet(I), NEW c \in Int,
         NEW S, IsFiniteSet(S), NEW f, Integral(f, S), NEW k, \A x \in S : k[x] \in I,
         NEW e, \A i \in I : e[i] = c + SumOf(f, Class(k, S, i))
  PROVE  SumOf(e, I) = Cardinality(I) * c + SumOf(f, S)
  <1> DEFINE In(J) == {x \in S : k[x] \in J}
  <1>1. ASSUME NEW J \in SUBSET I
        PROVE  /\ In(J) \subseteq S /\ IsFiniteSet(In(J)) /\ Integral(f, In(J))
               /\ SumOf(f, In(J)) \in Int /\ IsFiniteSet(J) /\ Cardinality(J) \in Nat
    <2>1. In(J) \subseteq S /\ IsFiniteSet(In(J)) /\ Integral(f, In(J)) /\ IsFiniteSet(J)
      BY FS_Subset DEF Integral
    <2> HIDE DEF In
    <2>2. QED
      BY <2>1, SumOfRules, FS_CardinalityType
  <1>2. \A i \in I : Class(k, S, i) = In({i})
    BY DEF Class
  <1>3. Integral(e, I)
    <2>1. \A i \in I : e[i] = c + SumOf(f, In({i})) /\ {i} \in SUBSET I
      BY <1>2
    <2> HIDE DEF In
    <2>2. ASSUME NEW i \in I
          PROVE  e[i] \in Int
      <3>1. SumOf(f, In({i})) \in Int
        BY <1>1, <2>1
      <3>2. QED
        BY <2>1, <3>1
    <2>3. QED
      BY <2>2 DEF Integral
  <1> DEFINE B == {J \in SUBSET I : SumOf(e, J) # Cardinality(J) * c + SumOf(f, In(J))}
  <1>4. B = {}
    <2> SUFFICES ASSUME B # {}
                 PROVE  FALSE
      OBVIOUS
    <2>1. PICK t \in B : \A u \in SUBSET t : u # t => u \notin B
      <3>1. B \in SUBSET (SUBSET I)
        OBVIOUS
      <3> HIDE DEF B
      <3>2. QED
        BY <3>1, SmallestSubset
    <2>2. t \in SUBSET I /\ SumOf(e, t) # Cardinality(t) * c + SumOf(f, In(t))
      OBVIOUS
    <2>3. t # {}
      <3>1. In({}) = {} /\ {} \in SUBSET I
        OBVIOUS
      <3>2. SumOf(e, {}) = 0 /\ SumOf(f, {}) = 0
        <4>1. IsFiniteSet({}) /\ Integral(f, {}) /\ Integral(e, {})
          BY FS_EmptySet DEF Integral
        <4>2. QED
          BY <4>1, SumOfRules
      <3>3. Cardinality({}) = 0 /\ 0 * c = 0
        BY FS_EmptySet
      <3>4. SumOf(e, {}) = Cardinality({}) * c + SumOf(f, In({}))
        <4> HIDE DEF In, B
        <4>1. QED
          BY <3>1, <3>2, <3>3
      <3> HIDE DEF B, In
      <3>5. QED
        BY <2>2, <3>4
    <2>4. PICK i \in t : TRUE
      BY <2>3
    <2> DEFINE r == t \ {i}
    <2>5. /\ r \in SUBSET t /\ r \in SUBSET I /\ r # t /\ i \in I /\ {i} \in SUBSET I
          /\ In(t) = In(r) \cup In({i}) /\ In(r) \cap In({i}) = {}
      BY <2>2, <2>4
    <2>6. SumOf(e, r) = Cardinality(r) * c + SumOf(f, In(r))
      BY <2>1, <2>5
    <2>7. e[i] = c + SumOf(f, In({i}))
      BY <1>2, <2>5
    <2> HIDE DEF B, In
    <2>8. SumOf(e, t) = e[i] + SumOf(e, r)
      <3>1. Integral(e, t)
        BY <1>3, <2>2 DEF Integral
      <3>2. QED
        BY <1>1, <2>2, <3>1, SumOfRules
    <2>9. SumOf(f, In(t)) = SumOf(f, In(r)) + SumOf(f, In({i}))
      <3>1. PICK A, C : A = In(r) /\ C = In({i})
        OBVIOUS
      <3>2. IsFiniteSet(A) /\ IsFiniteSet(C) /\ A \cap C = {} /\ In(t) = A \cup C
        BY <1>1, <2>5, <3>1
      <3>3. Integral(f, A \cup C)
        BY <1>1, <2>2, <3>2
      <3>4. SumOf(f, A \cup C) = SumOf(f, A) + SumOf(f, C)
        BY <3>2, <3>3, SumOfDisjoint
      <3>5. QED
        BY <3>1, <3>2, <3>4
    <2>10. Cardinality(t) = Cardinality(r) + 1
      BY <1>1, <2>2, <2>5, FS_RemoveElement
    <2>11. /\ Cardinality(r) \in Nat
           /\ SumOf(f, In(r)) \in Int /\ SumOf(f, In({i})) \in Int
      BY <1>1, <2>5
    <2> HIDE DEF r
    <2>12. (Cardinality(r) + 1) * c = Cardinality(r) * c + c /\ Cardinality(r) * c \in Int
      BY <2>11
    <2>13. QED
      BY <2>2, <2>6, <2>7, <2>8, <2>9, <2>10, <2>11, <2>12
  <1>5. In(I) = S /\ I \in SUBSET I
    OBVIOUS
  <1>6. QED
    BY <1>4, <1>5

-----------------------------------------------------------------------------
(* The sum of a sequence, as the community modules compute it. *)

SumOfSeq(seq) == FoldLeft(+, 0, seq)

LEMMA SumOfSeqIsSumOf ==
  ASSUME NEW seq \in Seq(Int)
  PROVE  SumOfSeq(seq) = SumOf(seq, DOMAIN seq)
  <1> DEFINE S == DOMAIN seq
             Raw(g) == g = [t \in SUBSET S |-> IF t = {} THEN 0
                                               ELSE g[t \ {Max(t)}] + seq[Max(t)]]
             c == [t \in SUBSET S |-> Max(t)]
             G == CHOOSE g : Raw(g)
  <1>1. SumOfSeq(seq) = G[S]
    BY DEF SumOfSeq, FoldLeft, MapThenFoldSet
  <1>2. IsFiniteSet(S) /\ Len(seq) \in Nat /\ S = 1 .. Len(seq)
    BY FS_Interval
  <1>3. Chooses(c, S)
    <2>1. ASSUME NEW t \in SUBSET S, t # {}
          PROVE  c[t] \in t
      BY <1>2, <2>1, MaxOfRange
    <2> HIDE DEF c
    <2>2. QED
      BY <2>1 DEF Chooses
  <1>4. Integral(seq, S)
    BY DEF Integral
  <1>5. PICK g : Sums(g, seq, c, S)
    <2> HIDE DEF c, S
    <2>1. QED
      BY <1>2, <1>3, <1>4, SumsExist
  <1>6. \A t \in SUBSET S : g[t] \in Int
    <2> HIDE DEF c, S
    <2>1. QED
      BY <1>2, <1>3, <1>4, <1>5, SumsAreInt
  <1>7. Raw(g)
    <2>1. g = [t \in SUBSET S |-> IF t = {} THEN 0 ELSE seq[c[t]] + g[t \ {c[t]}]]
      BY <1>5 DEF Sums
    <2>2. ASSUME NEW t \in SUBSET S, t # {}
          PROVE  seq[c[t]] + g[t \ {c[t]}] = g[t \ {Max(t)}] + seq[Max(t)]
      <3>1. c[t] = Max(t) /\ Max(t) \in S /\ t \ {Max(t)} \in SUBSET S
        BY <1>3, <2>2 DEF Chooses
      <3>2. seq[Max(t)] \in Int /\ g[t \ {Max(t)}] \in Int
        BY <1>4, <1>6, <3>1 DEF Integral
      <3>3. QED
        BY <3>1, <3>2
    <2> HIDE DEF c, S
    <2>3. QED
      BY <2>1, <2>2
  <1>8. Raw(G)
    <2> HIDE DEF Raw
    <2>1. QED
      BY <1>7
  <1>9. \A t \in SUBSET S : t # {} =>
          /\ Max(t) \in t /\ t \ {Max(t)} \in SUBSET t /\ t \ {Max(t)} # t
          /\ g[t] = g[t \ {Max(t)}] + seq[Max(t)] /\ G[t] = G[t \ {Max(t)}] + seq[Max(t)]
    <2>1. \A t \in SUBSET S : t # {} => Max(t) \in t
      BY <1>3 DEF Chooses
    <2> HIDE DEF G
    <2>2. QED
      BY <1>7, <1>8, <2>1
  <1>10. g[{}] = 0 /\ G[{}] = 0
    <2> HIDE DEF G
    <2>1. QED
      BY <1>7, <1>8
  <1>11. G[S] = g[S]
    <2> HIDE DEF G, S, Raw
    <2> DEFINE B == {t \in SUBSET S : G[t] # g[t]}
    <2> SUFFICES ASSUME B # {}
                 PROVE  FALSE
      OBVIOUS
    <2>1. PICK t \in B : \A u \in SUBSET t : u # t => u \notin B
      <3>1. B \in SUBSET (SUBSET S)
        OBVIOUS
      <3>2. IsFiniteSet(S)
        BY <1>2
      <3> HIDE DEF B
      <3>3. QED
        BY <3>1, <3>2, SmallestSubset
    <2>2. t # {}
      BY <1>10
    <2>3. G[t \ {Max(t)}] = g[t \ {Max(t)}]
      BY <1>9, <2>1, <2>2
    <2>4. QED
      BY <1>9, <2>2, <2>3
  <1>12. PICK d, h : Chooses(d, S) /\ Sums(h, seq, d, S) /\ SumOf(seq, S) = h[S]
    <2> HIDE DEF S
    <2>1. QED
      BY <1>2, <1>4, SumOfIsSums
  <1>13. h[S] = g[S]
    <2>1. S \subseteq S /\ S \in SUBSET S
      OBVIOUS
    <2> HIDE DEF S, c, Raw, G
    <2>2. QED
      BY <1>2, <1>3, <1>4, <1>5, <1>12, <2>1, SumsAgree
  <1>14. QED
    BY <1>1, <1>11, <1>12, <1>13

LEMMA SumOfSeqIsInt ==
  ASSUME NEW seq \in Seq(Int)
  PROVE  SumOfSeq(seq) \in Int
  <1> DEFINE S == DOMAIN seq
  <1>1. IsFiniteSet(S) /\ Integral(seq, S)
    BY FS_Interval DEF Integral
  <1> HIDE DEF S
  <1>2. SumOf(seq, S) \in Int
    BY <1>1, SumOfRules
  <1>3. QED
    BY <1>2, SumOfSeqIsSumOf DEF S

LEMMA SumOfAppended ==
  ASSUME NEW seq \in Seq(Int), NEW x \in Int
  PROVE  SumOfSeq(Append(seq, x)) = SumOfSeq(seq) + x
  <1> DEFINE S    == 1 .. Len(seq)
             more == Append(seq, x)
             n    == Len(seq) + 1
  <1>1. /\ DOMAIN seq = S /\ IsFiniteSet(S) /\ more \in Seq(Int)
        /\ DOMAIN more = S \cup {n} /\ n \notin S
        /\ more[n] = x /\ \A i \in S : more[i] = seq[i]
    <2>1. IsFiniteSet(S)
      BY FS_Interval
    <2>2. /\ more \in Seq(Int) /\ Len(more) = Len(seq) + 1
          /\ \A i \in 1 .. Len(seq) : more[i] = seq[i]
          /\ more[Len(seq) + 1] = x
      BY AppendProperties
    <2>3. Len(seq) \in Nat /\ DOMAIN seq = 1 .. Len(seq) /\ DOMAIN more = 1 .. Len(more)
      BY <2>2
    <2> HIDE DEF more
    <2>4. QED
      BY <2>1, <2>2, <2>3
  <1>2. Integral(seq, S) /\ Integral(more, S \cup {n}) /\ Integral(more, S)
    BY <1>1 DEF Integral
  <1>3. SumOfSeq(seq) = SumOf(seq, S) /\ SumOfSeq(more) = SumOf(more, S \cup {n})
    BY <1>1, SumOfSeqIsSumOf
  <1> HIDE DEF S, n, more
  <1>4. SumOf(more, S \cup {n}) = more[n] + SumOf(more, S)
    BY <1>1, <1>2, SumOfAdd
  <1>5. SumOf(seq, S) = SumOf(more, S)
    BY <1>1, <1>2, SumOfAgrees
  <1>6. SumOf(seq, S) \in Int
    BY <1>1, <1>2, SumOfRules
  <1>7. QED
    BY <1>1, <1>3, <1>4, <1>5, <1>6 DEF more
-----------------------------------------------------------------------------
(* Folds over sequences.  FoldLeft takes the last element off its domain, so   *)
(* that the folds over the prefixes are the values that a loop goes through.   *)

\* Induction on the steps of a loop, for those in a set P.
LEMMA StepByStep ==
  ASSUME NEW n \in Nat, NEW P, 0 \in P, \A k \in 1 .. n : k - 1 \in P => k \in P
  PROVE  0 .. n \subseteq P
  <1> DEFINE B == (0 .. n) \ P
  <1> SUFFICES ASSUME B # {}
               PROVE  FALSE
    OBVIOUS
  <1>1. PICK k \in B : \A m \in B : k <= m
    <2>1. B \in SUBSET Nat
      OBVIOUS
    <2> HIDE DEF B
    <2>2. QED
      BY <2>1, LeastNatural
  <1>2. k \in 1 .. n /\ k - 1 \in 0 .. n /\ k - 1 \notin B
    BY <1>1
  <1>3. QED
    BY <1>2

LEMMA LastOfPrefix ==
  ASSUME NEW n \in Nat, NEW k \in 1 .. n
  PROVE  /\ 1 .. k \in SUBSET (1 .. n) /\ 1 .. k # {}
         /\ Max(1 .. k) = k /\ (1 .. k) \ {k} = 1 .. (k - 1)
  <1>1. \A m \in 1 .. k : k >= m
    OBVIOUS
  <1>2. Max(1 .. k) \in 1 .. k /\ \A m \in 1 .. k : Max(1 .. k) >= m
    BY <1>1 DEF Max
  <1>3. QED
    BY <1>2

FoldsLeft(g, base, F, seq) ==
  g = [t \in SUBSET DOMAIN seq |->
         IF t = {} THEN base ELSE F[<<g[t \ {Max(t)}], seq[Max(t)]>>]]

\* The folds over the subsets of the domain exist, for a body F that is typed.
LEMMA FoldRuns ==
  ASSUME NEW A, NEW V, NEW base \in A, NEW F \in [A \X V -> A], NEW seq \in Seq(V)
  PROVE  \E g : /\ FoldsLeft(g, base, F, seq)
                /\ \A t \in SUBSET DOMAIN seq : g[t] \in A
  <1> DEFINE S == DOMAIN seq
             c == [t \in SUBSET S |-> Max(t)]
             H == [p \in (SUBSET S) \X A |->
                     IF p[1] = {} THEN base ELSE F[<<p[2], seq[Max(p[1])]>>]]
  <1>1. IsFiniteSet(S) /\ S = 1 .. Len(seq) /\ Len(seq) \in Nat /\ \A k \in S : seq[k] \in V
    BY FS_Interval
  <1>2. \A t \in SUBSET S : t # {} => Max(t) \in t
    BY <1>1, MaxOfRange
  <1>3. Chooses(c, S)
    BY <1>2 DEF Chooses
  <1>4. \A t \in SUBSET S : t # {} => seq[Max(t)] \in V
    BY <1>1, <1>2
  <1>5. H \in [(SUBSET S) \X A -> A]
    <2> HIDE DEF S
    <2>1. QED
      BY <1>4
  <1>6. PICK g : Folds(g, base, H, c, S)
    <2> HIDE DEF S, c, H
    <2>1. QED
      BY <1>1, <1>3, FoldsExist
  <1>7. \A t \in SUBSET S : g[t] \in A
    <2> HIDE DEF S, c, H
    <2>1. QED
      BY <1>1, <1>3, <1>5, <1>6, FoldsAreTyped
  <1>8. ASSUME NEW t \in SUBSET S, t # {}
        PROVE  H[<<t, g[t \ {c[t]}]>>] = F[<<g[t \ {Max(t)}], seq[Max(t)]>>]
    <2>1. c[t] = Max(t) /\ g[t \ {Max(t)}] \in A
      BY <1>7
    <2> HIDE DEF S, c
    <2>2. QED
      BY <2>1, <1>8
  <1> HIDE DEF c, H
  <1>9. g = [t \in SUBSET S |-> IF t = {} THEN base ELSE F[<<g[t \ {Max(t)}], seq[Max(t)]>>]]
    BY <1>6, <1>8 DEF Folds
  <1>10. QED
    BY <1>7, <1>9 DEF FoldsLeft
=============================================================================
