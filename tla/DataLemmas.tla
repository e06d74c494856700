----------------------------- MODULE DataLemmas -----------------------------
(***************************************************************************)
(* Lemmas about data that several proofs need.                             *)
(*                                                                         *)
(* Induction over the numbers, with a set in the place of the predicate.   *)
(*                                                                         *)
(* What MapThenSumSet adds up to, when each term is the size of a set and  *)
(* the sets are disjoint: the size of their union.  Two reports' counts    *)
(* are sums of this kind.  MapThenSumSet is a recursive function over the  *)
(* subsets of its argument.  The sizes of the unions satisfy its equation  *)
(* (SizesAdd), so that it is defined, and every function that does agrees  *)
(* with them (SizesUnique), by the well-foundedness of the strict subsets  *)
(* of a finite set.                                                        *)
(*                                                                         *)
(* Sums of any natural numbers, as sizes of sets made for the purpose      *)
(* (Things): what one term or one element more adds.                       *)
(***************************************************************************)
EXTENDS FiniteSetsExt, FiniteSetTheorems, TLAPS

-----------------------------------------------------------------------------
(* Induction over a set of numbers                                         *)

\* A set of numbers that is not empty has a least one.
LEMMA Least ==
  ASSUME NEW S, S \subseteq Nat, S # {}
  PROVE  \E n \in S : \A k \in S : n <= k
<1> DEFINE R == OpToRel(<, Nat)
<1>1. \A n, k \in Nat : <<k, n>> \notin R => n <= k
  BY DEF OpToRel
<1>2. IsWellFoundedOn(R, Nat)
  BY NatLessThanWellFounded, Zenon
<1> HIDE DEF R
<1>3. \E n \in S : \A k \in S : <<k, n>> \notin R
  BY <1>2, WFMin
<1> QED BY <1>1, <1>3

\* A set that has 0 and, with each number, the next has them all.
LEMMA Induction ==
  ASSUME NEW S, 0 \in S, \A n \in Nat : n \in S => n + 1 \in S
  PROVE  Nat \subseteq S
<1> SUFFICES ASSUME Nat \ S # {} PROVE FALSE
  OBVIOUS
<1>1. PICK n \in Nat \ S : \A k \in Nat \ S : n <= k
  BY Least
<1>2. n # 0 /\ n - 1 \in Nat
  BY <1>1
<1>3. n - 1 \in S
  BY <1>1, <1>2
<1> QED BY <1>1, <1>2, <1>3

-----------------------------------------------------------------------------
(* Sums                                                                    *)

\* The element that MapThenSumSet takes from a set
Pick(s) == CHOOSE x \in s : TRUE

\* The sets g[x] are finite, and disjoint for different x.
Disjoint(g, S) ==
  /\ \A x \in S : IsFiniteSet(g[x])
  /\ \A x, y \in S : g[x] \cap g[y] # {} => x = y

Joined(g, s) == UNION {g[x] : x \in s}

\* The sizes of the unions of the subsets of S
Sizes(g, S) == [s \in SUBSET S |-> Cardinality(Joined(g, s))]

\* f is the recursive function of a sum over S whose terms are v[x].
Sums(f, v, S) ==
  f = [s \in SUBSET S |-> IF s = {} THEN 0 ELSE v[Pick(s)] + f[s \ {Pick(s)}]]

\* Something can be picked from a set that is not empty.
LEMMA Picked ==
  ASSUME NEW s, s # {}
  PROVE  Pick(s) \in s
BY DEF Pick

\* The image of a finite set is finite.
LEMMA Images ==
  ASSUME NEW S, IsFiniteSet(S), NEW g
  PROVE  IsFiniteSet({g[x] : x \in S})
<1> DEFINE T == {g[x] : x \in S}
           f == [x \in S |-> g[x]]
<1>1. f \in Surjection(S, T)
  BY DEF Surjection
<1> QED
  BY <1>1, FS_Surjection

\* The size of a disjoint union, one set at a time
LEMMA JoinedSize ==
  ASSUME NEW S, IsFiniteSet(S), NEW g, Disjoint(g, S), NEW s \in SUBSET S,
         NEW x \in s
  PROVE  /\ IsFiniteSet(Joined(g, s))
         /\ Cardinality(Joined(g, s))
              = Cardinality(g[x]) + Cardinality(Joined(g, s \ {x}))
<1> DEFINE rest == s \ {x}
<1>1. ASSUME NEW t \in SUBSET S PROVE IsFiniteSet(Joined(g, t))
  <2>1. IsFiniteSet(t)
    BY FS_Subset
  <2>2. IsFiniteSet({g[y] : y \in t})
    BY <2>1, Images
  <2> QED
    BY <2>2, FS_UNION DEF Joined, Disjoint
<1>2. Joined(g, s) = g[x] \cup Joined(g, rest)
  BY DEF Joined
<1>3. g[x] \cap Joined(g, rest) = {}
  BY DEF Joined, Disjoint
<1>4. IsFiniteSet(g[x]) /\ IsFiniteSet(Joined(g, rest))
  BY <1>1 DEF Disjoint
<1>5. Cardinality(g[x] \cup Joined(g, rest))
        = Cardinality(g[x]) + Cardinality(Joined(g, rest)) - Cardinality({})
  BY <1>3, <1>4, FS_Union
<1>6. /\ Cardinality({}) = 0 /\ Cardinality(g[x]) \in Nat
      /\ Cardinality(Joined(g, rest)) \in Nat
  BY <1>4, FS_EmptySet, FS_CardinalityType
<1>7. IsFiniteSet(Joined(g, s))
  BY <1>1
<1> HIDE DEF rest
<1>8. Cardinality(Joined(g, s))
        = Cardinality(g[x]) + Cardinality(Joined(g, rest))
  BY <1>2, <1>5, <1>6
<1> QED
  BY <1>7, <1>8 DEF rest

\* The sizes satisfy the equation of the sum.
LEMMA SizesAdd ==
  ASSUME NEW S, IsFiniteSet(S), NEW g, Disjoint(g, S),
         NEW v, \A x \in S : v[x] = Cardinality(g[x])
  PROVE  Sums(Sizes(g, S), v, S)
<1>1. ASSUME NEW s \in SUBSET S
      PROVE  Cardinality(Joined(g, s))
               = IF s = {} THEN 0 ELSE v[Pick(s)] + Sizes(g, S)[s \ {Pick(s)}]
  <2>1. CASE s = {}
    <3>1. Joined(g, s) = {}
      BY <2>1 DEF Joined
    <3> QED
      BY <2>1, <3>1, FS_EmptySet
  <2>2. CASE s # {}
    <3>1. Pick(s) \in s /\ s \ {Pick(s)} \in SUBSET S
      BY <2>2, Picked
    <3>2. Cardinality(Joined(g, s))
            = Cardinality(g[Pick(s)]) + Cardinality(Joined(g, s \ {Pick(s)}))
      BY <3>1, JoinedSize
    <3> QED
      BY <2>2, <3>1, <3>2 DEF Sizes
  <2> QED
    BY <2>1, <2>2
<1> QED
  BY <1>1 DEF Sums, Sizes

\* Whatever satisfies that equation is the sizes.
LEMMA SizesUnique ==
  ASSUME NEW S, IsFiniteSet(S), NEW g, Disjoint(g, S),
         NEW v, \A x \in S : v[x] = Cardinality(g[x]),
         NEW f, Sums(f, v, S)
  PROVE  f[S] = Cardinality(Joined(g, S))
<1> DEFINE z == Sizes(g, S)
           Bad == {s \in SUBSET S : f[s] # z[s]}
           R == StrictSubsetOrdering(S)
<1>1. Sums(z, v, S)
  BY SizesAdd
<1>2. IsWellFoundedOn(R, SUBSET S)
  BY FS_StrictSubsetOrderingWellFounded, FS_FiniteSubsetsOfFinite
<1>3. ASSUME Bad # {} PROVE FALSE
  <2>1. Bad \subseteq SUBSET S
    OBVIOUS
  <2>2. PICK s \in Bad : \A t \in Bad : <<t, s>> \notin R
    <3> HIDE DEF Bad, R
    <3> QED BY <1>2, <1>3, <2>1, WFMin
  <2>3. s \in SUBSET S /\ f[s] # z[s]
    OBVIOUS
  <2>4. /\ f[s] = IF s = {} THEN 0 ELSE v[Pick(s)] + f[s \ {Pick(s)}]
        /\ z[s] = IF s = {} THEN 0 ELSE v[Pick(s)] + z[s \ {Pick(s)}]
    <3> HIDE DEF z
    <3> QED BY <1>1, <2>3 DEF Sums
  <2>5. s # {} /\ f[s \ {Pick(s)}] # z[s \ {Pick(s)}]
    <3> HIDE DEF z
    <3> QED BY <2>3, <2>4
  <2>6. Pick(s) \in s
    BY <2>5, Picked
  <2>7. s \ {Pick(s)} \in Bad /\ <<s \ {Pick(s)}, s>> \in R
    BY <2>3, <2>5, <2>6 DEF StrictSubsetOrdering
  <2> QED
    BY <2>2, <2>7
<1>4. f[S] = z[S]
  BY <1>3
<1> QED
  BY <1>4 DEF Sizes

\* The sum of v[x] over S, as MapThenSumSet defines it
Sum(v, S) ==
  LET it == CHOOSE h :
        h = [s \in SUBSET S |-> IF s = {} THEN 0 ELSE v[Pick(s)] + h[s \ {Pick(s)}]]
  IN  it[S]

\* A sum of a function's values over a set is defined by recursion; if the
\* values are sizes of disjoint sets, it is the size of their union.
LEMMA SumOfSizes ==
  ASSUME NEW S, IsFiniteSet(S), NEW g, Disjoint(g, S),
         NEW v, \A x \in S : v[x] = Cardinality(g[x])
  PROVE  Sum(v, S) = Cardinality(Joined(g, S))
<1> DEFINE F(h) == [s \in SUBSET S |->
                      IF s = {} THEN 0 ELSE v[Pick(s)] + h[s \ {Pick(s)}]]
           it == CHOOSE h : h = F(h)
<1>1. Sum(v, S) = it[S]
  BY DEF Sum
<1>2. Sizes(g, S) = F(Sizes(g, S))
  <2>1. Sums(Sizes(g, S), v, S)
    BY SizesAdd
  <2> QED
    BY <2>1 DEF Sums
<1>3. it = F(it)
  <2> HIDE DEF F
  <2> QED BY <1>2, Zenon
<1>4. Sums(it, v, S)
  <2> HIDE DEF it
  <2> QED BY <1>3 DEF Sums
<1> HIDE DEF it, F
<1> QED
  BY <1>1, <1>4, SizesUnique

\* Any sum of numbers is one of sizes: x counts as v[x] things.
Things(v, S) == [x \in S |-> {x} \X (1 .. v[x])]

LEMMA ThingsCount ==
  ASSUME NEW S, NEW v, \A x \in S : v[x] \in Nat
  PROVE  /\ Disjoint(Things(v, S), S)
         /\ \A x \in S : v[x] = Cardinality(Things(v, S)[x])
<1> DEFINE g == Things(v, S)
<1>1. ASSUME NEW x \in S PROVE IsFiniteSet(g[x]) /\ Cardinality(g[x]) = v[x]
  <2>1. IsFiniteSet({x}) /\ Cardinality({x}) = 1
    BY FS_Singleton
  <2>2. IsFiniteSet(1 .. v[x]) /\ Cardinality(1 .. v[x]) = v[x]
    <3>1. v[x] \in Nat /\ 1 \in Int
      OBVIOUS
    <3> QED BY <3>1, FS_Interval, SMTT(30)
  <2>3. /\ IsFiniteSet({x} \X (1 .. v[x]))
        /\ Cardinality({x} \X (1 .. v[x])) = Cardinality({x}) * Cardinality(1 .. v[x])
    BY <2>1, <2>2, FS_Product
  <2>4. g[x] = {x} \X (1 .. v[x])
    BY DEF Things
  <2>5. v[x] \in Nat
    OBVIOUS
  <2> HIDE DEF g
  <2> QED BY <2>1, <2>2, <2>3, <2>4, <2>5
<1>2. ASSUME NEW x \in S, NEW y \in S, g[x] \cap g[y] # {} PROVE x = y
  BY <1>2 DEF Things
<1> QED BY <1>1, <1>2 DEF Disjoint

\* A sum over a set with one element more
LEMMA SumAdd ==
  ASSUME NEW S, IsFiniteSet(S), NEW x, x \notin S,
         NEW v, \A y \in S \cup {x} : v[y] \in Nat
  PROVE  Sum(v, S \cup {x}) = v[x] + Sum(v, S)
<1> DEFINE T == S \cup {x}
           g == Things(v, T)
<1>1. IsFiniteSet(T)
  BY FS_AddElement
<1>2. Disjoint(g, T) /\ \A y \in T : v[y] = Cardinality(g[y])
  <2> HIDE DEF g
  <2> QED BY ThingsCount DEF g
<1>3. x \in T /\ T \in SUBSET T /\ T \ {x} = S
  OBVIOUS
<1> HIDE DEF g, T
<1>4. Sum(v, T) = Cardinality(Joined(g, T))
  BY <1>1, <1>2, SumOfSizes
<1>5. Cardinality(Joined(g, T)) = Cardinality(g[x]) + Cardinality(Joined(g, S))
  BY <1>1, <1>2, <1>3, JoinedSize
<1>6. Sum(v, S) = Cardinality(Joined(g, S))
  <2>1. Disjoint(g, S) /\ \A y \in S : v[y] = Cardinality(g[y])
    BY <1>2 DEF Disjoint, T
  <2> QED BY <2>1, SumOfSizes
<1> QED BY <1>2, <1>3, <1>4, <1>5, <1>6 DEF T

\* A sum depends on the terms only.
LEMMA SumSame ==
  ASSUME NEW S, IsFiniteSet(S), NEW v, \A y \in S : v[y] \in Nat,
         NEW w, \A y \in S : w[y] = v[y]
  PROVE  Sum(w, S) = Sum(v, S)
<1> DEFINE g == Things(v, S)
<1>1. Disjoint(g, S) /\ \A y \in S : v[y] = Cardinality(g[y]) /\ w[y] = Cardinality(g[y])
  <2> HIDE DEF g
  <2> QED BY ThingsCount DEF g
<1> HIDE DEF g
<1> QED BY <1>1, SumOfSizes

\* The empty sum
LEMMA SumEmpty == ASSUME NEW v PROVE Sum(v, {}) = 0
<1> DEFINE g == Things(v, {})
<1>1. IsFiniteSet({}) /\ Cardinality({}) = 0
  BY FS_EmptySet
<1>2. Disjoint(g, {})
  BY DEF Disjoint
<1>3. Joined(g, {}) = {}
  BY DEF Joined
<1> HIDE DEF g
<1>4. Sum(v, {}) = Cardinality(Joined(g, {}))
  BY <1>1, <1>2, SumOfSizes
<1> QED BY <1>1, <1>3, <1>4

\* A sum of natural numbers is one.
LEMMA SumIsNat ==
  ASSUME NEW S, IsFiniteSet(S), NEW v, \A y \in S : v[y] \in Nat
  PROVE  Sum(v, S) \in Nat
<1> DEFINE g == Things(v, S)
<1>1. Disjoint(g, S) /\ \A y \in S : v[y] = Cardinality(g[y])
  <2> HIDE DEF g
  <2> QED BY ThingsCount DEF g
<1> HIDE DEF g
<1>2. Sum(v, S) = Cardinality(Joined(g, S))
  BY <1>1, SumOfSizes
<1>3. IsFiniteSet(Joined(g, S))
  <2>1. IsFiniteSet({g[y] : y \in S})
    BY Images
  <2> QED BY <1>1, <2>1, FS_UNION DEF Joined, Disjoint
<1> QED BY <1>2, <1>3, FS_CardinalityType

\* One term more by n
LEMMA SumMore ==
  ASSUME NEW S, IsFiniteSet(S), NEW x \in S, NEW n \in Nat,
         NEW v, \A y \in S : v[y] \in Nat,
         NEW w, w[x] = v[x] + n, \A y \in S \ {x} : w[y] = v[y]
  PROVE  Sum(w, S) = Sum(v, S) + n
<1> DEFINE R == S \ {x}
<1>1. IsFiniteSet(R) /\ x \notin R /\ S = R \cup {x}
  BY FS_Subset
<1>2. /\ \A y \in R \cup {x} : v[y] \in Nat /\ w[y] \in Nat
      /\ \A y \in R : v[y] \in Nat /\ w[y] = v[y]
  OBVIOUS
<1>3. w[x] = v[x] + n /\ v[x] \in Nat
  OBVIOUS
<1> HIDE DEF R
<1>4. Sum(v, R \cup {x}) = v[x] + Sum(v, R) /\ Sum(w, R \cup {x}) = w[x] + Sum(w, R)
  BY <1>1, <1>2, SumAdd
<1>5. Sum(w, R) = Sum(v, R)
  BY <1>1, <1>2, SumSame
<1>6. Sum(v, R) \in Nat
  BY <1>1, <1>2, SumIsNat
<1> QED BY <1>1, <1>3, <1>4, <1>5, <1>6
=============================================================================
