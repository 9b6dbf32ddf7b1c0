------------------------------- MODULE Totals -------------------------------
(***************************************************************************)
(* What the folds of the community modules add up to, for finite sets of   *)
(* any size: the sum of f over S, taken one element at a time, whichever   *)
(* element that is.                                                        *)
(*                                                                         *)
(* The fold is a recursive function on the subsets of S that picks its     *)
(* element with CHOOSE. That the function exists is proved from the sets   *)
(* of natural numbers and of subsets that a minimal counterexample would   *)
(* leave; that the choice does not matter, by induction on subsets.        *)
(***************************************************************************)
EXTENDS Integers, Functions, FiniteSetTheorems, WellFoundedInduction, TLAPS

-----------------------------------------------------------------------------
(* Induction, with a set in the place of a predicate. *)

\* A set that has 0 and every successor has every natural number.
LEMMA NatBySets ==
    ASSUME NEW T \in SUBSET Nat, 0 \in T, \A n \in T : n + 1 \in T
    PROVE  T = Nat
<1> SUFFICES ASSUME Nat \ T # {} PROVE FALSE
  OBVIOUS
<1>1. PICK n \in Nat \ T : \A m \in Nat \ T : ~ (<<m, n>> \in OpToRel(<, Nat))
  BY WFMin, NatLessThanWellFounded
<1>2. n # 0 /\ n - 1 \in Nat
  OBVIOUS
<1>3. <<n - 1, n>> \in OpToRel(<, Nat)
  BY <1>2 DEF OpToRel
<1>4. n - 1 \in T
  BY <1>1, <1>2, <1>3
<1>5. QED
  BY <1>2, <1>4

\* A set that has every subset whose proper subsets it has, has every subset.
LEMMA SubsetsBySets ==
    ASSUME NEW S, IsFiniteSet(S), NEW T \in SUBSET SUBSET S,
           \A s \in SUBSET S : (\A t \in SUBSET s : t # s => t \in T) => s \in T
    PROVE  T = SUBSET S
<1> SUFFICES ASSUME (SUBSET S) \ T # {} PROVE FALSE
  OBVIOUS
<1>1. IsWellFoundedOn(StrictSubsetOrdering(S), SUBSET S)
  BY FS_StrictSubsetOrderingWellFounded, FS_FiniteSubsetsOfFinite
<1>2. PICK s \in (SUBSET S) \ T : \A t \in (SUBSET S) \ T : ~ (<<t, s>> \in StrictSubsetOrdering(S))
  <2> DEFINE C == (SUBSET S) \ T
  <2>1. C \subseteq SUBSET S /\ C # {}
    OBVIOUS
  <2> HIDE DEF C
  <2>2. \E x \in C : \A y \in C : ~ (<<y, x>> \in StrictSubsetOrdering(S))
    BY <1>1, <2>1, WFMin
  <2>3. QED
    BY <2>2 DEF C
<1>3. ASSUME NEW t \in SUBSET s, t # s
      PROVE  t \in T
  <2>1. t \in SUBSET S /\ <<t, s>> \in StrictSubsetOrdering(S)
    BY <1>3 DEF StrictSubsetOrdering
  <2>2. QED
    BY <1>2, <2>1
<1>4. QED
  BY <1>2, <1>3

-----------------------------------------------------------------------------
(* The fold. *)

First(s) == CHOOSE x \in s : TRUE

Body(f, g, s) == IF s = {} THEN 0 ELSE f[First(s)] + g[s \ {First(s)}]

Iter(f, S) == CHOOSE g : g = [s \in SUBSET S |-> Body(f, g, s)]

\* The sum of f over S: what FoldFunctionOnSet(+, 0, f, S) and FoldFunction(+, 0, f) are.
SumOver(f, S) == Iter(f, S)[S]

\* Both folds of the community module are this sum.
LEMMA FoldIsSum ==
    ASSUME NEW f, NEW S
    PROVE  /\ FoldFunctionOnSet(+, 0, f, S) = SumOver(f, S)
           /\ FoldFunction(+, 0, f) = SumOver(f, DOMAIN f)
BY DEF FoldFunction, FoldFunctionOnSet, MapThenFoldSet, SumOver, Iter, Body, First

\* The recursive function exists: its restriction to sets of at most n elements
\* does, for every n.
LEMMA IterIs ==
    ASSUME NEW S, IsFiniteSet(S), NEW f, \A q \in S : f[q] \in Int
    PROVE  Iter(f, S) = [s \in SUBSET S |-> Body(f, Iter(f, S), s)]
<1> DEFINE Fits(g, n) == \A s \in SUBSET S : Cardinality(s) <= n => g[s] = Body(f, g, s)
           N == {n \in Nat : \E g \in [SUBSET S -> Int] : Fits(g, n)}
<1>1. \A s \in SUBSET S : IsFiniteSet(s) /\ Cardinality(s) \in Nat
  BY FS_Subset, FS_CardinalityType
<1>2. \A s \in SUBSET S : s # {} =>
          /\ First(s) \in s /\ s \ {First(s)} \in SUBSET S
          /\ Cardinality(s \ {First(s)}) = Cardinality(s) - 1
          /\ f[First(s)] \in Int
  BY <1>1, FS_RemoveElement DEF First
<1>3. 0 \in N
  <2> DEFINE g == [s \in SUBSET S |-> 0]
  <2>1. \A s \in SUBSET S : Cardinality(s) <= 0 => s = {}
    BY <1>1, FS_EmptySet
  <2>2. g \in [SUBSET S -> Int] /\ Fits(g, 0)
    BY <2>1 DEF Body
  <2>3. QED
    BY <2>2
<1>4. ASSUME NEW n \in N
      PROVE  n + 1 \in N
  <2>1. PICK g \in [SUBSET S -> Int] : Fits(g, n)
    OBVIOUS
  <2> DEFINE h == [s \in SUBSET S |-> IF Cardinality(s) <= n THEN g[s] ELSE Body(f, g, s)]
  <2>2. ASSUME NEW s \in SUBSET S
        PROVE  Body(f, g, s) \in Int
    <3>1. CASE s = {}
      BY <3>1 DEF Body
    <3>2. CASE s # {}
      <4>1. f[First(s)] \in Int /\ g[s \ {First(s)}] \in Int
        BY <1>2, <3>2
      <4>2. QED
        BY <3>2, <4>1 DEF Body
    <3>3. QED
      BY <3>1, <3>2
  <2>3. h \in [SUBSET S -> Int]
    BY <2>2
  <2>4. ASSUME NEW s \in SUBSET S, Cardinality(s) <= n + 1
        PROVE  h[s] = Body(f, h, s)
    <3>1. h[s] = Body(f, g, s)
      BY <2>1
    <3>2. CASE s = {}
      BY <3>1, <3>2 DEF Body
    <3>3. CASE s # {}
      <4>1. h[s \ {First(s)}] = g[s \ {First(s)}]
        BY <1>1, <1>2, <2>4, <3>3
      <4> HIDE DEF h
      <4>2. QED
        BY <3>1, <3>3, <4>1 DEF Body
    <3>4. QED
      BY <3>2, <3>3
  <2> HIDE DEF h
  <2>5. Fits(h, n + 1)
    BY <2>4
  <2>6. QED
    BY <2>3, <2>5
<1>5. N = Nat
  <2>1. N \in SUBSET Nat
    OBVIOUS
  <2> HIDE DEF N
  <2>2. QED
    BY <1>3, <1>4, <2>1, NatBySets
<1>6. PICK g \in [SUBSET S -> Int] : Fits(g, Cardinality(S))
  <2>1. Cardinality(S) \in N
    BY <1>5, FS_CardinalityType
  <2>2. QED
    BY <2>1
<1>7. \A s \in SUBSET S : g[s] = Body(f, g, s)
  <2>1. \A s \in SUBSET S : Cardinality(s) <= Cardinality(S)
    BY FS_Subset
  <2>2. QED
    BY <1>6, <2>1
<1>8. g = [s \in SUBSET S |-> Body(f, g, s)]
  BY <1>7
<1>9. QED
  BY <1>8 DEF Iter

\* What it computes, one chosen element at a time.
LEMMA IterFacts ==
    ASSUME NEW S, IsFiniteSet(S), NEW f, \A q \in S : f[q] \in Int
    PROVE  /\ Iter(f, S)[{}] = 0
           /\ \A s \in SUBSET S : Iter(f, S)[s] \in Int
           /\ \A s \in SUBSET S : s # {} =>
                  /\ First(s) \in s
                  /\ Iter(f, S)[s] = f[First(s)] + Iter(f, S)[s \ {First(s)}]
<1> DEFINE g == Iter(f, S)
<1>1. g = [s \in SUBSET S |-> Body(f, g, s)]
  BY IterIs
<1> HIDE DEF g
<1>2. \A s \in SUBSET S : g[s] = Body(f, g, s)
  BY <1>1
<1>3. g[{}] = 0
  BY <1>2 DEF Body
<1>4. ASSUME NEW s \in SUBSET S, s # {}
      PROVE  First(s) \in s /\ g[s] = f[First(s)] + g[s \ {First(s)}]
  BY <1>2, <1>4 DEF Body, First
<1>5. \A s \in SUBSET S : g[s] \in Int
  <2> DEFINE T == {s \in SUBSET S : g[s] \in Int}
  <2>1. ASSUME NEW s \in SUBSET S, \A t \in SUBSET s : t # s => t \in T
        PROVE  s \in T
    <3>1. CASE s = {}
      BY <1>3, <3>1
    <3>2. CASE s # {}
      <4>1. First(s) \in s /\ g[s] = f[First(s)] + g[s \ {First(s)}]
        BY <1>4, <3>2
      <4>2. g[s \ {First(s)}] \in Int /\ f[First(s)] \in Int
        BY <2>1, <4>1
      <4>3. g[s] \in Int
        BY <4>1, <4>2
      <4>4. QED
        BY <4>3
    <3>3. QED
      BY <3>1, <3>2
  <2>2. T \in SUBSET SUBSET S
    OBVIOUS
  <2> HIDE DEF T
  <2>3. T = SUBSET S
    BY <2>1, <2>2, SubsetsBySets
  <2>4. QED
    BY <2>3 DEF T
<1>6. QED
  BY <1>3, <1>4, <1>5 DEF g

\* The sum over a subset does not depend on the set it is a subset of.
LEMMA IterIsSum ==
    ASSUME NEW S, IsFiniteSet(S), NEW f, \A q \in S : f[q] \in Int, NEW R \in SUBSET S
    PROVE  Iter(f, S)[R] = SumOver(f, R)
<1> DEFINE g == Iter(f, S)
           h == Iter(f, R)
           T == {s \in SUBSET R : g[s] = h[s]}
<1>1. IsFiniteSet(R) /\ \A q \in R : f[q] \in Int
  BY FS_Subset
<1>2. /\ g[{}] = 0
      /\ \A s \in SUBSET S : s # {} => First(s) \in s /\ g[s] = f[First(s)] + g[s \ {First(s)}]
  <2> HIDE DEF T
  <2>1. QED
    BY IterFacts
<1>3. h[{}] = 0 /\ \A s \in SUBSET R : s # {} => h[s] = f[First(s)] + h[s \ {First(s)}]
  <2> HIDE DEF T
  <2>1. QED
    BY <1>1, IterFacts
<1> HIDE DEF g, h
<1>4. ASSUME NEW s \in SUBSET R, \A t \in SUBSET s : t # s => t \in T
      PROVE  s \in T
  <2>1. CASE s = {}
    BY <1>2, <1>3, <2>1
  <2>2. CASE s # {}
    <3>1. First(s) \in s /\ g[s] = f[First(s)] + g[s \ {First(s)}]
      BY <1>2, <2>2
    <3>2. h[s] = f[First(s)] + h[s \ {First(s)}]
      BY <1>3, <2>2
    <3>3. g[s \ {First(s)}] = h[s \ {First(s)}]
      BY <1>4, <3>1
    <3>4. QED
      BY <3>1, <3>2, <3>3
  <2>3. QED
    BY <2>1, <2>2
<1>5. T \in SUBSET SUBSET R
  OBVIOUS
<1> HIDE DEF T
<1>6. T = SUBSET R
  BY <1>1, <1>4, <1>5, SubsetsBySets
<1>7. R \in T
  BY <1>6
<1>8. QED
  BY <1>7 DEF T, g, h, SumOver

\* The empty sum, the type of a sum, and its first step.
LEMMA SumFacts ==
    ASSUME NEW S, IsFiniteSet(S), NEW f, \A q \in S : f[q] \in Int
    PROVE  /\ S = {} => SumOver(f, S) = 0
           /\ SumOver(f, S) \in Int
           /\ S # {} => /\ First(S) \in S
                        /\ SumOver(f, S) = f[First(S)] + SumOver(f, S \ {First(S)})
<1>1. S # {} => /\ First(S) \in S /\ S \ {First(S)} \in SUBSET S
                /\ Iter(f, S)[S \ {First(S)}] = SumOver(f, S \ {First(S)})
  BY IterFacts, IterIsSum
<1>2. /\ S = {} => Iter(f, S)[S] = 0
      /\ Iter(f, S)[S] \in Int
      /\ S # {} => Iter(f, S)[S] = f[First(S)] + Iter(f, S)[S \ {First(S)}]
  BY IterFacts
<1>3. QED
  BY <1>1, <1>2 DEF SumOver

-----------------------------------------------------------------------------
(* What the proofs about money use. *)

\* Any element may be taken first.
LEMMA SumRemove ==
    ASSUME NEW S, IsFiniteSet(S), NEW f, \A q \in S : f[q] \in Int, NEW r \in S
    PROVE  SumOver(f, S) = f[r] + SumOver(f, S \ {r})
<1> DEFINE T == {s \in SUBSET S : \A x \in s : SumOver(f, s) = f[x] + SumOver(f, s \ {x})}
<1>1. ASSUME NEW s \in SUBSET S
      PROVE  IsFiniteSet(s) /\ (\A q \in s : f[q] \in Int) /\ SumOver(f, s) \in Int
  <2>1. IsFiniteSet(s) /\ \A q \in s : f[q] \in Int
    BY FS_Subset
  <2>2. QED
    BY <2>1, SumFacts
<1>2. ASSUME NEW s \in SUBSET S, \A t \in SUBSET s : t # s => t \in T
      PROVE  s \in T
  <2> SUFFICES ASSUME NEW x \in s
               PROVE  SumOver(f, s) = f[x] + SumOver(f, s \ {x})
    OBVIOUS
  <2> DEFINE c == First(s)
  <2>1. c \in s /\ SumOver(f, s) = f[c] + SumOver(f, s \ {c})
    BY <1>1, SumFacts
  <2> HIDE DEF c
  <2>2. CASE x = c
    BY <2>1, <2>2
  <2>3. CASE x # c
    <3>1. SumOver(f, s \ {c}) = f[x] + SumOver(f, (s \ {c}) \ {x})
      BY <1>2, <2>1, <2>3
    <3>2. SumOver(f, s \ {x}) = f[c] + SumOver(f, (s \ {x}) \ {c})
      BY <1>2, <2>1, <2>3
    <3>3. (s \ {c}) \ {x} = (s \ {x}) \ {c}
      OBVIOUS
    <3> DEFINE rest == SumOver(f, (s \ {x}) \ {c})
    <3>4. f[x] \in Int /\ f[c] \in Int /\ rest \in Int
      BY <1>1, <2>1
    <3>5. SumOver(f, s) = f[c] + (f[x] + rest) /\ SumOver(f, s \ {x}) = f[c] + rest
      BY <2>1, <3>1, <3>2, <3>3
    <3> HIDE DEF rest
    <3>6. f[c] + (f[x] + rest) = f[x] + (f[c] + rest)
      BY <3>4
    <3>7. QED
      BY <3>5, <3>6
  <2>4. QED
    BY <2>2, <2>3
<1>3. T \in SUBSET SUBSET S
  OBVIOUS
<1> HIDE DEF T
<1>4. T = SUBSET S
  BY <1>2, <1>3, SubsetsBySets
<1>5. S \in T
  BY <1>4
<1>6. QED
  BY <1>5 DEF T

\* A larger function has a larger sum.
LEMMA SumLeq ==
    ASSUME NEW S, IsFiniteSet(S), NEW f, NEW h,
           \A q \in S : f[q] \in Int /\ h[q] \in Int /\ f[q] <= h[q]
    PROVE  SumOver(f, S) <= SumOver(h, S)
<1> DEFINE T == {s \in SUBSET S : SumOver(f, s) <= SumOver(h, s)}
<1>1. ASSUME NEW s \in SUBSET S
      PROVE  /\ IsFiniteSet(s) /\ (\A q \in s : f[q] \in Int) /\ (\A q \in s : h[q] \in Int)
             /\ SumOver(f, s) \in Int /\ SumOver(h, s) \in Int
  <2>1. IsFiniteSet(s) /\ (\A q \in s : f[q] \in Int) /\ (\A q \in s : h[q] \in Int)
    BY FS_Subset
  <2>2. QED
    BY <2>1, SumFacts
<1>2. ASSUME NEW s \in SUBSET S, \A t \in SUBSET s : t # s => t \in T
      PROVE  s \in T
  <2>1. CASE s = {}
    <3>1. SumOver(f, s) = 0 /\ SumOver(h, s) = 0
      BY <1>1, <2>1, SumFacts
    <3>2. QED
      BY <3>1
  <2>2. CASE s # {}
    <3> DEFINE c == First(s)
    <3>1. c \in s /\ SumOver(f, s) = f[c] + SumOver(f, s \ {c})
      BY <1>1, <2>2, SumFacts
    <3>2. SumOver(h, s) = h[c] + SumOver(h, s \ {c})
      BY <1>1, <2>2, SumFacts
    <3> HIDE DEF c
    <3>3. SumOver(f, s \ {c}) <= SumOver(h, s \ {c})
      BY <1>2, <3>1
    <3>4. f[c] \in Int /\ h[c] \in Int /\ f[c] <= h[c]
      BY <3>1
    <3>5. SumOver(f, s \ {c}) \in Int /\ SumOver(h, s \ {c}) \in Int
      BY <1>1
    <3>6. QED
      BY <3>1, <3>2, <3>3, <3>4, <3>5
  <2>3. QED
    BY <2>1, <2>2
<1>3. T \in SUBSET SUBSET S
  OBVIOUS
<1> HIDE DEF T
<1>4. T = SUBSET S
  BY <1>2, <1>3, SubsetsBySets
<1>5. S \in T
  BY <1>4
<1>6. QED
  BY <1>5 DEF T

\* The same terms have the same sum.
LEMMA SumEqual ==
    ASSUME NEW S, IsFiniteSet(S), NEW f, NEW h,
           \A q \in S : f[q] \in Int /\ h[q] = f[q]
    PROVE  SumOver(h, S) = SumOver(f, S)
<1>1. \A q \in S : f[q] \in Int /\ h[q] \in Int /\ f[q] <= h[q] /\ h[q] <= f[q]
  OBVIOUS
<1>2. SumOver(f, S) <= SumOver(h, S) /\ SumOver(h, S) <= SumOver(f, S)
  BY <1>1, SumLeq
<1>3. SumOver(f, S) \in Int /\ SumOver(h, S) \in Int
  BY <1>1, SumFacts
<1>4. QED
  BY <1>2, <1>3

\* A sum whose terms agree but for one changes by the difference at that one.
LEMMA SumChange ==
    ASSUME NEW S, IsFiniteSet(S), NEW f, NEW h, NEW r \in S,
           \A q \in S : f[q] \in Int /\ h[q] \in Int,
           \A q \in S \ {r} : h[q] = f[q]
    PROVE  SumOver(h, S) = SumOver(f, S) + (h[r] - f[r])
<1> DEFINE R == S \ {r}
<1>1. IsFiniteSet(R) /\ \A q \in R : f[q] \in Int /\ h[q] = f[q]
  BY FS_Subset
<1>2. SumOver(h, R) = SumOver(f, R) /\ SumOver(f, R) \in Int
  <2> HIDE DEF R
  <2>1. QED
    BY <1>1, SumEqual, SumFacts
<1>3. SumOver(f, S) = f[r] + SumOver(f, R) /\ SumOver(h, S) = h[r] + SumOver(h, R)
  BY SumRemove
<1> HIDE DEF R
<1>4. QED
  BY <1>2, <1>3

\* A sum of nothing is nothing.
LEMMA SumZero ==
    ASSUME NEW S, IsFiniteSet(S), NEW f, \A q \in S : f[q] = 0
    PROVE  SumOver(f, S) = 0
<1> DEFINE T == {s \in SUBSET S : SumOver(f, s) = 0}
<1>1. ASSUME NEW s \in SUBSET S, \A t \in SUBSET s : t # s => t \in T
      PROVE  s \in T
  <2>1. IsFiniteSet(s) /\ \A q \in s : f[q] \in Int
    BY FS_Subset
  <2>2. CASE s = {}
    BY <2>1, <2>2, SumFacts
  <2>3. CASE s # {}
    <3>1. First(s) \in s /\ SumOver(f, s) = f[First(s)] + SumOver(f, s \ {First(s)})
      BY <2>1, <2>3, SumFacts
    <3>2. SumOver(f, s \ {First(s)}) = 0 /\ f[First(s)] = 0
      BY <1>1, <3>1
    <3>3. QED
      BY <3>1, <3>2
  <2>4. QED
    BY <2>2, <2>3
<1>2. T \in SUBSET SUBSET S
  OBVIOUS
<1> HIDE DEF T
<1>3. T = SUBSET S
  BY <1>1, <1>2, SubsetsBySets
<1>4. S \in T
  BY <1>3
<1>5. QED
  BY <1>4 DEF T

\* A sum of amounts is an amount.
LEMMA SumNat ==
    ASSUME NEW S, IsFiniteSet(S), NEW f, \A q \in S : f[q] \in Nat
    PROVE  SumOver(f, S) \in Nat
<1> DEFINE z == [q \in S |-> 0]
<1>1. \A q \in S : z[q] = 0 /\ z[q] \in Int /\ f[q] \in Int /\ z[q] <= f[q]
  OBVIOUS
<1> HIDE DEF z
<1>2. SumOver(z, S) = 0
  BY <1>1, SumZero
<1>3. SumOver(z, S) <= SumOver(f, S) /\ SumOver(f, S) \in Int
  BY <1>1, SumLeq, SumFacts
<1>4. QED
  BY <1>2, <1>3

\* A sum is the sum over a part and over the rest.
LEMMA SumSplit ==
    ASSUME NEW S, IsFiniteSet(S), NEW f, \A q \in S : f[q] \in Int, NEW R
    PROVE  SumOver(f, S) = SumOver(f, S \cap R) + SumOver(f, S \ R)
<1> DEFINE T == {s \in SUBSET S : SumOver(f, s) = SumOver(f, s \cap R) + SumOver(f, s \ R)}
<1>1. ASSUME NEW s \in SUBSET S
      PROVE  IsFiniteSet(s) /\ (\A q \in s : f[q] \in Int) /\ SumOver(f, s) \in Int
  <2>1. IsFiniteSet(s) /\ \A q \in s : f[q] \in Int
    BY FS_Subset
  <2>2. QED
    BY <2>1, SumFacts
<1>2. ASSUME NEW s \in SUBSET S, \A t \in SUBSET s : t # s => t \in T
      PROVE  s \in T
  <2>1. CASE s = {}
    <3>1. /\ IsFiniteSet(s \cap R) /\ \A q \in s \cap R : f[q] = 0
          /\ IsFiniteSet(s \ R) /\ \A q \in s \ R : f[q] = 0
      BY <1>1, <2>1, FS_Subset
    <3>2. SumOver(f, s) = 0 /\ SumOver(f, s \cap R) = 0 /\ SumOver(f, s \ R) = 0
      BY <1>1, <2>1, <3>1, SumZero, SumFacts
    <3>3. SumOver(f, s) = SumOver(f, s \cap R) + SumOver(f, s \ R)
      BY <3>2
    <3>4. QED
      BY <3>3
  <2>2. CASE s # {}
    <3>1. PICK c : c \in s /\ SumOver(f, s) = f[c] + SumOver(f, s \ {c})
      BY <1>1, <2>2, SumFacts
    <3> DEFINE p == s \ {c}
    <3>2. SumOver(f, p) = SumOver(f, p \cap R) + SumOver(f, p \ R)
      BY <1>2, <3>1
    <3>3. /\ f[c] \in Int /\ SumOver(f, p \cap R) \in Int /\ SumOver(f, p \ R) \in Int
      BY <1>1, <3>1
    <3>4. SumOver(f, s) = f[c] + SumOver(f, p)
      BY <3>1
    <3>5. CASE c \in R
      <4>1. (s \cap R) \ {c} = p \cap R /\ s \ R = p \ R /\ c \in s \cap R
        BY <3>1, <3>5
      <4>2. SumOver(f, s \cap R) = f[c] + SumOver(f, p \cap R)
        BY <1>1, <4>1, SumRemove
      <4>3. SumOver(f, s \ R) = SumOver(f, p \ R)
        BY <4>1
      <4> HIDE DEF p
      <4>4. SumOver(f, s) = SumOver(f, s \cap R) + SumOver(f, s \ R)
        BY <3>2, <3>3, <3>4, <4>2, <4>3
      <4>5. QED
        BY <4>4
    <3>6. CASE c \notin R
      <4>1. (s \ R) \ {c} = p \ R /\ s \cap R = p \cap R /\ c \in s \ R
        BY <3>1, <3>6
      <4>2. SumOver(f, s \ R) = f[c] + SumOver(f, p \ R)
        BY <1>1, <4>1, SumRemove
      <4>3. SumOver(f, s \cap R) = SumOver(f, p \cap R)
        BY <4>1
      <4> HIDE DEF p
      <4>4. SumOver(f, s) = SumOver(f, s \cap R) + SumOver(f, s \ R)
        BY <3>2, <3>3, <3>4, <4>2, <4>3
      <4>5. QED
        BY <4>4
    <3>7. QED
      BY <3>5, <3>6
  <2>3. QED
    BY <2>1, <2>2
<1>3. T \in SUBSET SUBSET S
  OBVIOUS
<1> HIDE DEF T
<1>4. T = SUBSET S
  BY <1>2, <1>3, SubsetsBySets
<1>5. S \in T
  BY <1>4
<1>6. QED
  BY <1>5 DEF T

\* A sum of amounts over fewer elements is no larger, and as large if the others are zero.
LEMMA SumSubset ==
    ASSUME NEW S, IsFiniteSet(S), NEW f, \A q \in S : f[q] \in Nat, NEW R \in SUBSET S
    PROVE  /\ SumOver(f, R) <= SumOver(f, S)
           /\ (\A q \in S \ R : f[q] = 0) => SumOver(f, S) = SumOver(f, R)
<1>1. S \cap R = R /\ IsFiniteSet(R) /\ IsFiniteSet(S \ R)
  BY FS_Subset
<1>2. /\ \A q \in S : f[q] \in Int
      /\ \A q \in R : f[q] \in Nat
      /\ \A q \in S \ R : f[q] \in Nat
  OBVIOUS
<1>3. SumOver(f, S) = SumOver(f, R) + SumOver(f, S \ R)
  <2>1. SumOver(f, S) = SumOver(f, S \cap R) + SumOver(f, S \ R)
    BY <1>2, SumSplit
  <2>2. SumOver(f, S \cap R) = SumOver(f, R)
    BY <1>1
  <2>3. QED
    BY <2>1, <2>2
<1>4. SumOver(f, R) \in Nat /\ SumOver(f, S \ R) \in Nat
  BY <1>1, <1>2, SumNat
<1>5. (\A q \in S \ R : f[q] = 0) => SumOver(f, S \ R) = 0
  BY <1>1, SumZero
<1>6. QED
  BY <1>3, <1>4, <1>5

\* The sum of sums, term by term.
LEMMA SumAdd ==
    ASSUME NEW S, IsFiniteSet(S), NEW f, NEW g, NEW h,
           \A q \in S : f[q] \in Int /\ g[q] \in Int /\ h[q] = f[q] + g[q]
    PROVE  SumOver(h, S) = SumOver(f, S) + SumOver(g, S)
<1> DEFINE T == {s \in SUBSET S : SumOver(h, s) = SumOver(f, s) + SumOver(g, s)}
<1>1. ASSUME NEW s \in SUBSET S
      PROVE  /\ IsFiniteSet(s)
             /\ (\A q \in s : f[q] \in Int) /\ (\A q \in s : g[q] \in Int) /\ (\A q \in s : h[q] \in Int)
             /\ SumOver(f, s) \in Int /\ SumOver(g, s) \in Int
  <2>1. /\ IsFiniteSet(s)
        /\ (\A q \in s : f[q] \in Int) /\ (\A q \in s : g[q] \in Int) /\ (\A q \in s : h[q] \in Int)
    BY FS_Subset
  <2>2. QED
    BY <2>1, SumFacts
<1>2. ASSUME NEW s \in SUBSET S, \A t \in SUBSET s : t # s => t \in T
      PROVE  s \in T
  <2>1. CASE s = {}
    <3>1. SumOver(f, s) = 0 /\ SumOver(g, s) = 0 /\ SumOver(h, s) = 0
      BY <1>1, <2>1, SumFacts
    <3>2. QED
      BY <3>1
  <2>2. CASE s # {}
    <3> DEFINE c == First(s)
               p == s \ {c}
    <3>1. c \in s /\ SumOver(f, s) = f[c] + SumOver(f, p)
      BY <1>1, <2>2, SumFacts
    <3>2. SumOver(g, s) = g[c] + SumOver(g, p)
      BY <1>1, <2>2, SumFacts
    <3>3. SumOver(h, s) = h[c] + SumOver(h, p)
      BY <1>1, <2>2, SumFacts
    <3>4. SumOver(h, p) = SumOver(f, p) + SumOver(g, p)
      BY <1>2, <3>1
    <3>5. f[c] \in Int /\ g[c] \in Int /\ h[c] = f[c] + g[c]
      BY <3>1
    <3>6. SumOver(f, p) \in Int /\ SumOver(g, p) \in Int
      BY <1>1
    <3> HIDE DEF c, p
    <3>7. SumOver(h, s) = SumOver(f, s) + SumOver(g, s)
      BY <3>1, <3>2, <3>3, <3>4, <3>5, <3>6
    <3>8. QED
      BY <3>7
  <2>3. QED
    BY <2>1, <2>2
<1>3. T \in SUBSET SUBSET S
  OBVIOUS
<1> HIDE DEF T
<1>4. T = SUBSET S
  BY <1>2, <1>3, SubsetsBySets
<1>5. S \in T
  BY <1>4
<1>6. QED
  BY <1>5 DEF T
=============================================================================
