----------------------------- MODULE SumProofs -----------------------------
(***************************************************************************)
(* Lemmas on sums over finite sets of numbers, and induction over the      *)
(* natural numbers.  MapThenSumSet chooses a function over all subsets;    *)
(* SumStepwise says how its values follow from each other.                 *)
(***************************************************************************)
EXTENDS Sums, Integers, FiniteSetTheorems, WellFoundedInduction, TLAPS

-----------------------------------------------------------------------------
(* Induction over the natural numbers, in a form without operators.         *)

(* A non-empty set of natural numbers has a least element.                  *)
LEMMA LeastElement ==
  ASSUME NEW S \in SUBSET Nat, S # {}
  PROVE  \E n \in S : \A k \in S : n <= k
<1> DEFINE R == OpToRel(<, Nat)
<1>1. IsWellFoundedOn(R, Nat)
  BY NatLessThanWellFounded
<1> HIDE DEF R
<1>2. PICK n \in S : \A k \in S : <<k, n>> \notin R
  BY <1>1, WFMin
<1>3. \A k \in S : ~(k < n)
  BY <1>2 DEF R, OpToRel
<1> QED BY <1>3

(* Induction on the natural numbers, for a set of them.                     *)
LEMMA NatInduct ==
  ASSUME NEW S \in SUBSET Nat, 0 \in S, \A n \in S : n + 1 \in S
  PROVE  S = Nat
<1> SUFFICES ASSUME S # Nat PROVE FALSE
  OBVIOUS
<1>1. PICK n \in Nat \ S : \A k \in Nat \ S : n <= k
  <2>1. Nat \ S \in SUBSET Nat /\ Nat \ S # {}
    OBVIOUS
  <2> QED BY <2>1, LeastElement
<1>2. n # 0 /\ n - 1 \in Nat /\ ~(n <= n - 1)
  BY <1>1
<1>3. n - 1 \in S
  BY <1>1, <1>2
<1>4. (n - 1) + 1 = n
  BY <1>1
<1> QED BY <1>1, <1>3, <1>4

-----------------------------------------------------------------------------
(* Sums over finite sets.                                                   *)

\* The function MapThenSumSet chooses to sum a function.
SumStep(f, s, g) ==
  IF s = {} THEN 0 ELSE f[CHOOSE x \in s : TRUE] + g[s \ {CHOOSE x \in s : TRUE}]

Sums(f, S, g) == g = [s \in SUBSET S |-> SumStep(f, s, g)]

SumFcn(f, S) == CHOOSE g : Sums(f, S, g)

(* The sum is what the function gives for the whole set.                    *)
LEMMA SumIs ==
  ASSUME NEW f, NEW S
  PROVE  SumOver(f, S) = SumFcn(f, S)[S]
  BY DEF SumOver, MapThenSumSet, MapThenFoldSet, SumFcn, Sums, SumStep

\* The subsets of S with at most n elements.
Small(S, n) == {s \in SUBSET S : Cardinality(s) <= n}

SumsTo(f, S, n, g) == g = [s \in Small(S, n) |-> SumStep(f, s, g)]

(* Removing the chosen element makes a set smaller.                         *)
LEMMA SmallerLeft ==
  ASSUME NEW S, IsFiniteSet(S), NEW n \in Nat, NEW s \in Small(S, n + 1), s # {}
  PROVE  /\ (CHOOSE x \in s : TRUE) \in s
         /\ s \ {CHOOSE x \in s : TRUE} \in Small(S, n)
<1> DEFINE c == CHOOSE x \in s : TRUE
<1>1. c \in s
  OBVIOUS
<1> HIDE DEF c
<1>2. s \in SUBSET S /\ Cardinality(s) <= n + 1
  BY DEF Small
<1>3. IsFiniteSet(s)
  BY <1>2, FS_Subset
<1>4. Cardinality(s) \in Nat
  BY <1>3, FS_CardinalityType
<1>5. Cardinality(s \ {c}) = Cardinality(s) - 1
  BY <1>1, <1>3, FS_RemoveElement
<1>6. Cardinality(s \ {c}) <= n
  BY <1>2, <1>4, <1>5
<1>7. s \ {c} \in Small(S, n)
  BY <1>2, <1>6 DEF Small
<1> QED BY <1>1, <1>7 DEF c

(* The function exists up to any number of elements.                        *)
LEMMA SumsToExists ==
  ASSUME NEW f, NEW S, IsFiniteSet(S), NEW n \in Nat
  PROVE  \E g : SumsTo(f, S, n, g)
<1> DEFINE Good == {k \in Nat : \E g : SumsTo(f, S, k, g)}
<1>1. 0 \in Good
  <2>1. \A s \in Small(S, 0) : s = {}
    <3> SUFFICES ASSUME NEW s \in Small(S, 0) PROVE s = {}
      OBVIOUS
    <3>1. s \in SUBSET S /\ Cardinality(s) <= 0
      BY DEF Small
    <3>2. IsFiniteSet(s)
      BY <3>1, FS_Subset
    <3>3. Cardinality(s) = 0
      BY <3>1, <3>2, FS_CardinalityType
    <3> QED BY <3>2, <3>3, FS_EmptySet
  <2> DEFINE g == [s \in Small(S, 0) |-> 0]
  <2>2. \A s \in Small(S, 0) : SumStep(f, s, g) = 0
    BY <2>1 DEF SumStep
  <2>3. SumsTo(f, S, 0, g)
    BY <2>2 DEF SumsTo
  <2> QED BY <2>3
<1>2. ASSUME NEW k \in Good PROVE k + 1 \in Good
  <2>1. PICK g : SumsTo(f, S, k, g)
    BY <1>2
  <2> DEFINE h == [s \in Small(S, k + 1) |-> SumStep(f, s, g)]
  <2>2. Small(S, k) \subseteq Small(S, k + 1)
    <3> SUFFICES ASSUME NEW s \in Small(S, k) PROVE s \in Small(S, k + 1)
      OBVIOUS
    <3>1. s \in SUBSET S /\ Cardinality(s) <= k
      BY DEF Small
    <3>2. Cardinality(s) \in Nat
      BY <3>1, FS_Subset, FS_CardinalityType
    <3> QED BY <3>1, <3>2 DEF Small
  <2>3. \A s \in Small(S, k) : h[s] = g[s]
    BY <2>1, <2>2 DEF SumsTo
  <2> HIDE DEF h
  <2>4. \A s \in Small(S, k + 1) : SumStep(f, s, g) = SumStep(f, s, h)
    <3> SUFFICES ASSUME NEW s \in Small(S, k + 1) PROVE SumStep(f, s, g) = SumStep(f, s, h)
      OBVIOUS
    <3>1. CASE s = {}
      BY <3>1 DEF SumStep
    <3>2. CASE s # {}
      <4>1. s \ {CHOOSE x \in s : TRUE} \in Small(S, k)
        BY <3>2, SmallerLeft
      <4>2. h[s \ {CHOOSE x \in s : TRUE}] = g[s \ {CHOOSE x \in s : TRUE}]
        BY <4>1, <2>3
      <4> QED BY <3>2, <4>2 DEF SumStep
    <3> QED BY <3>1, <3>2
  <2>5. h = [s \in Small(S, k + 1) |-> SumStep(f, s, h)]
    BY <2>4 DEF h
  <2>6. SumsTo(f, S, k + 1, h)
    BY <2>5 DEF SumsTo
  <2> QED BY <2>6
<1>3. Good = Nat
  <2>1. Good \in SUBSET Nat
    OBVIOUS
  <2> HIDE DEF Good
  <2> QED BY <1>1, <1>2, <2>1, NatInduct
<1> QED BY <1>3

(* The function of MapThenSumSet exists for a finite set.                   *)
LEMMA SumsExists ==
  ASSUME NEW f, NEW S, IsFiniteSet(S)
  PROVE  Sums(f, S, SumFcn(f, S))
<1>1. Cardinality(S) \in Nat
  BY FS_CardinalityType
<1>2. PICK g : SumsTo(f, S, Cardinality(S), g)
  BY <1>1, SumsToExists
<1>3. Small(S, Cardinality(S)) = SUBSET S
  BY FS_Subset DEF Small
<1>4. Sums(f, S, g)
  BY <1>2, <1>3 DEF Sums, SumsTo
<1> QED BY <1>4 DEF SumFcn

(* It is the same for all sets that contain the one that is summed.         *)
LEMMA SumsAgree ==
  ASSUME NEW f, NEW S, IsFiniteSet(S), NEW T \in SUBSET S, NEW g, Sums(f, S, g),
         NEW h, Sums(f, T, h), NEW s \in SUBSET T
  PROVE  g[s] = h[s]
<1> DEFINE Good == {k \in Nat : \A u \in Small(T, k) : g[u] = h[u]}
<1>0. IsFiniteSet(T)
  BY FS_Subset
<1>1. \A u \in SUBSET T : g[u] = SumStep(f, u, g) /\ h[u] = SumStep(f, u, h)
  <2>1. \A u \in SUBSET S : g[u] = SumStep(f, u, g)
    BY DEF Sums
  <2>2. \A u \in SUBSET T : h[u] = SumStep(f, u, h)
    BY DEF Sums
  <2>3. SUBSET T \subseteq SUBSET S
    OBVIOUS
  <2> QED BY <2>1, <2>2, <2>3
<1>2. \A u \in SUBSET T : IsFiniteSet(u) /\ Cardinality(u) \in Nat
  BY <1>0, FS_Subset, FS_CardinalityType
<1>3. 0 \in Good
  <2> SUFFICES ASSUME NEW u \in Small(T, 0) PROVE g[u] = h[u]
    OBVIOUS
  <2>1. u \in SUBSET T /\ Cardinality(u) <= 0
    BY DEF Small
  <2>2. u = {}
    BY <2>1, <1>2, FS_EmptySet
  <2> QED BY <2>1, <2>2, <1>1 DEF SumStep
<1>4. ASSUME NEW k \in Good PROVE k + 1 \in Good
  <2> SUFFICES ASSUME NEW u \in Small(T, k + 1) PROVE g[u] = h[u]
    OBVIOUS
  <2>1. u \in SUBSET T
    BY DEF Small
  <2>2. CASE u = {}
    BY <2>1, <2>2, <1>1 DEF SumStep
  <2>3. CASE u # {}
    <3>1. u \ {CHOOSE x \in u : TRUE} \in Small(T, k)
      BY <2>3, <1>0, SmallerLeft
    <3>2. g[u \ {CHOOSE x \in u : TRUE}] = h[u \ {CHOOSE x \in u : TRUE}]
      BY <3>1, <1>4
    <3> QED BY <2>1, <2>3, <3>2, <1>1 DEF SumStep
  <2> QED BY <2>2, <2>3
<1>5. Good = Nat
  <2>1. Good \in SUBSET Nat
    OBVIOUS
  <2> HIDE DEF Good
  <2> QED BY <1>3, <1>4, <2>1, NatInduct
<1>6. s \in Small(T, Cardinality(s)) /\ Cardinality(s) \in Nat
  BY <1>2 DEF Small
<1> QED BY <1>5, <1>6

(* What MapThenSumSet does: it takes one element after the other.           *)
LEMMA SumStepwise ==
  ASSUME NEW f, NEW S, IsFiniteSet(S)
  PROVE  /\ S = {} => SumOver(f, S) = 0
         /\ S # {} => SumOver(f, S) = f[CHOOSE x \in S : TRUE]
                                        + SumOver(f, S \ {CHOOSE x \in S : TRUE})
<1> DEFINE g == SumFcn(f, S)
<1>1. Sums(f, S, g)
  BY SumsExists
<1>2. SumOver(f, S) = g[S]
  BY SumIs
<1> HIDE DEF g
<1>3. g[S] = SumStep(f, S, g)
  BY <1>1 DEF Sums
<1>4. CASE S = {}
  BY <1>2, <1>3, <1>4 DEF SumStep
<1>5. CASE S # {}
  <2> DEFINE T == S \ {CHOOSE x \in S : TRUE}  h == SumFcn(f, T)
  <2>1. T \in SUBSET S /\ IsFiniteSet(T)
    BY FS_Subset
  <2> HIDE DEF T
  <2>2. Sums(f, T, h)
    BY <2>1, SumsExists
  <2>3. SumOver(f, T) = h[T]
    BY SumIs
  <2> HIDE DEF h
  <2>4. g[T] = h[T]
    <3>1. T \in SUBSET T
      OBVIOUS
    <3> QED BY <1>1, <2>1, <2>2, <3>1, SumsAgree
  <2>5. g[S] = f[CHOOSE x \in S : TRUE] + g[T]
    BY <1>3, <1>5 DEF SumStep, T
  <2> QED BY <1>2, <1>5, <2>3, <2>4, <2>5 DEF T
<1> QED BY <1>4, <1>5

(* The sum of nothing.                                                      *)
LEMMA SumEmpty ==
  ASSUME NEW f
  PROVE  SumOver(f, {}) = 0
  BY FS_EmptySet, SumStepwise

\* Sets whose elements have natural numbers.
Counted(f, S) == \A i \in S : f[i] \in Nat

(* A sum of natural numbers is one.                                         *)
LEMMA SumNat ==
  ASSUME NEW f, NEW S, IsFiniteSet(S), Counted(f, S)
  PROVE  SumOver(f, S) \in Nat
<1> DEFINE Good == {k \in Nat : \A u \in Small(S, k) : SumOver(f, u) \in Nat}
<1>1. \A u \in SUBSET S : IsFiniteSet(u) /\ Cardinality(u) \in Nat
  BY FS_Subset, FS_CardinalityType
<1>2. 0 \in Good
  <2> SUFFICES ASSUME NEW u \in Small(S, 0) PROVE SumOver(f, u) \in Nat
    OBVIOUS
  <2>1. u \in SUBSET S /\ Cardinality(u) <= 0
    BY DEF Small
  <2>2. u = {}
    BY <2>1, <1>1, FS_EmptySet
  <2> QED BY <2>2, SumEmpty
<1>3. ASSUME NEW k \in Good PROVE k + 1 \in Good
  <2> SUFFICES ASSUME NEW u \in Small(S, k + 1) PROVE SumOver(f, u) \in Nat
    OBVIOUS
  <2>1. u \in SUBSET S /\ IsFiniteSet(u)
    BY <1>1 DEF Small
  <2>2. CASE u = {}
    BY <2>2, SumEmpty
  <2>3. CASE u # {}
    <3> DEFINE c == CHOOSE x \in u : TRUE
    <3>1. c \in u /\ u \ {c} \in Small(S, k)
      BY <2>3, SmallerLeft
    <3>2. SumOver(f, u \ {c}) \in Nat
      BY <3>1, <1>3
    <3>3. f[c] \in Nat
      BY <3>1, <2>1 DEF Counted
    <3>4. SumOver(f, u) = f[c] + SumOver(f, u \ {c})
      BY <2>1, <2>3, SumStepwise
    <3> HIDE DEF c
    <3> QED BY <3>2, <3>3, <3>4
  <2> QED BY <2>2, <2>3
<1>4. Good = Nat
  <2>1. Good \in SUBSET Nat
    OBVIOUS
  <2> HIDE DEF Good
  <2> QED BY <1>2, <1>3, <2>1, NatInduct
<1>5. S \in Small(S, Cardinality(S)) /\ Cardinality(S) \in Nat
  BY <1>1 DEF Small
<1> QED BY <1>4, <1>5

(* Any element may be taken out first.                                      *)
LEMMA SumTake ==
  ASSUME NEW f, NEW S, IsFiniteSet(S), Counted(f, S), NEW x \in S
  PROVE  SumOver(f, S) = f[x] + SumOver(f, S \ {x})
<1> DEFINE Good == {k \in Nat : \A u \in Small(S, k) : \A y \in u :
                      SumOver(f, u) = f[y] + SumOver(f, u \ {y})}
<1>1. \A u \in SUBSET S : IsFiniteSet(u) /\ Cardinality(u) \in Nat /\ Counted(f, u)
  BY FS_Subset, FS_CardinalityType DEF Counted
<1>2. 0 \in Good
  <2> SUFFICES ASSUME NEW u \in Small(S, 0) PROVE u = {}
    OBVIOUS
  <2>1. u \in SUBSET S /\ Cardinality(u) <= 0
    BY DEF Small
  <2> QED BY <2>1, <1>1, FS_EmptySet
<1>3. ASSUME NEW k \in Good PROVE k + 1 \in Good
  <2> SUFFICES ASSUME NEW u \in Small(S, k + 1), NEW y \in u
               PROVE  SumOver(f, u) = f[y] + SumOver(f, u \ {y})
    OBVIOUS
  <2>1. u \in SUBSET S /\ IsFiniteSet(u) /\ u # {} /\ Cardinality(u) <= k + 1
    BY <1>1 DEF Small
  <2> DEFINE c == CHOOSE z \in u : TRUE
  <2>2. c \in u /\ u \ {c} \in Small(S, k)
    BY <2>1, SmallerLeft
  <2>3. SumOver(f, u) = f[c] + SumOver(f, u \ {c})
    BY <2>1, SumStepwise
  <2> HIDE DEF c
  <2>4. CASE y = c
    BY <2>3, <2>4
  <2>5. CASE y # c
    <3>1. u \ {y} \in Small(S, k)
      <4>1. Cardinality(u \ {y}) = Cardinality(u) - 1
        BY <2>1, FS_RemoveElement
      <4>2. Cardinality(u) \in Nat
        BY <2>1, <1>1
      <4>3. Cardinality(u \ {y}) <= k
        BY <4>1, <4>2, <2>1
      <4> QED BY <4>3, <2>1 DEF Small
    <3>2. SumOver(f, u \ {c}) = f[y] + SumOver(f, (u \ {c}) \ {y})
      <4>1. y \in u \ {c}
        BY <2>5
      <4> QED BY <4>1, <2>2, <1>3
    <3>3. SumOver(f, u \ {y}) = f[c] + SumOver(f, (u \ {y}) \ {c})
      <4>1. c \in u \ {y}
        BY <2>2, <2>5
      <4> QED BY <4>1, <3>1, <1>3
    <3>4. (u \ {y}) \ {c} = (u \ {c}) \ {y}
      OBVIOUS
    <3> DEFINE w == SumOver(f, (u \ {c}) \ {y})
    <3>5. w \in Nat
      <4>1. (u \ {c}) \ {y} \in SUBSET S
        BY <2>1
      <4> QED BY <4>1, <1>1, SumNat
    <3>6. f[c] \in Nat /\ f[y] \in Nat
      BY <2>1, <2>2 DEF Counted
    <3> HIDE DEF w
    <3>7. SumOver(f, u) = f[c] + (f[y] + w)
      BY <2>3, <3>2 DEF w
    <3>8. SumOver(f, u \ {y}) = f[c] + w
      BY <3>3, <3>4 DEF w
    <3>9. f[c] + (f[y] + w) = f[y] + (f[c] + w)
      BY <3>5, <3>6
    <3> QED BY <3>7, <3>8, <3>9
  <2> QED BY <2>4, <2>5
<1>4. Good = Nat
  <2>1. Good \in SUBSET Nat
    OBVIOUS
  <2> HIDE DEF Good
  <2> QED BY <1>2, <1>3, <2>1, NatInduct
<1>5. S \in Small(S, Cardinality(S)) /\ Cardinality(S) \in Nat
  BY <1>1 DEF Small
<1> QED BY <1>4, <1>5

(* A sum depends only on the numbers it sums.                               *)
LEMMA SumSame ==
  ASSUME NEW f, NEW r, NEW S, IsFiniteSet(S), Counted(f, S),
         \A i \in S : f[i] = r[i]
  PROVE  SumOver(f, S) = SumOver(r, S)
<1> DEFINE Good == {k \in Nat : \A u \in Small(S, k) : SumOver(f, u) = SumOver(r, u)}
<1>1. \A u \in SUBSET S : IsFiniteSet(u) /\ Cardinality(u) \in Nat
  BY FS_Subset, FS_CardinalityType
<1>2. 0 \in Good
  <2> SUFFICES ASSUME NEW u \in Small(S, 0) PROVE SumOver(f, u) = SumOver(r, u)
    OBVIOUS
  <2>1. u \in SUBSET S /\ Cardinality(u) <= 0
    BY DEF Small
  <2>2. u = {}
    BY <2>1, <1>1, FS_EmptySet
  <2> QED BY <2>2, SumEmpty
<1>3. ASSUME NEW k \in Good PROVE k + 1 \in Good
  <2> SUFFICES ASSUME NEW u \in Small(S, k + 1) PROVE SumOver(f, u) = SumOver(r, u)
    OBVIOUS
  <2>1. u \in SUBSET S /\ IsFiniteSet(u)
    BY <1>1 DEF Small
  <2>2. CASE u = {}
    BY <2>2, SumEmpty
  <2>3. CASE u # {}
    <3> DEFINE c == CHOOSE x \in u : TRUE
    <3>1. c \in u /\ u \ {c} \in Small(S, k)
      BY <2>3, SmallerLeft
    <3>2. SumOver(f, u \ {c}) = SumOver(r, u \ {c})
      BY <3>1, <1>3
    <3>3. f[c] = r[c]
      BY <3>1, <2>1
    <3>4. /\ SumOver(f, u) = f[c] + SumOver(f, u \ {c})
          /\ SumOver(r, u) = r[c] + SumOver(r, u \ {c})
      BY <2>1, <2>3, SumStepwise
    <3> HIDE DEF c
    <3> QED BY <3>2, <3>3, <3>4
  <2> QED BY <2>2, <2>3
<1>4. Good = Nat
  <2>1. Good \in SUBSET Nat
    OBVIOUS
  <2> HIDE DEF Good
  <2> QED BY <1>2, <1>3, <2>1, NatInduct
<1>5. S \in Small(S, Cardinality(S)) /\ Cardinality(S) \in Nat
  BY <1>1 DEF Small
<1> QED BY <1>4, <1>5

(* When one number changes, the sum changes as much.                        *)
LEMMA SumChange ==
  ASSUME NEW f, NEW g, NEW S, IsFiniteSet(S), Counted(f, S), Counted(g, S), NEW x \in S,
         \A y \in S : y # x => f[y] = g[y]
  PROVE  /\ SumOver(f, S) \in Nat /\ SumOver(g, S) \in Nat
         /\ f[x] \in Nat /\ g[x] \in Nat
         /\ f[x] <= SumOver(f, S) /\ g[x] <= SumOver(g, S)
         /\ SumOver(g, S) = SumOver(f, S) - f[x] + g[x]
<1> DEFINE T == S \ {x}
<1>1. IsFiniteSet(T) /\ Counted(f, T) /\ \A y \in T : f[y] = g[y]
  BY FS_Subset DEF Counted
<1>2. SumOver(f, S) = f[x] + SumOver(f, T) /\ SumOver(g, S) = g[x] + SumOver(g, T)
  BY SumTake
<1> HIDE DEF T
<1>3. SumOver(f, T) = SumOver(g, T) /\ SumOver(f, T) \in Nat
  BY <1>1, SumSame, SumNat
<1>4. f[x] \in Nat /\ g[x] \in Nat
  BY DEF Counted
<1> QED BY <1>2, <1>3, <1>4

(* A sum of numbers up to k.                                                *)
LEMMA SumBound ==
  ASSUME NEW f, NEW S, IsFiniteSet(S), Counted(f, S), NEW k \in Nat, \A x \in S : f[x] <= k
  PROVE  SumOver(f, S) <= k * Cardinality(S)
<1> DEFINE Good == {n \in Nat : \A u \in Small(S, n) : SumOver(f, u) <= k * n}
<1>1. \A u \in SUBSET S : IsFiniteSet(u) /\ Cardinality(u) \in Nat
  BY FS_Subset, FS_CardinalityType
<1>2. 0 \in Good
  <2> SUFFICES ASSUME NEW u \in Small(S, 0) PROVE SumOver(f, u) <= k * 0
    OBVIOUS
  <2>1. u \in SUBSET S /\ Cardinality(u) <= 0
    BY DEF Small
  <2>2. u = {}
    BY <2>1, <1>1, FS_EmptySet
  <2>3. k * 0 = 0
    OBVIOUS
  <2> QED BY <2>2, <2>3, SumEmpty
<1>3. ASSUME NEW n \in Good PROVE n + 1 \in Good
  <2>0. n \in Nat /\ k * n \in Nat /\ k * (n + 1) = k * n + k
    OBVIOUS
  <2> SUFFICES ASSUME NEW u \in Small(S, n + 1) PROVE SumOver(f, u) <= k * (n + 1)
    OBVIOUS
  <2>1. u \in SUBSET S /\ IsFiniteSet(u)
    BY <1>1 DEF Small
  <2>2. CASE u = {}
    BY <2>0, <2>2, SumEmpty
  <2>3. CASE u # {}
    <3> DEFINE c == CHOOSE x \in u : TRUE
    <3>1. c \in u /\ u \ {c} \in Small(S, n)
      BY <2>3, SmallerLeft
    <3>2. SumOver(f, u \ {c}) <= k * n
      BY <3>1, <1>3
    <3>3. f[c] \in Nat /\ f[c] <= k
      BY <3>1, <2>1 DEF Counted
    <3>4. SumOver(f, u) = f[c] + SumOver(f, u \ {c})
      BY <2>1, <2>3, SumStepwise
    <3>5. SumOver(f, u \ {c}) \in Nat
      <4>1. u \ {c} \in SUBSET S
        BY <2>1
      <4>2. IsFiniteSet(u \ {c}) /\ Counted(f, u \ {c})
        BY <1>1, <4>1 DEF Counted
      <4> QED BY <4>2, SumNat
    <3> HIDE DEF c
    <3> QED BY <2>0, <3>2, <3>3, <3>4, <3>5
  <2> QED BY <2>2, <2>3
<1>4. Good = Nat
  <2>1. Good \in SUBSET Nat
    OBVIOUS
  <2> HIDE DEF Good
  <2> QED BY <1>2, <1>3, <2>1, NatInduct
<1>5. S \in Small(S, Cardinality(S)) /\ Cardinality(S) \in Nat
  BY <1>1 DEF Small
<1> QED BY <1>4, <1>5

(* A part of the numbers adds up to no more than all of them.               *)
LEMMA SumSubset ==
  ASSUME NEW f, NEW S, IsFiniteSet(S), Counted(f, S), NEW T \in SUBSET S
  PROVE  SumOver(f, T) <= SumOver(f, S)
<1> DEFINE Good == {n \in Nat : \A u \in Small(S, n) : SumOver(f, u \cap T) <= SumOver(f, u)}
<1>1. \A u \in SUBSET S : /\ IsFiniteSet(u) /\ Cardinality(u) \in Nat
                          /\ Counted(f, u) /\ SumOver(f, u) \in Nat
  BY FS_Subset, FS_CardinalityType, SumNat DEF Counted
<1>2. 0 \in Good
  <2> SUFFICES ASSUME NEW u \in Small(S, 0) PROVE SumOver(f, u \cap T) <= SumOver(f, u)
    OBVIOUS
  <2>1. u \in SUBSET S /\ Cardinality(u) <= 0
    BY DEF Small
  <2>2. u = {}
    BY <2>1, <1>1, FS_EmptySet
  <2>3. u \cap T = u
    BY <2>2
  <2> QED BY <2>1, <2>3, <1>1
<1>3. ASSUME NEW k \in Good PROVE k + 1 \in Good
  <2>0. k \in Nat
    OBVIOUS
  <2> SUFFICES ASSUME NEW u \in Small(S, k + 1)
               PROVE  SumOver(f, u \cap T) <= SumOver(f, u)
    BY <2>0
  <2>1. u \in SUBSET S
    BY DEF Small
  <2>2. CASE u = {}
    <3>1. u \cap T = u
      BY <2>2
    <3>2. SumOver(f, u \cap T) = SumOver(f, u) /\ SumOver(f, u) \in Nat
      BY <2>1, <3>1, <1>1
    <3> QED BY <3>2
  <2>3. CASE u # {}
    <3> DEFINE c == CHOOSE x \in u : TRUE
               v == u \ {c}
    <3>1. c \in u /\ v \in Small(S, k)
      BY <2>3, <2>0, SmallerLeft
    <3> HIDE DEF c
    <3>2. SumOver(f, v \cap T) <= SumOver(f, v)
      BY <3>1
    <3>3. v \in SUBSET S /\ v \cap T \in SUBSET S /\ u \cap T \in SUBSET S
      BY <2>1
    <3>4. /\ SumOver(f, v) \in Nat /\ SumOver(f, v \cap T) \in Nat
          /\ IsFiniteSet(u \cap T) /\ Counted(f, u \cap T)
          /\ IsFiniteSet(u) /\ Counted(f, u)
      BY <2>1, <3>3, <1>1
    <3>5. SumOver(f, u) = f[c] + SumOver(f, v) /\ f[c] \in Nat
      BY <3>1, <3>4, SumTake DEF Counted
    <3>6. CASE c \in T
      <4>1. c \in u \cap T /\ (u \cap T) \ {c} = v \cap T
        BY <3>1, <3>6
      <4>2. SumOver(f, u \cap T) = f[c] + SumOver(f, (u \cap T) \ {c})
        BY <3>4, <4>1, SumTake
      <4>3. SumOver(f, u \cap T) = f[c] + SumOver(f, v \cap T)
        BY <4>1, <4>2
      <4> HIDE DEF v
      <4> QED BY <3>2, <3>4, <3>5, <4>3
    <3>7. CASE c \notin T
      <4>1. u \cap T = v \cap T
        BY <3>7
      <4> HIDE DEF v
      <4> QED BY <3>2, <3>4, <3>5, <4>1
    <3> QED BY <3>6, <3>7
  <2> QED BY <2>2, <2>3
<1>4. Good = Nat
  <2>1. Good \in SUBSET Nat
    OBVIOUS
  <2> HIDE DEF Good
  <2> QED BY <1>2, <1>3, <2>1, NatInduct
<1>5. S \in Small(S, Cardinality(S)) /\ Cardinality(S) \in Nat
  BY <1>1 DEF Small
<1>6. S \cap T = T
  OBVIOUS
<1> QED BY <1>4, <1>5, <1>6
=============================================================================
