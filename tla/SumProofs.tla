------------------------------ MODULE SumProofs ------------------------------
(***************************************************************************)
(* Sums of a function over a finite set, as the models write them with     *)
(* FoldFunctionOnSet: that the fold meets its recursion equation, and what *)
(* one element more, one element less or one changed value make of a sum.  *)
(*                                                                         *)
(* Induction is over a set, the set of those that have the property, for   *)
(* which a set of numbers that is not empty having a least element is      *)
(* enough.                                                                 *)
(*                                                                         *)
(* Then lists by counting what is before an element, and parts of a set    *)
(* that sum up to more than their share.                                   *)
(***************************************************************************)
EXTENDS Integers, FiniteSets, FiniteSetsExt, Functions, FiniteSetTheorems, WellFoundedInduction, TLAPS

SumOn(f, S) == FoldFunctionOnSet(LAMBDA a, b : a + b, 0, f, S)

LEMMA LeastNat ==
  ASSUME NEW T \in SUBSET Nat, T # {}
  PROVE  \E n \in T : \A m \in T : n <= m
<1> DEFINE R == OpToRel(<, Nat)
<1>1. IsWellFoundedOn(R, Nat)
  BY NatLessThanWellFounded
<1>2. \A x, y \in Nat : x < y => <<x, y>> \in R
  BY DEF OpToRel
<1> HIDE DEF R
<1>3. PICK n \in T : \A m \in T : ~(<<m, n>> \in R)
  BY <1>1, WFMin
<1>4. ASSUME NEW m \in T PROVE n <= m
  <2>1. m \in Nat /\ n \in Nat /\ ~(m < n)
    BY <1>2, <1>3
  <2> QED
    BY <2>1
<1> QED
  BY <1>4

(* A set of numbers that holds 0 and with a number the next one holds all. *)
LEMMA NumberInduction ==
  ASSUME NEW Q, 0 \in Q, \A n \in Nat : n \in Q => n + 1 \in Q
  PROVE  Nat \subseteq Q
<1> DEFINE Bad == Nat \ Q
<1>1. ASSUME Bad # {} PROVE FALSE
  <2>1. PICK n \in Bad : \A m \in Bad : n <= m
    BY <1>1, LeastNat
  <2>2. n # 0 /\ n - 1 \in Nat
    BY <2>1
  <2>3. n - 1 \in Q
    BY <2>1, <2>2
  <2>4. (n - 1) + 1 \in Q
    BY <2>2, <2>3
  <2>5. (n - 1) + 1 = n
    BY <2>1
  <2> QED
    BY <2>1, <2>4, <2>5
<1> QED
  BY <1>1

(* A set of sets that holds every subset of S whose smaller sets it holds. *)
LEMMA FiniteInduction ==
  ASSUME NEW S, IsFiniteSet(S), NEW Q,
         \A T \in SUBSET S : (\A x \in T : T \ {x} \in Q) => T \in Q
  PROVE  \A T \in SUBSET S : T \in Q
<1> DEFINE N == {n \in Nat : \A T \in SUBSET S : Cardinality(T) = n => T \in Q}
<1>1. 0 \in N
  <2> SUFFICES ASSUME NEW T \in SUBSET S, Cardinality(T) = 0 PROVE T \in Q
    OBVIOUS
  <2>1. T = {}
    BY FS_Subset, FS_EmptySet
  <2> QED
    BY <2>1
<1>2. ASSUME NEW n \in Nat, n \in N PROVE n + 1 \in N
  <2> SUFFICES ASSUME NEW T \in SUBSET S, Cardinality(T) = n + 1 PROVE T \in Q
    OBVIOUS
  <2>1. ASSUME NEW x \in T PROVE T \ {x} \in Q
    <3>1. IsFiniteSet(T)
      BY FS_Subset
    <3>2. Cardinality(T \ {x}) = (n + 1) - 1
      BY <3>1, FS_RemoveElement
    <3>3. Cardinality(T \ {x}) = n
      BY <3>2
    <3> QED
      BY <1>2, <3>3
  <2> QED
    BY <2>1
<1> HIDE DEF N
<1>3. Nat \subseteq N
  BY <1>1, <1>2, NumberInduction
<1> USE DEF N
<1> QED
  <2> SUFFICES ASSUME NEW T \in SUBSET S PROVE T \in Q
    OBVIOUS
  <2>1. Cardinality(T) \in Nat
    BY FS_Subset, FS_CardinalityType
  <2>2. Cardinality(T) \in N
    BY <1>3, <2>1
  <2> QED
    BY <2>2

LEMMA MaxFact ==
  ASSUME NEW S \in SUBSET Int, IsFiniteSet(S), S # {}
  PROVE  Max(S) \in S /\ \A x \in S : x <= Max(S)
<1> DEFINE Topped(T) == T = {} \/ \E x \in T : \A y \in T : x >= y
           Q == {T \in SUBSET S : Topped(T)}
<1>1. ASSUME NEW T \in SUBSET S, \A x \in T : T \ {x} \in Q PROVE T \in Q
  <2>1. CASE T = {}
    BY <2>1
  <2>2. CASE T # {}
    <3>1. PICK x \in T : TRUE
      BY <2>2
    <3>2. Topped(T \ {x})
      BY <1>1
    <3>3. CASE T \ {x} = {}
      BY <3>1, <3>3
    <3>4. CASE T \ {x} # {}
      <4>1. PICK y \in T \ {x} : \A z \in T \ {x} : y >= z
        BY <3>2, <3>4
      <4>2. CASE x >= y
        <5>1. \A z \in T : x >= z
          BY <4>1, <4>2
        <5> QED
          BY <5>1
      <4>3. CASE ~(x >= y)
        <5>1. \A z \in T : y >= z
          BY <4>1, <4>3
        <5> QED
          BY <5>1
      <4> QED
        BY <4>2, <4>3
    <3> QED
      BY <3>3, <3>4
  <2> QED
    BY <2>1, <2>2
<1>2. \A T \in SUBSET S : (\A x \in T : T \ {x} \in Q) => T \in Q
  BY <1>1
<1> HIDE DEF Q
<1>3. \A T \in SUBSET S : T \in Q
  BY <1>2, FiniteInduction
<1>4. S \in Q
  BY <1>3
<1>5. \E x \in S : \A y \in S : x >= y
  BY <1>4 DEF Q
<1> QED
  BY <1>5 DEF Max

LEMMA FiniteImage ==
  ASSUME NEW S, IsFiniteSet(S), NEW f
  PROVE  IsFiniteSet({f[x] : x \in S})
<1> DEFINE Image(T) == {f[x] : x \in T}
           Q == {T \in SUBSET S : IsFiniteSet(Image(T))}
<1>1. ASSUME NEW T \in SUBSET S, \A x \in T : T \ {x} \in Q PROVE T \in Q
  <2>1. CASE T = {}
    <3>1. Image(T) = {}
      BY <2>1
    <3> QED
      BY <3>1, FS_EmptySet
  <2>2. CASE T # {}
    <3>1. PICK x \in T : IsFiniteSet(Image(T \ {x}))
      BY <1>1, <2>2
    <3>2. Image(T) = Image(T \ {x}) \cup {f[x]}
      BY <3>1
    <3>3. \A U, y : IsFiniteSet(U) => IsFiniteSet(U \cup {y})
      BY FS_AddElement
    <3>4. IsFiniteSet(Image(T \ {x}) \cup {f[x]})
      BY <3>1, <3>3
    <3> QED
      BY <3>2, <3>4
  <2> QED
    BY <2>1, <2>2
<1>2. \A T \in SUBSET S : (\A x \in T : T \ {x} \in Q) => T \in Q
  BY <1>1
<1> HIDE DEF Q
<1>3. \A T \in SUBSET S : T \in Q
  BY <1>2, FiniteInduction
<1>4. S \in Q
  BY <1>3
<1> QED
  BY <1>4 DEF Q

-----------------------------------------------------------------------------
(* The fold's recursion equation *)

Pick(T) == CHOOSE x \in T : TRUE

(* What the fold asks of g at one set. *)
Adds(g, f, T) == g[T] = IF T = {} THEN 0 ELSE f[Pick(T)] + g[T \ {Pick(T)}]

(* What it asks of g as a whole. *)
IsFold(g, f, S) == g = [T \in SUBSET S |-> IF T = {} THEN 0 ELSE f[Pick(T)] + g[T \ {Pick(T)}]]

LEMMA PickFact == ASSUME NEW T, T # {} PROVE Pick(T) \in T
  BY DEF Pick

LEMMA SmallerFact ==
  ASSUME NEW S, IsFiniteSet(S), NEW T \in SUBSET S, T # {}, NEW x \in T
  PROVE  /\ T \ {x} \in SUBSET S /\ IsFiniteSet(T) /\ IsFiniteSet(T \ {x})
         /\ Cardinality(T) \in Nat /\ Cardinality(T \ {x}) \in Nat
         /\ Cardinality(T \ {x}) = Cardinality(T) - 1
  BY FS_Subset, FS_RemoveElement, FS_CardinalityType

LEMMA FoldIsChosen ==
  ASSUME NEW f, NEW S
  PROVE  SumOn(f, S) = (CHOOSE g : IsFold(g, f, S))[S]
  BY DEF SumOn, FoldFunctionOnSet, MapThenFoldSet, IsFold, Pick

(* There is such a g: it can be made for the sets of up to n elements. *)
LEMMA FoldExists ==
  ASSUME NEW f, NEW S, IsFiniteSet(S)
  PROVE  \E g : IsFold(g, f, S)
<1> DEFINE Good(n, g) == /\ g = [T \in SUBSET S |-> g[T]]
                         /\ \A T \in SUBSET S : Cardinality(T) <= n => Adds(g, f, T)
           N == {n \in Nat : \E g : Good(n, g)}
<1>1. \A T \in SUBSET S : IsFiniteSet(T) /\ Cardinality(T) \in Nat
  BY FS_Subset, FS_CardinalityType
<1>2. 0 \in N
  <2> DEFINE g == [T \in SUBSET S |-> 0]
  <2>1. ASSUME NEW T \in SUBSET S, Cardinality(T) <= 0 PROVE Adds(g, f, T)
    <3>1. T = {}
      BY <1>1, <2>1, FS_EmptySet
    <3>2. g[T] = 0
      OBVIOUS
    <3> QED
      BY <3>1, <3>2 DEF Adds
  <2>2. g = [T \in SUBSET S |-> g[T]]
    OBVIOUS
  <2> HIDE DEF g
  <2> QED
    BY <2>1, <2>2
<1>3. ASSUME NEW n \in Nat, n \in N PROVE n + 1 \in N
  <2>1. PICK g : Good(n, g)
    BY <1>3
  <2> DEFINE h == [T \in SUBSET S |-> IF Cardinality(T) <= n THEN g[T]
                                       ELSE f[Pick(T)] + g[T \ {Pick(T)}]]
  <2>2. \A T \in SUBSET S : h[T] = IF Cardinality(T) <= n THEN g[T]
                                   ELSE f[Pick(T)] + g[T \ {Pick(T)}]
    OBVIOUS
  <2>3. h = [T \in SUBSET S |-> h[T]]
    OBVIOUS
  <2> HIDE DEF h
  <2>4. ASSUME NEW T \in SUBSET S, Cardinality(T) <= n + 1 PROVE Adds(h, f, T)
    <3>1. CASE T = {}
      <4>1. Cardinality(T) <= n
        BY <3>1, FS_EmptySet
      <4> QED
        BY <2>1, <2>2, <3>1, <4>1 DEF Adds
    <3>2. CASE T # {}
      <4>1. /\ T \ {Pick(T)} \in SUBSET S /\ Cardinality(T \ {Pick(T)}) = Cardinality(T) - 1
            /\ Cardinality(T) \in Nat
        BY <3>2, PickFact, SmallerFact
      <4>2. Cardinality(T \ {Pick(T)}) <= n
        BY <2>4, <4>1
      <4>3. h[T \ {Pick(T)}] = g[T \ {Pick(T)}]
        BY <2>2, <4>1, <4>2
      <4>4. h[T] = f[Pick(T)] + g[T \ {Pick(T)}]
        BY <2>1, <2>2, <3>2 DEF Adds
      <4> QED
        BY <3>2, <4>3, <4>4 DEF Adds
    <3> QED
      BY <3>1, <3>2
  <2>5. Good(n + 1, h)
    BY <2>3, <2>4
  <2> HIDE DEF Good
  <2>6. n + 1 \in Nat
    OBVIOUS
  <2> QED
    BY <2>5, <2>6
<1> HIDE DEF N
<1>4. Cardinality(S) \in N
  BY <1>2, <1>3, NumberInduction, FS_CardinalityType
<1> USE DEF N
<1>5. PICK g : Good(Cardinality(S), g)
  BY <1>4
<1>6. ASSUME NEW T \in SUBSET S PROVE Adds(g, f, T)
  <2>1. Cardinality(T) <= Cardinality(S)
    BY FS_Subset
  <2> QED
    BY <1>5, <2>1
<1>7. IsFold(g, f, S)
  BY <1>5, <1>6 DEF Adds, IsFold
<1> QED
  BY <1>7

(* The fold of a set is a g that adds up every subset. *)
LEMMA FoldAdds ==
  ASSUME NEW f, NEW S, IsFiniteSet(S)
  PROVE  \E g : SumOn(f, S) = g[S] /\ \A T \in SUBSET S : Adds(g, f, T)
<1> DEFINE c == CHOOSE g : IsFold(g, f, S)
<1>1. \E g : IsFold(g, f, S)
  BY FoldExists
<1>2. IsFold(c, f, S)
  BY <1>1
<1>3. SumOn(f, S) = c[S]
  BY FoldIsChosen
<1> HIDE DEF c
<1>4. \A T \in SUBSET S : Adds(c, f, T)
  BY <1>2 DEF Adds, IsFold
<1> QED
  BY <1>3, <1>4

(* Two that add up agree, wherever both do. *)
LEMMA FoldIsUnique ==
  ASSUME NEW f, NEW S, IsFiniteSet(S), NEW g, NEW h,
         \A T \in SUBSET S : Adds(g, f, T), \A T \in SUBSET S : Adds(h, f, T)
  PROVE  g[S] = h[S]
<1> DEFINE Q == {T \in SUBSET S : g[T] = h[T]}
<1>1. ASSUME NEW T \in SUBSET S, \A x \in T : T \ {x} \in Q PROVE T \in Q
  BY <1>1, PickFact DEF Adds
<1>2. \A T \in SUBSET S : (\A x \in T : T \ {x} \in Q) => T \in Q
  BY <1>1
<1> HIDE DEF Q
<1>3. \A T \in SUBSET S : T \in Q
  BY <1>2, FiniteInduction
<1>4. S \in Q
  BY <1>3
<1> USE DEF Q
<1> QED
  BY <1>4

-----------------------------------------------------------------------------
(* What a sum is *)

LEMMA SumEmpty == ASSUME NEW f PROVE SumOn(f, {}) = 0
  BY FoldAdds, FS_EmptySet DEF Adds

LEMMA SumPick ==
  ASSUME NEW f, NEW S, IsFiniteSet(S), S # {}
  PROVE  SumOn(f, S) = f[Pick(S)] + SumOn(f, S \ {Pick(S)})
<1> DEFINE R == S \ {Pick(S)}
<1>1. R \in SUBSET S /\ IsFiniteSet(R)
  BY FS_Subset
<1>2. PICK g : SumOn(f, S) = g[S] /\ \A T \in SUBSET S : Adds(g, f, T)
  BY FoldAdds
<1>3. PICK h : SumOn(f, R) = h[R] /\ \A T \in SUBSET R : Adds(h, f, T)
  BY <1>1, FoldAdds
<1>4. g[R] = h[R]
  BY <1>1, <1>2, <1>3, FoldIsUnique
<1>5. g[S] = f[Pick(S)] + g[R]
  BY <1>2 DEF Adds
<1> QED
  BY <1>2, <1>3, <1>4, <1>5

LEMMA SumInt ==
  ASSUME NEW f, NEW S, IsFiniteSet(S), \A x \in S : f[x] \in Int
  PROVE  SumOn(f, S) \in Int
<1> DEFINE Q == {T \in SUBSET S : SumOn(f, T) \in Int}
<1>1. ASSUME NEW T \in SUBSET S, \A x \in T : T \ {x} \in Q PROVE T \in Q
  <2>1. CASE T = {}
    BY <2>1, SumEmpty
  <2>2. CASE T # {}
    <3>1. SumOn(f, T) = f[Pick(T)] + SumOn(f, T \ {Pick(T)}) /\ Pick(T) \in T
      BY <2>2, FS_Subset, SumPick, PickFact
    <3> QED
      BY <1>1, <3>1
  <2> QED
    BY <2>1, <2>2
<1>2. \A T \in SUBSET S : (\A x \in T : T \ {x} \in Q) => T \in Q
  BY <1>1
<1> HIDE DEF Q
<1>3. \A T \in SUBSET S : T \in Q
  BY <1>2, FiniteInduction
<1>4. S \in Q
  BY <1>3
<1> QED
  BY <1>4 DEF Q

LEMMA SumNat ==
  ASSUME NEW f, NEW S, IsFiniteSet(S), \A x \in S : f[x] \in Nat
  PROVE  SumOn(f, S) \in Nat
<1> DEFINE Q == {T \in SUBSET S : SumOn(f, T) \in Nat}
<1>1. ASSUME NEW T \in SUBSET S, \A x \in T : T \ {x} \in Q PROVE T \in Q
  <2>1. CASE T = {}
    BY <2>1, SumEmpty
  <2>2. CASE T # {}
    <3>1. SumOn(f, T) = f[Pick(T)] + SumOn(f, T \ {Pick(T)}) /\ Pick(T) \in T
      BY <2>2, FS_Subset, SumPick, PickFact
    <3> QED
      BY <1>1, <3>1
  <2> QED
    BY <2>1, <2>2
<1>2. \A T \in SUBSET S : (\A x \in T : T \ {x} \in Q) => T \in Q
  BY <1>1
<1> HIDE DEF Q
<1>3. \A T \in SUBSET S : T \in Q
  BY <1>2, FiniteInduction
<1>4. S \in Q
  BY <1>3
<1> QED
  BY <1>4 DEF Q

(* Only the values on the set count. *)
LEMMA SumSame ==
  ASSUME NEW f, NEW g, NEW S, IsFiniteSet(S), \A x \in S : f[x] = g[x]
  PROVE  SumOn(f, S) = SumOn(g, S)
<1> DEFINE Q == {T \in SUBSET S : SumOn(f, T) = SumOn(g, T)}
<1>1. ASSUME NEW T \in SUBSET S, \A x \in T : T \ {x} \in Q PROVE T \in Q
  <2>1. CASE T = {}
    BY <2>1, SumEmpty
  <2>2. CASE T # {}
    <3>1. /\ SumOn(f, T) = f[Pick(T)] + SumOn(f, T \ {Pick(T)})
          /\ SumOn(g, T) = g[Pick(T)] + SumOn(g, T \ {Pick(T)})
          /\ Pick(T) \in T
      BY <2>2, FS_Subset, SumPick, PickFact
    <3> QED
      BY <1>1, <3>1
  <2> QED
    BY <2>1, <2>2
<1>2. \A T \in SUBSET S : (\A x \in T : T \ {x} \in Q) => T \in Q
  BY <1>1
<1> HIDE DEF Q
<1>3. \A T \in SUBSET S : T \in Q
  BY <1>2, FiniteInduction
<1>4. S \in Q
  BY <1>3
<1> QED
  BY <1>4 DEF Q

(* Any element may be taken out first. *)
LEMMA SumRemove ==
  ASSUME NEW f, NEW S, IsFiniteSet(S), \A x \in S : f[x] \in Int, NEW x \in S
  PROVE  SumOn(f, S) = f[x] + SumOn(f, S \ {x})
<1> DEFINE Q == {T \in SUBSET S : \A y \in T : SumOn(f, T) = f[y] + SumOn(f, T \ {y})}
<1>1. ASSUME NEW T \in SUBSET S, \A y \in T : T \ {y} \in Q, NEW y \in T
      PROVE  SumOn(f, T) = f[y] + SumOn(f, T \ {y})
  <2> DEFINE p == Pick(T)
             both == SumOn(f, (T \ {p}) \ {y})
  <2>1. p \in T /\ IsFiniteSet(T)
    BY PickFact, FS_Subset
  <2>2. SumOn(f, T) = f[p] + SumOn(f, T \ {p})
    BY <2>1, SumPick
  <2>3. CASE y = p
    BY <2>2, <2>3
  <2>4. CASE y # p
    <3>1. SumOn(f, T \ {p}) = f[y] + both
      BY <1>1, <2>1, <2>4
    <3>2. (T \ {y}) \ {p} = (T \ {p}) \ {y}
      OBVIOUS
    <3>3. SumOn(f, T \ {y}) = f[p] + both
      BY <1>1, <2>1, <2>4, <3>2
    <3>4. f[p] \in Int /\ f[y] \in Int /\ both \in Int
      <4>1. IsFiniteSet((T \ {p}) \ {y})
        BY <2>1, FS_Subset
      <4> QED
        BY <2>1, <4>1, SumInt
    <3> HIDE DEF p, both
    <3> QED
      BY <2>2, <3>1, <3>3, <3>4
  <2> QED
    BY <2>3, <2>4
<1>2. \A T \in SUBSET S : (\A y \in T : T \ {y} \in Q) => T \in Q
  BY <1>1
<1> HIDE DEF Q
<1>3. \A T \in SUBSET S : T \in Q
  BY <1>2, FiniteInduction
<1>4. S \in Q
  BY <1>3
<1> QED
  BY <1>4 DEF Q

-----------------------------------------------------------------------------
(* What one element makes of a sum *)

LEMMA SumAdd ==
  ASSUME NEW f, NEW S, IsFiniteSet(S), NEW x, x \notin S, \A y \in S \cup {x} : f[y] \in Int
  PROVE  SumOn(f, S \cup {x}) = f[x] + SumOn(f, S)
<1>1. IsFiniteSet(S \cup {x}) /\ (S \cup {x}) \ {x} = S
  BY FS_AddElement
<1> DEFINE U == S \cup {x}
<1>2. x \in U /\ \A y \in U : f[y] \in Int
  OBVIOUS
<1>3. IsFiniteSet(U) /\ U \ {x} = S
  BY <1>1
<1> HIDE DEF U
<1>4. SumOn(f, U) = f[x] + SumOn(f, S)
  BY <1>2, <1>3, SumRemove
<1> QED
  BY <1>4 DEF U

(* Two functions that differ at one element. *)
LEMMA SumChange ==
  ASSUME NEW f, NEW g, NEW S, IsFiniteSet(S), NEW x \in S,
         \A y \in S : f[y] \in Int /\ g[y] \in Int, \A y \in S \ {x} : f[y] = g[y]
  PROVE  SumOn(g, S) = SumOn(f, S) + (g[x] - f[x])
<1>1. IsFiniteSet(S \ {x})
  BY FS_Subset
<1>2. SumOn(f, S) = f[x] + SumOn(f, S \ {x}) /\ SumOn(g, S) = g[x] + SumOn(g, S \ {x})
  BY SumRemove
<1>3. SumOn(f, S \ {x}) = SumOn(g, S \ {x})
  BY <1>1, SumSame
<1>4. SumOn(f, S \ {x}) \in Int
  BY <1>1, SumInt
<1> QED
  BY <1>2, <1>3, <1>4

LEMMA SumZero ==
  ASSUME NEW f, NEW S, IsFiniteSet(S), \A x \in S : f[x] = 0
  PROVE  SumOn(f, S) = 0
<1> DEFINE Q == {T \in SUBSET S : SumOn(f, T) = 0}
<1>1. ASSUME NEW T \in SUBSET S, \A x \in T : T \ {x} \in Q PROVE T \in Q
  <2>1. CASE T = {}
    BY <2>1, SumEmpty
  <2>2. CASE T # {}
    <3>1. SumOn(f, T) = f[Pick(T)] + SumOn(f, T \ {Pick(T)}) /\ Pick(T) \in T
      BY <2>2, FS_Subset, SumPick, PickFact
    <3> QED
      BY <1>1, <3>1
  <2> QED
    BY <2>1, <2>2
<1>2. \A T \in SUBSET S : (\A x \in T : T \ {x} \in Q) => T \in Q
  BY <1>1
<1> HIDE DEF Q
<1>3. \A T \in SUBSET S : T \in Q
  BY <1>2, FiniteInduction
<1>4. S \in Q
  BY <1>3
<1> QED
  BY <1>4 DEF Q

(* A sum over a part of S, as one over S. *)
LEMMA SumWithin ==
  ASSUME NEW S, IsFiniteSet(S), NEW T \in SUBSET S, NEW f, NEW g,
         \A x \in T : f[x] \in Int /\ g[x] = f[x], \A x \in S \ T : g[x] = 0
  PROVE  SumOn(f, T) = SumOn(g, S)
<1> DEFINE Q == {U \in SUBSET S : SumOn(f, U \cap T) = SumOn(g, U)}
<1>1. ASSUME NEW U \in SUBSET S, \A x \in U : U \ {x} \in Q PROVE U \in Q
  <2>1. CASE U = {}
    <3>1. U \cap T = {}
      BY <2>1
    <3> QED
      BY <2>1, <3>1, SumEmpty
  <2>2. CASE U # {}
    <3>1. PICK x \in U : TRUE
      BY <2>2
    <3> DEFINE V == U \ {x}
    <3>2. V \in SUBSET S /\ SumOn(f, V \cap T) = SumOn(g, V) /\ U = V \cup {x} /\ x \notin V
      BY <1>1, <3>1
    <3> HIDE DEF V
    <3>3. /\ IsFiniteSet(V) /\ IsFiniteSet(V \cap T)
          /\ \A y \in V \cup {x} : g[y] \in Int
      BY <3>1, <3>2, FS_Subset
    <3>4. SumOn(g, V \cup {x}) = g[x] + SumOn(g, V)
      BY <3>2, <3>3, SumAdd
    <3>5. SumOn(g, V) \in Int
      BY <3>3, SumInt
    <3>6. CASE x \in T
      <4>1. (V \cup {x}) \cap T = (V \cap T) \cup {x} /\ x \notin V \cap T
        BY <3>2, <3>6
      <4>2. \A y \in (V \cap T) \cup {x} : f[y] \in Int
        BY <3>6
      <4>3. SumOn(f, (V \cap T) \cup {x}) = f[x] + SumOn(f, V \cap T)
        BY <3>3, <4>1, <4>2, SumAdd
      <4> QED
        BY <3>2, <3>4, <3>6, <4>1, <4>3
    <3>7. CASE x \notin T
      <4>1. (V \cup {x}) \cap T = V \cap T /\ g[x] = 0
        BY <3>1, <3>7
      <4>2. SumOn(g, V \cup {x}) = SumOn(g, V)
        BY <3>4, <3>5, <4>1
      <4> QED
        BY <3>2, <4>1, <4>2
    <3> QED
      BY <3>6, <3>7
  <2> QED
    BY <2>1, <2>2
<1>2. \A U \in SUBSET S : (\A x \in U : U \ {x} \in Q) => U \in Q
  BY <1>1
<1> HIDE DEF Q
<1>3. \A U \in SUBSET S : U \in Q
  BY <1>2, FiniteInduction
<1>4. S \in Q
  BY <1>3
<1>5. S \cap T = T
  OBVIOUS
<1> QED
  BY <1>4, <1>5 DEF Q

-----------------------------------------------------------------------------
(* Lists by counting: under a strict total order of a finite set, each     *)
(* number below its size counts what is before exactly one element.        *)

Orders(R, S) ==
  /\ \A i \in S : <<i, i>> \notin R
  /\ \A i, j \in S : i # j => <<i, j>> \in R \/ <<j, i>> \in R
  /\ \A i, j, k \in S : <<i, j>> \in R /\ <<j, k>> \in R => <<i, k>> \in R

(* How many of S are before each.                                          *)
Counts(before, R, S) == before = [i \in S |-> Cardinality({j \in S : <<j, i>> \in R})]
(* A numbering of S from 0.                                                *)
Numbers(before, S) ==
  /\ \A i, j \in S : before[i] = before[j] => i = j
  /\ \A i \in S : before[i] \in 0..Cardinality(S)-1
  /\ \A k \in 0..Cardinality(S)-1 : \E i \in S : before[i] = k

(* The counts of an order are 0, 1, ... in some order.                     *)
LEMMA CountsAreNumbers ==
  ASSUME NEW S, IsFiniteSet(S), NEW R, Orders(R, S),
         NEW before, Counts(before, R, S)
  PROVE  Numbers(before, S)
<1> DEFINE Below(i) == {j \in S : <<j, i>> \in R}
           n == Cardinality(S)
<1>1. n \in Nat
  BY FS_CardinalityType
<1>2. ASSUME NEW i \in S
      PROVE  IsFiniteSet(Below(i)) /\ before[i] \in 0..n-1 /\ before[i] = Cardinality(Below(i))
  <2>1. Below(i) \in SUBSET (S \ {i})
    BY DEF Orders
  <2>2. IsFiniteSet(S \ {i}) /\ Cardinality(S \ {i}) = n - 1
    BY FS_RemoveElement
  <2>3. IsFiniteSet(Below(i)) /\ Cardinality(Below(i)) <= n - 1
    <3> HIDE DEF Below, n
    <3> QED
      BY <2>1, <2>2, FS_Subset
  <2>4. Cardinality(Below(i)) \in Nat
    <3> HIDE DEF Below
    <3> QED
      BY <2>3, FS_CardinalityType
  <2>5. before[i] = Cardinality(Below(i))
    BY DEF Counts
  <2> HIDE DEF Below, n
  <2> QED
    BY <1>1, <2>3, <2>4, <2>5
<1>3. ASSUME NEW i \in S, NEW j \in S, <<i, j>> \in R PROVE before[i] < before[j]
  <2> DEFINE rest == Below(j) \ {i}
  <2>1. Below(i) \in SUBSET rest /\ i \in Below(j)
    BY <1>3 DEF Orders
  <2>2. IsFiniteSet(Below(j)) /\ IsFiniteSet(Below(i))
    BY <1>2
  <2>3. IsFiniteSet(rest) /\ Cardinality(rest) = Cardinality(Below(j)) - 1
    <3> HIDE DEF Below
    <3> QED
      BY <2>1, <2>2, FS_RemoveElement
  <2>4. Cardinality(Below(i)) <= Cardinality(rest)
    <3> HIDE DEF Below, rest
    <3> QED
      BY <2>1, <2>3, FS_Subset
  <2>5. /\ before[i] = Cardinality(Below(i)) /\ before[i] \in 0..n-1
        /\ before[j] = Cardinality(Below(j)) /\ before[j] \in 0..n-1
    BY <1>2
  <2> HIDE DEF Below, rest, n
  <2> QED
    BY <1>1, <2>3, <2>4, <2>5
<1>4. \A i, j \in S : before[i] = before[j] => i = j
  <2> SUFFICES ASSUME NEW i \in S, NEW j \in S, before[i] = before[j], i # j PROVE FALSE
    OBVIOUS
  <2>1. <<i, j>> \in R \/ <<j, i>> \in R
    BY DEF Orders
  <2>2. before[i] < before[j] \/ before[j] < before[i]
    BY <1>3, <2>1
  <2>3. before[i] \in 0..n-1 /\ before[j] \in 0..n-1
    BY <1>2
  <2> HIDE DEF n
  <2> QED
    BY <1>1, <2>2, <2>3
<1>5. \A i \in S : before[i] \in 0..n-1
  BY <1>2
<1>6. \A k \in 0..n-1 : \E i \in S : before[i] = k
  <2> DEFINE T == 0..n-1
  <2>1. IsFiniteSet(T) /\ Cardinality(T) = n
    <3>1. n - 1 \in Int /\ 0 \in Int
      BY <1>1
    <3>2. IsFiniteSet(0..n-1) /\ Cardinality(0..n-1) = IF 0 > n-1 THEN 0 ELSE n - 1 - 0 + 1
      BY <3>1, FS_Interval
    <3> HIDE DEF n
    <3> QED
      BY <1>1, <3>2
  <2>2. before \in [S -> T]
    BY <1>5 DEF Counts
  <2> HIDE DEF T
  <2>3. before \in Injection(S, T)
    BY <1>4, <2>2 DEF Injection, IsInjective
  <2>4. before \in Surjection(S, T)
    BY <2>1, <2>3, FS_Injection DEF n
  <2>5. \A t \in T : \E i \in S : before[i] = t
    BY <2>4 DEF Surjection
  <2> QED
    BY <2>5 DEF T
<1> QED
  BY <1>4, <1>5, <1>6 DEF Numbers

-----------------------------------------------------------------------------
(* Sums of counts *)

(* Adding up in another order, or under other names.                       *)
LEMMA SumRenamed ==
  ASSUME NEW D, IsFiniteSet(D), NEW p, \A i, j \in D : p[i] = p[j] => i = j,
         NEW f, \A i \in D : f[p[i]] \in Int
  PROVE  SumOn([i \in D |-> f[p[i]]], D) = SumOn(f, {p[i] : i \in D})
<1> DEFINE g == [i \in D |-> f[p[i]]]
           Image(T) == {p[i] : i \in T}
           Q == {T \in SUBSET D : SumOn(g, T) = SumOn(f, Image(T))}
<1>1. ASSUME NEW T \in SUBSET D, \A x \in T : T \ {x} \in Q PROVE T \in Q
  <2>1. CASE T = {}
    <3>1. Image(T) = {}
      BY <2>1
    <3>2. SumOn(g, T) = 0 /\ SumOn(f, Image(T)) = 0
      <4> HIDE DEF g, Image
      <4> QED
        BY <2>1, <3>1, SumEmpty
    <3> QED
      BY <3>2
  <2>2. ASSUME NEW x \in T PROVE T \in Q
    <3> DEFINE U == T \ {x}
    <3>1. IsFiniteSet(T) /\ IsFiniteSet(U)
      BY FS_Subset
    <3>2. \A i \in T : g[i] \in Int
      OBVIOUS
    <3>3. SumOn(g, T) = g[x] + SumOn(g, U)
      <4> HIDE DEF g
      <4> QED
        BY <3>1, <3>2, SumRemove
    <3>4. SumOn(g, U) = SumOn(f, Image(U))
      BY <1>1, <2>2
    <3>5. Image(T) = Image(U) \cup {p[x]} /\ p[x] \notin Image(U) /\ g[x] = f[p[x]]
      OBVIOUS
    <3>6. IsFiniteSet(Image(U))
      BY <3>1, FiniteImage
    <3>7. \A y \in Image(U) \cup {p[x]} : f[y] \in Int
      OBVIOUS
    <3>8. SumOn(f, Image(T)) = f[p[x]] + SumOn(f, Image(U))
      <4> HIDE DEF Image
      <4> QED
        BY <3>5, <3>6, <3>7, SumAdd
    <3>9. SumOn(g, T) = SumOn(f, Image(T))
      <4> HIDE DEF g, Image, U
      <4> QED
        BY <3>3, <3>4, <3>5, <3>8
    <3> QED
      BY <3>9
  <2> QED
    BY <2>1, <2>2
<1>2. D \in Q
  <2>1. \A T \in SUBSET D : T \in Q
    <3> HIDE DEF Q
    <3> QED
      BY <1>1, FiniteInduction
  <2> QED
    BY <2>1
<1> QED
  BY <1>2

(* A part of what is never below zero adds up to no more.                  *)
LEMMA SumOfPart ==
  ASSUME NEW S, IsFiniteSet(S), NEW T \in SUBSET S, NEW f, \A x \in S : f[x] \in Nat
  PROVE  SumOn(f, T) \in Nat /\ SumOn(f, S) \in Nat /\ SumOn(f, T) <= SumOn(f, S)
<1> DEFINE Q == {U \in SUBSET S : SumOn(f, T \cap U) <= SumOn(f, U)}
<1>1. ASSUME NEW U \in SUBSET S PROVE SumOn(f, U) \in Nat /\ IsFiniteSet(U)
  <2>1. IsFiniteSet(U) /\ \A x \in U : f[x] \in Nat
    BY FS_Subset
  <2> QED
    BY <2>1, SumNat
<1>2. ASSUME NEW U \in SUBSET S, \A x \in U : U \ {x} \in Q PROVE U \in Q
  <2>1. CASE U = {}
    <3>1. T \cap U = U
      BY <2>1
    <3>2. SumOn(f, U) \in Nat
      BY <1>1
    <3> QED
      BY <3>1, <3>2
  <2>2. ASSUME NEW x \in U PROVE U \in Q
    <3> DEFINE V == U \ {x}
               W == T \cap V
    <3>1. SumOn(f, W) <= SumOn(f, V)
      BY <1>2, <2>2
    <3>2. SumOn(f, U) = f[x] + SumOn(f, V)
      <4>1. IsFiniteSet(U) /\ \A y \in U : f[y] \in Int
        BY <1>1
      <4> QED
        BY <4>1, SumRemove
    <3>3. SumOn(f, V) \in Nat /\ SumOn(f, W) \in Nat /\ f[x] \in Nat
      BY <1>1
    <3>4. SumOn(f, T \cap U) = SumOn(f, W) \/ SumOn(f, T \cap U) = f[x] + SumOn(f, W)
      <4>1. CASE x \notin T
        <5>1. T \cap U = W
          BY <4>1
        <5> QED
          BY <5>1
      <4>2. CASE x \in T
        <5>1. T \cap U = W \cup {x} /\ x \notin W
          BY <4>2
        <5>2. IsFiniteSet(W) /\ \A y \in W \cup {x} : f[y] \in Int
          BY <1>1
        <5>3. SumOn(f, W \cup {x}) = f[x] + SumOn(f, W)
          <6> HIDE DEF W
          <6> QED
            BY <5>1, <5>2, SumAdd
        <5> QED
          BY <5>1, <5>3
      <4> QED
        BY <4>1, <4>2
    <3>5. SumOn(f, T \cap U) <= SumOn(f, U)
      <4> HIDE DEF V, W
      <4> QED
        BY <3>1, <3>2, <3>3, <3>4
    <3> QED
      BY <3>5
  <2> QED
    BY <2>1, <2>2
<1>3. S \in Q
  <2>1. \A U \in SUBSET S : U \in Q
    <3> HIDE DEF Q
    <3> QED
      BY <1>2, FiniteInduction
  <2> QED
    BY <2>1
<1>4. T \cap S = T
  OBVIOUS
<1> QED
  BY <1>1, <1>3, <1>4

(* What each value is at least, their sum is at least as many times.       *)
LEMMA SumAtLeast ==
  ASSUME NEW S, IsFiniteSet(S), NEW f, NEW least \in Nat, \A x \in S : f[x] \in Nat /\ f[x] >= least
  PROVE  SumOn(f, S) >= least * Cardinality(S)
<1> DEFINE Q == {U \in SUBSET S : SumOn(f, U) >= least * Cardinality(U)}
<1>1. ASSUME NEW U \in SUBSET S PROVE SumOn(f, U) \in Nat /\ IsFiniteSet(U) /\ Cardinality(U) \in Nat
  <2>1. IsFiniteSet(U) /\ \A x \in U : f[x] \in Nat
    BY FS_Subset
  <2> QED
    BY <2>1, SumNat, FS_CardinalityType
<1>2. ASSUME NEW U \in SUBSET S, \A x \in U : U \ {x} \in Q PROVE U \in Q
  <2>1. CASE U = {}
    <3>1. Cardinality(U) = 0 /\ SumOn(f, U) = 0
      BY <2>1, SumEmpty, FS_EmptySet
    <3> QED
      BY <3>1
  <2>2. ASSUME NEW x \in U PROVE U \in Q
    <3> DEFINE V == U \ {x}
    <3>1. SumOn(f, V) >= least * Cardinality(V)
      BY <1>2, <2>2
    <3>2. IsFiniteSet(U) /\ \A y \in U : f[y] \in Int
      BY <1>1
    <3>3. SumOn(f, U) = f[x] + SumOn(f, V)
      BY <3>2, SumRemove
    <3>4. SumOn(f, V) \in Nat /\ Cardinality(V) \in Nat /\ Cardinality(U) \in Nat
      BY <1>1
    <3>5. Cardinality(V) = Cardinality(U) - 1
      BY <3>2, FS_RemoveElement
    <3>6. f[x] \in Nat /\ f[x] >= least
      OBVIOUS
    <3>7. least * Cardinality(U) = least * Cardinality(V) + least /\ least * Cardinality(V) \in Nat
      <4> HIDE DEF V
      <4>1. \A c \in Nat : least * (c + 1) = least * c + least /\ least * c \in Nat
        OBVIOUS
      <4>2. Cardinality(U) = Cardinality(V) + 1
        BY <3>4, <3>5
      <4> QED
        BY <3>4, <4>1, <4>2
    <3>8. SumOn(f, U) >= least * Cardinality(U)
      <4> DEFINE a == SumOn(f, V)
                 b == least * Cardinality(V)
      <4>1. a \in Nat /\ b \in Nat /\ a >= b
        BY <3>1, <3>4, <3>7
      <4>2. SumOn(f, U) = f[x] + a /\ least * Cardinality(U) = b + least
        BY <3>3, <3>7
      <4> HIDE DEF a, b, V
      <4> QED
        BY <3>6, <4>1, <4>2
    <3> QED
      BY <3>8
  <2> QED
    BY <2>1, <2>2
<1>3. S \in Q
  <2>1. \A T \in SUBSET S : T \in Q
    <3> HIDE DEF Q
    <3> QED
      BY <1>2, FiniteInduction
  <2> QED
    BY <2>1
<1> QED
  BY <1>3

-----------------------------------------------------------------------------
(* Parts of a sum that are larger than the average.                       *)

(* Without its least value, a sum is no less than on average.              *)
LEMMA WithoutLeast ==
  ASSUME NEW s \in Nat, NEW n \in Nat, NEW c \in Nat, NEW sum \in Nat, NEW least \in Nat,
         s > 1, sum >= least * s, sum * n >= s * c
  PROVE  (sum - least) * n >= (s - 1) * c
<1> DEFINE r == sum - least
<1>1. least <= least * s
  <2>1. least * s = least + least * (s - 1) /\ least * (s - 1) \in Nat
    <3>1. s - 1 \in Nat
      OBVIOUS
    <3>2. \A a, b \in Nat : a * b \in Nat /\ a * (b + 1) = a + a * b
      OBVIOUS
    <3>3. s = (s - 1) + 1
      OBVIOUS
    <3> QED
      BY <3>1, <3>2, <3>3
  <2> QED
    BY <2>1
<1>2. r \in Nat
  <2>1. least * s \in Nat
    OBVIOUS
  <2> QED
    BY <1>1, <2>1
<1>3. r * s >= (s - 1) * sum
  <2>1. r * s = sum * s - least * s /\ (s - 1) * sum = sum * s - sum
    OBVIOUS
  <2>2. sum * s \in Nat /\ least * s \in Nat
    OBVIOUS
  <2> QED
    BY <2>1, <2>2
<1>4. (r * n) * s >= ((s - 1) * c) * s
  <2>1. (r * n) * s = (r * s) * n /\ ((s - 1) * c) * s = (s - 1) * (s * c)
    BY <1>2
  <2>2. (r * s) * n >= ((s - 1) * sum) * n
    <3>1. \A a, b, d \in Nat : a >= b => a * d >= b * d
      OBVIOUS
    <3>2. r * s \in Nat /\ (s - 1) * sum \in Nat
      <4>1. s - 1 \in Nat
        OBVIOUS
      <4>2. \A a, b \in Nat : a * b \in Nat
        OBVIOUS
      <4> QED
        BY <1>2, <4>1, <4>2
    <3> QED
      BY <1>3, <3>1, <3>2
  <2>3. ((s - 1) * sum) * n = (s - 1) * (sum * n)
    OBVIOUS
  <2>4. (s - 1) * (sum * n) >= (s - 1) * (s * c)
    <3>1. \A a, b, d \in Nat : a >= b => d * a >= d * b
      OBVIOUS
    <3>2. sum * n \in Nat /\ s * c \in Nat /\ s - 1 \in Nat
      OBVIOUS
    <3> QED
      BY <3>1, <3>2
  <2>5. /\ (r * s) * n \in Int /\ ((s - 1) * sum) * n \in Int /\ (s - 1) * (s * c) \in Int
    BY <1>2
  <2> DEFINE x == (r * s) * n
             y == ((s - 1) * sum) * n
             z == (s - 1) * (s * c)
  <2>6. x \in Int /\ y \in Int /\ z \in Int /\ x >= y /\ y >= z
    BY <2>2, <2>3, <2>4, <2>5
  <2>7. x >= z
    <3> HIDE DEF x, y, z
    <3> QED
      BY <2>6
  <2> QED
    BY <2>1, <2>7
<1>5. \A a, b \in Int : a * s >= b * s => a >= b
  <2> SUFFICES ASSUME NEW a \in Int, NEW b \in Int, a * s >= b * s, a < b PROVE FALSE
    OBVIOUS
  <2>1. b - a \in Nat \ {0} /\ s \in Nat \ {0}
    OBVIOUS
  <2>2. \A u, v \in Nat \ {0} : u * v > 0
    OBVIOUS
  <2>3. (b - a) * s > 0
    BY <2>1, <2>2
  <2>4. (b - a) * s = b * s - a * s /\ b * s \in Int /\ a * s \in Int
    OBVIOUS
  <2> QED
    BY <2>3, <2>4
<1>6. r * n \in Int /\ (s - 1) * c \in Int
  BY <1>2
<1> DEFINE p == r * n
           q == (s - 1) * c
<1>7. p \in Int /\ q \in Int /\ p * s >= q * s
  BY <1>4, <1>6
<1>8. p >= q
  <2> HIDE DEF p, q
  <2> QED
    BY <1>5, <1>7
<1> QED
  BY <1>8

(* A value no other is below.                                              *)
LEMMA LeastValue ==
  ASSUME NEW S, S # {}, NEW f, \A x \in S : f[x] \in Nat
  PROVE  \E x \in S : \A y \in S : f[x] <= f[y]
<1> DEFINE V == {f[x] : x \in S}
<1>1. V \in SUBSET Nat /\ V # {}
  OBVIOUS
<1>2. PICK v \in V : \A u \in V : v <= u
  <2> HIDE DEF V
  <2> QED
    BY <1>1, LeastNat
<1>3. PICK x \in S : f[x] = v
  BY <1>2
<1>4. \A y \in S : f[x] <= f[y]
  BY <1>2, <1>3
<1> QED
  BY <1>4

(* Of every size there is a part whose sum is, in proportion, no less than *)
(* that of the whole.                                                      *)
LEMMA DearPart ==
  ASSUME NEW S, IsFiniteSet(S), NEW f, \A x \in S : f[x] \in Nat,
         NEW h \in 1..Cardinality(S)
  PROVE  \E H \in SUBSET S : /\ Cardinality(H) = h
                             /\ SumOn(f, H) * Cardinality(S) >= h * SumOn(f, S)
<1> DEFINE n == Cardinality(S)
           c == SumOn(f, S)
           Dear(d, H) == Cardinality(H) = n - d /\ SumOn(f, H) * n >= (n - d) * c
           Q == {d \in Nat : d < n => \E H \in SUBSET S : Dear(d, H)}
<1>1. n \in Nat /\ c \in Nat
  BY FS_CardinalityType, SumNat
<1>2. 0 \in Q
  <2>1. c * n >= n * c /\ n - 0 = n
    <3> HIDE DEF c, n
    <3> QED
      BY <1>1
  <2>2. Dear(0, S)
    BY <2>1
  <2> QED
    BY <2>2
<1>3. ASSUME NEW d \in Nat, d \in Q PROVE d + 1 \in Q
  <2> SUFFICES ASSUME d + 1 < n PROVE \E H \in SUBSET S : Dear(d + 1, H)
    OBVIOUS
  <2>1. d < n
    <3> HIDE DEF n
    <3> QED
      BY <1>1
  <2>2. PICK H \in SUBSET S : Dear(d, H)
    BY <1>3, <2>1
  <2> DEFINE s == Cardinality(H)
             sum == SumOn(f, H)
  <2>3. IsFiniteSet(H) /\ \A x \in H : f[x] \in Nat /\ f[x] \in Int
    BY FS_Subset
  <2>4. s = n - d /\ s > 1 /\ s \in Nat
    <3>1. s = n - d
      BY <2>2
    <3> HIDE DEF n, s
    <3> QED
      BY <1>1, <3>1
  <2>5. H # {}
    BY <2>3, <2>4, FS_EmptySet
  <2>6. PICK x \in H : \A y \in H : f[x] <= f[y]
    BY <2>3, <2>5, LeastValue
  <2> DEFINE R == H \ {x}
  <2>7. SumOn(f, H) = f[x] + SumOn(f, R)
    BY <2>3, SumRemove
  <2>8. Cardinality(R) = s - 1 /\ IsFiniteSet(R)
    BY <2>3, FS_RemoveElement
  <2>9. sum >= f[x] * s
    BY <2>3, <2>6, SumAtLeast
  <2>10. sum \in Nat /\ SumOn(f, R) \in Nat /\ f[x] \in Nat
    <3>1. \A y \in R : f[y] \in Nat
      BY <2>3
    <3>2. SumOn(f, R) \in Nat
      <4> HIDE DEF R
      <4> QED
        BY <2>8, <3>1, SumNat
    <3> QED
      BY <2>3, <3>2, SumNat
  <2>11. sum * n >= s * c
    BY <2>2, <2>4
  <2>12. (sum - f[x]) * n >= (s - 1) * c
    <3> HIDE DEF sum, s, n, c
    <3> QED
      BY <1>1, <2>4, <2>9, <2>10, <2>11, WithoutLeast
  <2>13. SumOn(f, R) = sum - f[x] /\ s - 1 = n - (d + 1)
    <3> HIDE DEF n, s, R
    <3> QED
      BY <1>1, <2>4, <2>7, <2>10
  <2>14. Dear(d + 1, R)
    <3> HIDE DEF n, s, sum, c, R
    <3> QED
      BY <2>8, <2>12, <2>13
  <2> QED
    BY <2>14
<1>4. n - h \in Nat /\ n - h < n /\ n - (n - h) = h
  <2> HIDE DEF n
  <2>1. h \in 1..n
    BY DEF n
  <2> QED
    BY <1>1, <2>1
<1>5. n - h \in Q
  <2>1. Nat \subseteq Q
    <3> HIDE DEF Q
    <3> QED
      BY <1>2, <1>3, NumberInduction
  <2> QED
    BY <1>4, <2>1
<1>6. PICK H \in SUBSET S : Dear(n - h, H)
  BY <1>4, <1>5
<1>7. Cardinality(H) = h /\ SumOn(f, H) * n >= h * c
  <2> HIDE DEF n, c
  <2> QED
    BY <1>4, <1>6
<1> QED
  BY <1>7

(* A part may be enlarged to any size up to that of the whole.             *)
LEMMA LargerPart ==
  ASSUME NEW S, IsFiniteSet(S), NEW E \in SUBSET S, NEW h \in Cardinality(E)..Cardinality(S)
  PROVE  \E H \in SUBSET S : E \subseteq H /\ Cardinality(H) = h
<1> DEFINE n == Cardinality(S)
           k == Cardinality(E)
           Larger(d, H) == E \subseteq H /\ Cardinality(H) = k + d
           Q == {d \in Nat : k + d <= n => \E H \in SUBSET S : Larger(d, H)}
<1>1. n \in Nat /\ k \in Nat
  <2>1. IsFiniteSet(E)
    BY FS_Subset
  <2> QED
    BY <2>1, FS_CardinalityType
<1>2. 0 \in Q
  <2>1. k + 0 = k
    <3> HIDE DEF k
    <3> QED
      BY <1>1
  <2>2. Larger(0, E)
    BY <2>1
  <2> QED
    BY <2>2
<1>3. ASSUME NEW d \in Nat, d \in Q PROVE d + 1 \in Q
  <2> SUFFICES ASSUME k + (d + 1) <= n PROVE \E H \in SUBSET S : Larger(d + 1, H)
    OBVIOUS
  <2>1. k + d <= n /\ k + d # n
    <3> HIDE DEF n, k
    <3> QED
      BY <1>1
  <2>2. PICK H \in SUBSET S : Larger(d, H)
    BY <1>3, <2>1
  <2>3. H # S
    BY <2>1, <2>2
  <2>4. PICK x \in S : x \notin H
    BY <2>3
  <2>5. IsFiniteSet(H)
    BY FS_Subset
  <2>6. Cardinality(H \cup {x}) = Cardinality(H) + 1
    BY <2>4, <2>5, FS_AddElement
  <2>7. Cardinality(H) = k + d /\ E \subseteq H
    BY <2>2
  <2>8. Cardinality(H \cup {x}) = k + (d + 1)
    <3> HIDE DEF k
    <3> QED
      BY <1>1, <2>6, <2>7
  <2>9. Larger(d + 1, H \cup {x})
    BY <2>7, <2>8
  <2> QED
    BY <2>9
<1>4. h - k \in Nat /\ k + (h - k) = h /\ h <= n
  <2> HIDE DEF n, k
  <2>1. h \in k..n
    BY DEF n, k
  <2> QED
    BY <1>1, <2>1
<1>5. h - k \in Q
  <2>1. Nat \subseteq Q
    <3> HIDE DEF Q
    <3> QED
      BY <1>2, <1>3, NumberInduction
  <2> QED
    BY <1>4, <2>1
<1>6. PICK H \in SUBSET S : Larger(h - k, H)
  BY <1>4, <1>5
<1>7. E \subseteq H /\ Cardinality(H) = h
  <2> HIDE DEF k
  <2> QED
    BY <1>4, <1>6
<1> QED
  BY <1>7
=============================================================================
