---------------------------- MODULE AnalysisProofs ----------------------------
(***************************************************************************)
(* Proofs about what is computed from recorded traffic.                    *)
(*                                                                         *)
(* A simulation means what its scenario says: the three replay loops       *)
(* against the definitions of a cache with a TTL and a size, of a hard     *)
(* budget and of a share of the traffic.                                   *)
(*                                                                         *)
(* The stored findings are distinct, and none promises to save more than   *)
(* the traffic it is about costs.                                          *)
(***************************************************************************)
EXTENDS Simulations, Detection, SumProofs, SequenceTheorems

-----------------------------------------------------------------------------
(* A fold from the left, as a run of states.  The library folds over sets  *)
(* of places; there is such a fold of the sets of up to m places, and the  *)
(* sets 1..i are the run.                                                  *)

(* The greatest of 1..i is i, and what is below it is 1..i-1.              *)
LEMMA UptoFact ==
  ASSUME NEW n \in Nat, NEW i \in 1..n
  PROVE  1..i \in SUBSET (1..n) /\ 1..i # {} /\ Max(1..i) = i /\ (1..i) \ {Max(1..i)} = 1..i-1
<1>1. 1..i \in SUBSET Int /\ IsFiniteSet(1..i) /\ 1..i # {} /\ i \in 1..i
  <2>1. i \in Nat /\ 1 \in Int /\ i \in Int
    OBVIOUS
  <2>2. IsFiniteSet(1..i)
    BY <2>1, FS_Interval
  <2> QED
    BY <2>1, <2>2
<1>2. Max(1..i) \in 1..i /\ \A x \in 1..i : x <= Max(1..i)
  BY <1>1, MaxFact
<1>3. Max(1..i) = i
  BY <1>1, <1>2
<1> QED
  BY <1>1, <1>3

(* A set of places is finite and, unless empty, one more than without its  *)
(* greatest.                                                               *)
LEMMA PlacesFact ==
  ASSUME NEW n \in Nat, NEW S \in SUBSET (1..n)
  PROVE  /\ IsFiniteSet(S) /\ Cardinality(S) \in Nat
         /\ S # {} => /\ Max(S) \in S /\ S \ {Max(S)} \in SUBSET (1..n)
                      /\ Cardinality(S \ {Max(S)}) = Cardinality(S) - 1
                      /\ Cardinality(S) > 0
<1>1. IsFiniteSet(S) /\ Cardinality(S) \in Nat
  <2>1. IsFiniteSet(1..n)
    BY FS_Interval
  <2>2. IsFiniteSet(S)
    BY <2>1, FS_Subset
  <2> QED
    BY <2>2, FS_CardinalityType
<1>2. ASSUME S # {}
      PROVE  /\ Max(S) \in S /\ S \ {Max(S)} \in SUBSET (1..n)
             /\ Cardinality(S \ {Max(S)}) = Cardinality(S) - 1 /\ Cardinality(S) > 0
  <2>1. S \in SUBSET Int
    OBVIOUS
  <2>2. Max(S) \in S
    BY <1>1, <1>2, <2>1, MaxFact
  <2>3. Cardinality(S) # 0
    BY <1>1, <1>2, FS_EmptySet
  <2>4. Cardinality(S \ {Max(S)}) = Cardinality(S) - 1
    BY <1>1, <2>2, FS_RemoveElement
  <2>5. S \ {Max(S)} \in SUBSET (1..n)
    OBVIOUS
  <2>6. Cardinality(S) > 0
    BY <1>1, <2>3
  <2> QED
    BY <2>2, <2>4, <2>5, <2>6
<1> QED
  BY <1>1, <1>2

(* g folds the functions F[1], F[2], ... over every set of places, from b. *)
IsIter(g, X, b, n, F) ==
  /\ g \in [SUBSET (1..n) -> X]
  /\ \A S \in SUBSET (1..n) : g[S] = IF S = {} THEN b ELSE F[Max(S)][g[S \ {Max(S)}]]

LEMMA IterExists ==
  ASSUME NEW X, NEW b \in X, NEW n \in Nat, NEW F, \A i \in 1..n : F[i] \in [X -> X]
  PROVE  \E g : IsIter(g, X, b, n, F)
<1> DEFINE Good(m, g) == \A S \in SUBSET (1..n) : Cardinality(S) <= m =>
                           g[S] = IF S = {} THEN b ELSE F[Max(S)][g[S \ {Max(S)}]]
           N == {m \in Nat : \E g \in [SUBSET (1..n) -> X] : Good(m, g)}
<1>1. 0 \in N
  <2> DEFINE g == [S \in SUBSET (1..n) |-> b]
  <2>1. g \in [SUBSET (1..n) -> X] /\ \A S \in SUBSET (1..n) : g[S] = b
    OBVIOUS
  <2> HIDE DEF g
  <2>2. ASSUME NEW S \in SUBSET (1..n), Cardinality(S) <= 0 PROVE S = {}
    <3>1. Cardinality(S) \in Nat /\ (S # {} => Cardinality(S) > 0)
      BY PlacesFact
    <3> QED
      BY <2>2, <3>1
  <2>3. Good(0, g)
    BY <2>1, <2>2
  <2> HIDE DEF Good
  <2> QED
    BY <2>1, <2>3
<1>2. ASSUME NEW m \in Nat, m \in N PROVE m + 1 \in N
  <2>1. PICK g \in [SUBSET (1..n) -> X] : Good(m, g)
    BY <1>2
  <2> DEFINE h == [S \in SUBSET (1..n) |-> IF S = {} THEN b ELSE F[Max(S)][g[S \ {Max(S)}]]]
  <2>2. \A S \in SUBSET (1..n) : h[S] = IF S = {} THEN b ELSE F[Max(S)][g[S \ {Max(S)}]]
    OBVIOUS
  <2>3. h \in [SUBSET (1..n) -> X]
    <3>1. ASSUME NEW S \in SUBSET (1..n), S # {} PROVE F[Max(S)][g[S \ {Max(S)}]] \in X
      <4>1. Max(S) \in 1..n /\ S \ {Max(S)} \in SUBSET (1..n)
        BY <3>1, PlacesFact
      <4>2. F[Max(S)] \in [X -> X] /\ g[S \ {Max(S)}] \in X
        BY <4>1
      <4> QED
        BY <4>2
    <3> QED
      BY <3>1
  <2> HIDE DEF h
  <2>4. ASSUME NEW S \in SUBSET (1..n), Cardinality(S) <= m PROVE h[S] = g[S]
    BY <2>1, <2>2, <2>4
  <2>5. ASSUME NEW S \in SUBSET (1..n), Cardinality(S) <= m + 1
        PROVE  h[S] = IF S = {} THEN b ELSE F[Max(S)][h[S \ {Max(S)}]]
    <3>1. CASE S = {}
      BY <2>2, <3>1
    <3>2. CASE S # {}
      <4>1. S \ {Max(S)} \in SUBSET (1..n) /\ Cardinality(S \ {Max(S)}) <= m
        BY <2>5, <3>2, PlacesFact
      <4>2. h[S \ {Max(S)}] = g[S \ {Max(S)}]
        BY <2>4, <4>1
      <4> QED
        BY <2>2, <3>2, <4>2
    <3> QED
      BY <3>1, <3>2
  <2>6. Good(m + 1, h)
    BY <2>5
  <2> HIDE DEF Good
  <2> QED
    BY <2>3, <2>6
<1> HIDE DEF N
<1>3. n \in N
  BY <1>1, <1>2, NumberInduction
<1> USE DEF N
<1>4. PICK g \in [SUBSET (1..n) -> X] : Good(n, g)
  BY <1>3
<1>5. \A S \in SUBSET (1..n) : Cardinality(S) <= n
  <2>1. Cardinality(1..n) = n /\ IsFiniteSet(1..n)
    BY FS_Interval
  <2>2. ASSUME NEW S \in SUBSET (1..n) PROVE Cardinality(S) <= n
    <3>1. Cardinality(S) <= Cardinality(1..n)
      BY <2>1, FS_Subset
    <3> QED
      BY <2>1, <3>1
  <2> QED
    BY <2>2
<1>6. IsIter(g, X, b, n, F)
  BY <1>4, <1>5 DEF IsIter
<1> QED
  BY <1>6

(* The facts a replay reads.  It looks at their cost and their time only   *)
(* where it adds and compares.                                             *)
Readable(facts) ==
  /\ Len(facts) \in Nat /\ DOMAIN facts = 1..Len(facts)
  /\ \A i \in 1..Len(facts) : facts[i].cost \in Nat /\ facts[i].usage \in Nat /\ facts[i].at \in Int

LEMMA TotalFact == ASSUME NEW f PROVE Total(f) = SumOn(f, DOMAIN f)
  BY DEF Total, FoldSeq, FoldFunction, SumOn
(* The facts up to one place, as a sum or a number, when one is added.     *)
LEMMA UptoSum ==
  ASSUME NEW n \in Nat, NEW f, \A j \in 1..n : f[j] \in Nat
  PROVE  /\ SumOn(f, 1..0) = 0
         /\ \A i \in 0..n : SumOn(f, 1..i) \in Nat
         /\ \A i \in 1..n : SumOn(f, 1..i) = SumOn(f, 1..i-1) + f[i]
<1>1. SumOn(f, 1..0) = 0
  <2>1. 1..0 = {}
    OBVIOUS
  <2> QED
    BY <2>1, SumEmpty
<1>2. ASSUME NEW i \in 0..n PROVE IsFiniteSet(1..i) /\ SumOn(f, 1..i) \in Nat
  <2>1. IsFiniteSet(1..i) /\ \A j \in 1..i : f[j] \in Nat
    BY FS_Interval
  <2> QED
    BY <2>1, SumNat
<1>3. ASSUME NEW i \in 1..n PROVE SumOn(f, 1..i) = SumOn(f, 1..i-1) + f[i]
  <2> DEFINE before == 1..i-1
  <2>1. i - 1 \in 0..n /\ i \in 0..n /\ 1..i = before \cup {i} /\ i \notin before
    OBVIOUS
  <2>2. IsFiniteSet(before) /\ \A j \in before \cup {i} : f[j] \in Int
    BY <1>2, <2>1
  <2>3. SumOn(f, before) \in Nat /\ f[i] \in Nat
    BY <1>2, <2>1
  <2>4. SumOn(f, 1..i) = SumOn(f, before \cup {i})
    BY <2>1
  <2> HIDE DEF before
  <2>5. SumOn(f, before \cup {i}) = f[i] + SumOn(f, before)
    BY <2>1, <2>2, SumAdd
  <2>6. SumOn(f, 1..i) = SumOn(f, before) + f[i]
    BY <2>3, <2>4, <2>5
  <2> QED
    BY <2>6 DEF before
<1> QED
  BY <1>1, <1>2, <1>3

LEMMA UptoCount ==
  ASSUME NEW n \in Nat, NEW M \in SUBSET (1..n)
  PROVE  /\ Cardinality(M \cap (1..0)) = 0 /\ M \cap (1..n) = M
         /\ \A i \in 0..n : Cardinality(M \cap (1..i)) \in Nat
         /\ \A i \in 1..n : Cardinality(M \cap (1..i)) =
              Cardinality(M \cap (1..i-1)) + IF i \in M THEN 1 ELSE 0
<1>1. Cardinality(M \cap (1..0)) = 0
  <2>1. M \cap (1..0) = {}
    OBVIOUS
  <2> QED
    BY <2>1, FS_EmptySet
<1>2. ASSUME NEW i \in 0..n PROVE IsFiniteSet(M \cap (1..i)) /\ Cardinality(M \cap (1..i)) \in Nat
  <2>1. IsFiniteSet(1..i)
    BY FS_Interval
  <2>2. IsFiniteSet(M \cap (1..i))
    BY <2>1, FS_Subset
  <2> QED
    BY <2>2, FS_CardinalityType
<1>3. ASSUME NEW i \in 1..n
      PROVE Cardinality(M \cap (1..i)) = Cardinality(M \cap (1..i-1)) + IF i \in M THEN 1 ELSE 0
  <2> DEFINE before == M \cap (1..i-1)
             upto == M \cap (1..i)
  <2>1. i - 1 \in 0..n /\ i \notin before /\ upto = IF i \in M THEN before \cup {i} ELSE before
    OBVIOUS
  <2>2. IsFiniteSet(before) /\ Cardinality(before) \in Nat
    BY <1>2, <2>1
  <2> HIDE DEF before, upto
  <2>3. Cardinality(before \cup {i}) = Cardinality(before) + 1
    BY <2>1, <2>2, FS_AddElement
  <2>4. Cardinality(upto) = Cardinality(before) + IF i \in M THEN 1 ELSE 0
    BY <2>1, <2>2, <2>3
  <2> QED
    BY <2>4 DEF before, upto
<1>4. M \cap (1..n) = M
  OBVIOUS
<1> QED
  BY <1>1, <1>2, <1>3, <1>4

-----------------------------------------------------------------------------
(* A hard budget *)

BudgetStart(facts, scenario) ==
  [spent |-> [p \in {PeriodOf(scenario, facts[i].at) : i \in DOMAIN facts} |-> 0],
   blocked |-> {}, n |-> 0]
IsBudget(g, facts, scenario) ==
  g = [S \in SUBSET DOMAIN facts |->
         IF S = {} THEN BudgetStart(facts, scenario)
         ELSE BudgetStep(g[S \ {Max(S)}], facts[Max(S)], scenario)]
LEMMA BudgetIsChosen ==
  ASSUME NEW facts, NEW scenario
  PROVE  SimulateBudget(facts, scenario) = (CHOOSE g : IsBudget(g, facts, scenario))[DOMAIN facts]
  BY DEF SimulateBudget, FoldLeft, MapThenFoldSet, IsBudget, BudgetStart

LEMMA BudgetRun ==
  ASSUME NEW facts, Readable(facts), NEW scenario
  PROVE  \E run :
           /\ run[0] = BudgetStart(facts, scenario)
           /\ \A i \in 1..Len(facts) : run[i] = BudgetStep(run[i-1], facts[i], scenario)
           /\ SimulateBudget(facts, scenario) = run[Len(facts)]
<1> DEFINE n == Len(facts)
           Periods == {PeriodOf(scenario, facts[i].at) : i \in DOMAIN facts}
           X == [spent : [Periods -> Nat], blocked : SUBSET Nat, n : Nat]
           F == [i \in 1..n |-> [s \in X |-> BudgetStep(s, facts[i], scenario)]]
           b == BudgetStart(facts, scenario)
<1>1. n \in Nat /\ DOMAIN facts = 1..n /\ \A i \in 1..n : facts[i].cost \in Nat
  BY DEF Readable
<1>2. b \in X
  BY DEF BudgetStart
<1>3. ASSUME NEW i \in 1..n, NEW s \in X PROVE BudgetStep(s, facts[i], scenario) \in X
  <2> DEFINE p == PeriodOf(scenario, facts[i].at)
             spent == [s.spent EXCEPT ![p] = @ + facts[i].cost]
  <2>1. p \in Periods /\ s.spent \in [Periods -> Nat] /\ s.blocked \in SUBSET Nat /\ s.n \in Nat
    BY <1>1
  <2>2. spent \in [Periods -> Nat]
    BY <1>1, <2>1
  <2> HIDE DEF p, spent, Periods
  <2>3. BudgetStep(s, facts[i], scenario) =
          [spent |-> IF s.spent[p] >= scenario.limit THEN s.spent ELSE spent,
           blocked |-> IF s.spent[p] >= scenario.limit THEN s.blocked \cup {s.n + 1} ELSE s.blocked,
           n |-> s.n + 1]
    BY DEF BudgetStep, p, spent
  <2> QED
    BY <2>1, <2>2, <2>3
<1> HIDE DEF X
<1>4. \A i \in 1..n : F[i] \in [X -> X]
  BY <1>3
<1>5. PICK g : IsIter(g, X, b, n, F)
  <2> HIDE DEF n, F, b
  <2>1. n \in Nat /\ b \in X /\ \A i \in 1..n : F[i] \in [X -> X]
    BY <1>1, <1>2, <1>4
  <2> QED
    BY <2>1, IterExists
<1>6. \A S \in SUBSET (1..n) :
         g[S] = IF S = {} THEN b ELSE BudgetStep(g[S \ {Max(S)}], facts[Max(S)], scenario)
  <2>1. ASSUME NEW S \in SUBSET (1..n), S # {}
        PROVE  g[S] = BudgetStep(g[S \ {Max(S)}], facts[Max(S)], scenario)
    <3>1. Max(S) \in 1..n /\ g[S \ {Max(S)}] \in X
      BY <1>1, <1>5, <2>1, PlacesFact DEF IsIter
    <3> QED
      BY <1>5, <2>1, <3>1 DEF IsIter
  <2> QED
    BY <1>5, <2>1 DEF IsIter
<1> HIDE DEF F, b
<1>7. IsBudget(g, facts, scenario)
  <2>1. g = [S \in SUBSET (1..n) |->
               IF S = {} THEN b ELSE BudgetStep(g[S \ {Max(S)}], facts[Max(S)], scenario)]
    BY <1>5, <1>6 DEF IsIter
  <2> QED
    BY <1>1, <2>1 DEF IsBudget, b
<1> DEFINE h == CHOOSE q : IsBudget(q, facts, scenario)
           run == [i \in 0..n |-> h[1..i]]
<1>8. IsBudget(h, facts, scenario) /\ SimulateBudget(facts, scenario) = h[DOMAIN facts]
  BY <1>7, BudgetIsChosen
<1> HIDE DEF h
<1>9. \A S \in SUBSET (1..n) :
         h[S] = IF S = {} THEN b ELSE BudgetStep(h[S \ {Max(S)}], facts[Max(S)], scenario)
  BY <1>1, <1>8 DEF IsBudget, b
<1>10. run[0] = b
  <2>1. 1..0 = {} /\ 0 \in 0..n
    BY <1>1
  <2> QED
    BY <1>9, <2>1
<1>11. ASSUME NEW i \in 1..n PROVE run[i] = BudgetStep(run[i-1], facts[i], scenario)
  <2>1. 1..i \in SUBSET (1..n) /\ 1..i # {} /\ Max(1..i) = i /\ (1..i) \ {Max(1..i)} = 1..i-1
    BY <1>1, UptoFact
  <2>2. i \in 0..n /\ i - 1 \in 0..n
    BY <1>1
  <2>3. h[1..i] = BudgetStep(h[1..i-1], facts[i], scenario)
    BY <1>9, <2>1
  <2> QED
    BY <2>2, <2>3
<1>12. SimulateBudget(facts, scenario) = run[n]
  BY <1>1, <1>8
<1> QED
  BY <1>10, <1>11, <1>12 DEF b

(* The replay of a budget blocks what comes after the limit was reached:   *)
(* what its counter holds is all that was spent, until that is the limit.  *)
LEMMA BudgetFact ==
  ASSUME NEW facts, Readable(facts), NEW scenario, scenario.limit \in Int
  PROVE  BlocksOfABudget(facts, scenario, SimulateBudget(facts, scenario).blocked)
<1> DEFINE n == Len(facts)
           limit == scenario.limit
           P(j) == PeriodOf(scenario, facts[j].at)
           Periods == {P(i) : i \in DOMAIN facts}
           W(p) == [j \in 1..n |-> IF P(j) = p THEN facts[j].cost ELSE 0]
           All(i, p) == SumOn(W(p), 1..i)
<1>1. /\ n \in Nat /\ DOMAIN facts = 1..n /\ limit \in Int
      /\ \A i \in 1..n : facts[i].cost \in Nat
  BY DEF Readable
<1>2. PICK run :
         /\ run[0] = BudgetStart(facts, scenario)
         /\ \A i \in 1..Len(facts) : run[i] = BudgetStep(run[i-1], facts[i], scenario)
         /\ SimulateBudget(facts, scenario) = run[Len(facts)]
  BY BudgetRun
<1>3. \A p : \A j \in 1..n : W(p)[j] = IF P(j) = p THEN facts[j].cost ELSE 0
  OBVIOUS
<1> HIDE DEF P, W
<1>4. ASSUME NEW p
      PROVE  /\ All(0, p) = 0 /\ \A i \in 0..n : All(i, p) \in Nat
             /\ \A i \in 1..n : All(i, p) = All(i-1, p) + IF P(i) = p THEN facts[i].cost ELSE 0
  <2> DEFINE f == W(p)
  <2>1. \A j \in 1..n : f[j] \in Nat /\ f[j] = IF P(j) = p THEN facts[j].cost ELSE 0
    BY <1>1, <1>3
  <2> HIDE DEF f, n
  <2>2. /\ SumOn(f, 1..0) = 0 /\ \A i \in 0..n : SumOn(f, 1..i) \in Nat
        /\ \A i \in 1..n : SumOn(f, 1..i) = SumOn(f, 1..i-1) + f[i]
    BY <1>1, <2>1, UptoSum
  <2>3. \A i \in 1..n : SumOn(f, 1..i) = SumOn(f, 1..i-1) + IF P(i) = p THEN facts[i].cost ELSE 0
    BY <2>1, <2>2
  <2> QED
    BY <2>2, <2>3 DEF f
<1> DEFINE Right(i) ==
       /\ run[i].n = i /\ run[i].spent \in [Periods -> Nat] /\ run[i].blocked \in SUBSET (1..i)
       /\ \A p \in Periods :
            \/ run[i].spent[p] = All(i, p)
            \/ run[i].spent[p] >= limit /\ All(i, p) >= run[i].spent[p]
       /\ \A j \in 1..i : j \in run[i].blocked <=> All(j-1, P(j)) >= limit
     N == {i \in Nat : i <= n => Right(i)}
<1> HIDE DEF All
<1>5. 0 \in N
  <2>1. run[0] = BudgetStart(facts, scenario)
    BY <1>2
  <2>2. run[0].n = 0 /\ run[0].blocked = {} /\ run[0].spent = [p \in Periods |-> 0]
    BY <2>1 DEF BudgetStart, P
  <2> HIDE DEF Periods
  <2>3. run[0].spent \in [Periods -> Nat] /\ \A p \in Periods : run[0].spent[p] = All(0, p)
    BY <1>4, <2>2
  <2> QED
    BY <2>2, <2>3
<1>6. ASSUME NEW i \in Nat, i \in N PROVE i + 1 \in N
  <2> SUFFICES ASSUME i + 1 <= n PROVE Right(i + 1)
    OBVIOUS
  <2> DEFINE c == i + 1
             s == run[i]
             p == P(c)
             refused == s.spent[p] >= limit
             cost == facts[c].cost
  <2>1. c \in 1..n /\ c - 1 = i /\ i \in 0..n /\ Right(i) /\ c \in Nat
    BY <1>1, <1>6
  <2>2. p \in Periods
    BY <1>1, <2>1
  <2>3. run[c] = BudgetStep(s, facts[c], scenario)
    BY <1>2, <2>1
  <2>4. /\ run[c].n = s.n + 1
        /\ run[c].spent = IF refused THEN s.spent ELSE [s.spent EXCEPT ![p] = @ + cost]
        /\ run[c].blocked = IF refused THEN s.blocked \cup {s.n + 1} ELSE s.blocked
    BY <2>3 DEF BudgetStep, P
  <2>5. /\ s.n = i /\ s.spent \in [Periods -> Nat] /\ s.blocked \in SUBSET (1..i)
        /\ \A q \in Periods : s.spent[q] = All(i, q) \/ (s.spent[q] >= limit /\ All(i, q) >= s.spent[q])
        /\ \A j \in 1..i : j \in s.blocked <=> All(j-1, P(j)) >= limit
    BY <2>1
  <2>6. \A q : All(c, q) = All(i, q) + IF q = p THEN cost ELSE 0
    BY <1>4, <2>1
  <2>7. cost \in Nat /\ \A q : All(i, q) \in Nat
    BY <1>1, <1>4, <2>1
  <2> HIDE DEF c, s, p, cost, Periods, n, limit
  <2>8. refused <=> All(i, p) >= limit
    BY <1>1, <2>2, <2>5, <2>7
  <2> HIDE DEF refused
  <2>9. run[c].n = c /\ run[c].spent \in [Periods -> Nat] /\ run[c].blocked \in SUBSET (1..c)
    <3>1. run[c].n = c
      BY <2>4, <2>5 DEF c
    <3>2. run[c].spent \in [Periods -> Nat]
      BY <2>2, <2>4, <2>5, <2>7
    <3>3. run[c].blocked \in SUBSET (1..c)
      BY <2>4, <2>5 DEF c
    <3> QED
      BY <3>1, <3>2, <3>3
  <2>10. ASSUME NEW q \in Periods
         PROVE  \/ run[c].spent[q] = All(c, q)
                \/ run[c].spent[q] >= limit /\ All(c, q) >= run[c].spent[q]
    <3>1. /\ s.spent[q] \in Nat /\ All(i, q) \in Nat
          /\ s.spent[q] = All(i, q) \/ (s.spent[q] >= limit /\ All(i, q) >= s.spent[q])
      BY <2>5, <2>7
    <3>2. CASE q # p
      <4>1. run[c].spent[q] = s.spent[q] /\ All(c, q) = All(i, q)
        BY <2>2, <2>4, <2>5, <2>6, <3>1, <3>2
      <4> QED
        BY <3>1, <4>1
    <3>3. CASE q = p /\ refused
      <4>1. run[c].spent[q] = s.spent[q] /\ All(c, q) = All(i, q) + cost
        BY <2>4, <2>6, <3>3
      <4>2. s.spent[q] >= limit
        BY <3>3 DEF refused
      <4> QED
        BY <1>1, <2>7, <3>1, <4>1, <4>2
    <3>4. CASE q = p /\ ~refused
      <4>1. run[c].spent[q] = s.spent[q] + cost /\ All(c, q) = All(i, q) + cost
        BY <2>2, <2>4, <2>5, <2>6, <3>4
      <4>2. ~(s.spent[q] >= limit)
        BY <3>4 DEF refused
      <4> QED
        BY <3>1, <4>1, <4>2
    <3> QED
      BY <3>2, <3>3, <3>4
  <2>11. ASSUME NEW j \in 1..c PROVE j \in run[c].blocked <=> All(j-1, P(j)) >= limit
    <3>1. CASE j = c
      <4>1. All(j-1, P(j)) = All(i, p)
        BY <2>1, <3>1 DEF p
      <4>2. c \in run[c].blocked <=> refused
        BY <2>1, <2>4, <2>5 DEF c
      <4> QED
        BY <2>8, <3>1, <4>1, <4>2
    <3>2. CASE j # c
      <4>1. j \in 1..i
        BY <3>2 DEF c
      <4>2. j \in run[c].blocked <=> j \in s.blocked
        BY <2>4, <2>5, <4>1
      <4> QED
        BY <2>5, <4>1, <4>2
    <3> QED
      BY <3>1, <3>2
  <2> QED
    BY <2>9, <2>10, <2>11 DEF c
<1> HIDE DEF N
<1>7. n \in N
  <2> HIDE DEF n
  <2> QED
    BY <1>1, <1>5, <1>6, NumberInduction
<1> USE DEF N
<1>8. Right(n) /\ SimulateBudget(facts, scenario) = run[n]
  BY <1>1, <1>2, <1>7
<1>9. ASSUME NEW i \in 1..n PROVE SpentBefore(facts, scenario, i) = All(i-1, P(i))
  <2> DEFINE g == [j \in 1..i-1 |-> IF P(j) = P(i) THEN facts[j].cost ELSE 0]
             f == W(P(i))
  <2>1. SpentBefore(facts, scenario, i) = Total(g)
    BY DEF SpentBefore, P
  <2>2. Total(g) = SumOn(g, 1..i-1)
    BY TotalFact
  <2>3. \A j \in 1..i-1 : g[j] = f[j]
    BY <1>3
  <2>4. IsFiniteSet(1..i-1)
    <3>1. i - 1 \in Int /\ 1 \in Int
      BY <1>1
    <3> QED
      BY <3>1, FS_Interval
  <2> HIDE DEF g, f
  <2>5. SumOn(g, 1..i-1) = SumOn(f, 1..i-1)
    BY <2>3, <2>4, SumSame
  <2> QED
    BY <2>1, <2>2, <2>5 DEF f, All
<1>10. \A i \in 1..n : i \in run[n].blocked <=> All(i-1, P(i)) >= limit
  BY <1>8
<1> QED
  BY <1>1, <1>8, <1>9, <1>10 DEF BlocksOfABudget

-----------------------------------------------------------------------------
(* Quotients *)

(* The quotient and what is left of it.                                    *)
LEMMA QuotientFact ==
  ASSUME NEW x \in Int, NEW d \in Nat \ {0}
  PROVE  x \div d \in Int /\ d * (x \div d) <= x /\ x < d * (x \div d) + d
OBVIOUS

(* Multiples of d lie d apart.                                             *)
LEMMA ProductOrder ==
  ASSUME NEW d \in Nat \ {0}, NEW x \in Int, NEW y \in Int
  PROVE  d * x \in Int /\ (x < y => d * x + d <= d * y) /\ (x <= y => d * x <= d * y)
<1>1. ASSUME x <= y PROVE d * x <= d * y
  <2>1. y - x \in Nat
    BY <1>1
  <2>2. \A a, b \in Nat : a * b \in Nat
    OBVIOUS
  <2>3. d * (y - x) \in Nat
    BY <2>1, <2>2
  <2>4. d * (y - x) = d * y - d * x /\ d * x \in Int /\ d * y \in Int
    OBVIOUS
  <2> QED
    BY <2>3, <2>4
<1>2. ASSUME x < y PROVE d * x + d <= d * y
  <2>1. y - (x + 1) \in Nat
    BY <1>2
  <2>2. \A a, b \in Nat : a * b \in Nat
    OBVIOUS
  <2>3. d * (y - (x + 1)) \in Nat
    BY <2>1, <2>2
  <2>4. d * (y - (x + 1)) = d * y - (d * x + d) /\ d * x \in Int /\ d * y \in Int
    OBVIOUS
  <2> QED
    BY <2>3, <2>4
<1> QED
  BY <1>1, <1>2

(* No other number is the quotient.                                        *)
LEMMA QuotientIsUnique ==
  ASSUME NEW x \in Int, NEW d \in Nat \ {0}, NEW q \in Int, d * q <= x, x < d * q + d
  PROVE  x \div d = q
<1> DEFINE r == x \div d
<1>1. r \in Int /\ d * r <= x /\ x < d * r + d
  BY QuotientFact
<1> HIDE DEF r
<1>2. d * r \in Int /\ d * q \in Int
  BY <1>1
<1>3. ~(r < q)
  <2>1. r < q => d * r + d <= d * q
    BY <1>1, ProductOrder
  <2> DEFINE a == d * r
             b == d * q
  <2>2. a \in Int /\ b \in Int /\ b <= x /\ x < a + d /\ (r < q => a + d <= b)
    BY <1>1, <1>2, <2>1
  <2> HIDE DEF a, b
  <2> QED
    BY <2>2
<1>4. ~(q < r)
  <2>1. q < r => d * q + d <= d * r
    BY <1>1, ProductOrder
  <2> DEFINE a == d * r
             b == d * q
  <2>2. a \in Int /\ b \in Int /\ a <= x /\ x < b + d /\ (q < r => b + d <= a)
    BY <1>1, <1>2, <2>1
  <2> HIDE DEF a, b
  <2> QED
    BY <2>2
<1>5. r = q
  BY <1>1, <1>3, <1>4
<1> QED
  BY <1>5 DEF r

-----------------------------------------------------------------------------
(* Sums of float64s *)

(* The distance of the numbers around a sum.                               *)
LEMMA SpacingFact ==
  ASSUME NEW s \in Int
  PROVE  /\ Spacing(s) \in Powers /\ Spacing(s) \in Nat \ {0}
         /\ Spacing(s) = 1 \/ Spacing(s) * Significand <= s
<1> DEFINE Q == {q \in Powers : q = 1 \/ q * Significand <= s}
<1>1. Powers \subseteq Nat \ {0} /\ IsFiniteSet(Powers) /\ 1 \in Powers
  BY ReplayAssumption
<1>2. Q \subseteq Powers /\ 1 \in Q
  BY <1>1
<1>3. IsFiniteSet(Q) /\ Q \in SUBSET Int /\ Q # {}
  <2>1. Powers \subseteq Int
    BY <1>1
  <2> HIDE DEF Q
  <2> QED
    BY <1>1, <1>2, <2>1, FS_Subset
<1>4. Max(Q) \in Q
  <2> HIDE DEF Q
  <2> QED
    BY <1>3, MaxFact
<1>5. Spacing(s) = Max(Q)
  BY DEF Spacing
<1> QED
  BY <1>1, <1>4, <1>5

LEMMA RestFact ==
  ASSUME NEW s \in Int, NEW q \in Nat \ {0}
  PROVE  /\ s % q \in Int /\ s \div q \in Int /\ 0 <= s % q /\ s % q < q
         /\ s = q * (s \div q) + (s % q)
<1>1. s % q \in Int /\ s \div q \in Int
  OBVIOUS
<1>2. 0 <= s % q /\ s % q < q
  OBVIOUS
<1>3. s = q * (s \div q) + (s % q)
  OBVIOUS
<1> QED
  BY <1>1, <1>2, <1>3

(* A multiple leaves no rest.                                              *)
LEMMA MultipleFact ==
  ASSUME NEW q \in Nat \ {0}, NEW c \in Int
  PROVE  (q * c) % q = 0 /\ (q * c) \div q = c
<1> DEFINE x == q * c
<1>1. x \in Int
  OBVIOUS
<1>2. x \div q = c
  <2>1. q * c <= x /\ x < q * c + q
    OBVIOUS
  <2> HIDE DEF x
  <2> QED
    BY <1>1, <2>1, QuotientIsUnique
<1>3. x = q * (x \div q) + (x % q) /\ x % q \in Int
  <2> HIDE DEF x
  <2> QED
    BY <1>1, RestFact
<1>4. x = x + (x % q)
  BY <1>2, <1>3
<1> HIDE DEF x
<1>5. x % q = 0
  BY <1>1, <1>3, <1>4
<1> QED
  BY <1>2, <1>5 DEF x

(* Of two powers of two, one divides the other; and a spacing of sums up   *)
(* to two divides two, is at most scale below it and twice scale at two.   *)
LEMMA SpacingDivides ==
  ASSUME NEW scale \in Powers, NEW s \in Int, s <= 2 * (Significand * scale)
  PROVE  /\ \E c \in Int : 2 * scale = Spacing(s) * c
         /\ \/ \E c \in Int : scale = Spacing(s) * c
            \/ Spacing(s) = 2 * scale /\ s = 2 * (Significand * scale)
<1> DEFINE q == Spacing(s)
           top == 2 * (Significand * scale)
<1>1. scale \in Nat \ {0} /\ Significand \in Nat \ {0} /\ q \in Powers /\ q \in Nat \ {0}
      /\ (q = 1 \/ q * Significand <= s)
  BY SpacingFact, ReplayAssumption
<1>2. top \in Int /\ s <= top
  BY <1>1
<1>3. \A p \in Powers : (p < q => q % (2 * p) = 0) /\ (q < p => p % (2 * q) = 0)
  BY <1>1, ReplayAssumption
<1> HIDE DEF q
<1>4. CASE q <= scale
  <2>1. PICK c \in Int : scale = q * c
    <3>1. CASE q = scale
      <4>1. scale = q * 1
        BY <1>1, <3>1
      <4> QED
        BY <4>1
    <3>2. CASE q < scale
      <4> DEFINE d == 2 * q
                 t == scale \div d
      <4>1. scale % d = 0 /\ d \in Nat \ {0}
        BY <1>1, <1>3, <3>2
      <4> HIDE DEF d
      <4>2. scale = d * t + (scale % d) /\ t \in Int
        BY <1>1, <4>1, RestFact
      <4> HIDE DEF t
      <4>3. scale = d * t
        <5> DEFINE u == d * t
        <5>1. u \in Int /\ scale = u + 0
          BY <4>1, <4>2
        <5> HIDE DEF u
        <5>2. scale = u
          BY <5>1
        <5> QED
          BY <5>2 DEF u
      <4>4. (2 * q) * t = q * (2 * t) /\ 2 * t \in Int
        BY <1>1, <4>2
      <4> QED
        BY <4>3, <4>4 DEF d
    <3> QED
      BY <1>1, <1>4, <3>1, <3>2
  <2>2. 2 * scale = q * (2 * c) /\ 2 * c \in Int
    BY <1>1, <2>1
  <2> QED
    BY <2>1, <2>2 DEF q
<1>5. CASE scale < q
  <2> DEFINE d == 2 * scale
             t == q \div d
             v == d * Significand
  <2>1. d \in Nat \ {0} /\ q % d = 0
    BY <1>1, <1>3, <1>5
  <2>2. v = top /\ v \in Int
    BY <1>1
  <2>3. q * Significand <= s /\ q * Significand \in Int
    BY <1>1, <1>5
  <2> HIDE DEF d
  <2>4. t \in Int /\ q = d * t + (q % d)
    BY <1>1, <2>1, RestFact
  <2> HIDE DEF t
  <2>5. q = d * t
    <3> DEFINE u == d * t
    <3>1. u \in Int /\ q = u + 0
      BY <2>1, <2>4
    <3> HIDE DEF u
    <3>2. q = u
      BY <3>1
    <3> QED
      BY <3>2 DEF u
  <2>6. ~(t <= 0)
    <3> SUFFICES ASSUME t <= 0 PROVE FALSE
      OBVIOUS
    <3>1. d * t <= d * 0 /\ d * 0 = 0
      BY <2>1, <2>4, ProductOrder
    <3> QED
      BY <1>1, <2>5, <3>1
  <2>7. ~(t >= 2)
    <3> SUFFICES ASSUME t >= 2 PROVE FALSE
      OBVIOUS
    <3>1. d < q
      <4>1. d * 2 <= d * t /\ d * 2 = d + d
        BY <2>1, <2>4, ProductOrder
      <4> QED
        BY <1>1, <2>1, <2>5, <4>1
    <3>2. Significand * d + Significand <= Significand * q
      BY <1>1, <2>1, <3>1, ProductOrder
    <3> DEFINE a == q * Significand
    <3>3. Significand * d = v /\ Significand * q = a
      BY <1>1, <2>1
    <3>4. a \in Int /\ a <= s /\ s <= v /\ v + Significand <= a
      BY <1>2, <2>2, <2>3, <3>2, <3>3
    <3> HIDE DEF a, v
    <3> QED
      BY <1>1, <2>2, <3>4
  <2>8. t = 1 /\ q = d
    <3>1. t = 1
      BY <2>4, <2>6, <2>7
    <3> QED
      BY <2>1, <2>5, <3>1
  <2>9. s = top
    <3>1. v <= s /\ s <= v
      BY <1>2, <2>2, <2>3, <2>8
    <3> HIDE DEF v, top
    <3> QED
      BY <2>2, <3>1
  <2>10. 2 * scale = q * 1
    BY <1>1, <2>8 DEF d
  <2> QED
    BY <2>8, <2>9, <2>10 DEF d, q, top
<1> QED
  BY <1>1, <1>4, <1>5

(* A sum of at most two stays at most two, is off by half of scale at the  *)
(* most, and not off at all if it is a multiple of scale.                  *)
LEMMA RoundedFact ==
  ASSUME NEW scale \in Powers, NEW s \in Nat, s <= 2 * (Significand * scale)
  PROVE  /\ Rounded(s) \in Nat /\ Rounded(s) <= 2 * (Significand * scale)
         /\ 2 * (Rounded(s) - s) <= scale /\ 2 * (s - Rounded(s)) <= scale
         /\ s % scale = 0 => Rounded(s) = s
<1> DEFINE q == Spacing(s)
           rest == s % q
           low == q * (s \div q)
           top == 2 * (Significand * scale)
<1>1. /\ scale \in Nat \ {0} /\ Significand \in Nat \ {0} /\ q \in Nat \ {0}
  BY SpacingFact, ReplayAssumption
<1>2. PICK c \in Int : 2 * scale = q * c
  BY SpacingDivides
<1>3. (\E x \in Int : scale = q * x) \/ (q = 2 * scale /\ s = top)
  BY SpacingDivides
<1>4. Rounded(s) \in {s - rest, s - rest + q} /\ (Rounded(s) = s - rest => 2 * rest <= q)
      /\ (Rounded(s) # s - rest => 2 * rest >= q)
  <2>1. q \in Int /\ rest \in Int
    BY <1>1, RestFact
  <2>2. Rounded(s) = IF 2 * rest < q \/ (2 * rest = q /\ (s \div q) % 2 = 0) THEN s - rest ELSE s - rest + q
    BY DEF Rounded
  <2> HIDE DEF q, rest
  <2>3. CASE 2 * rest < q
    BY <1>1, <2>1, <2>2, <2>3
  <2>4. CASE 2 * rest = q
    BY <1>1, <2>1, <2>2, <2>4
  <2>5. CASE 2 * rest > q
    BY <1>1, <2>1, <2>2, <2>5
  <2> QED
    BY <1>1, <2>1, <2>3, <2>4, <2>5
<1> HIDE DEF q
<1>5. rest \in Int /\ s \div q \in Int /\ 0 <= rest /\ rest < q /\ s = low + rest /\ low \in Int
  BY <1>1, RestFact
<1>6. low >= 0
  <2>1. s \div q >= 0
    BY <1>1
  <2>2. q * 0 <= low /\ q * 0 = 0
    BY <1>1, <1>5, <2>1, ProductOrder
  <2> QED
    BY <2>2
<1>7. /\ top \in Int
      /\ rest > 0 => low + q <= top
  <2> DEFINE e == Significand * c
  <2>1. top = q * e /\ e \in Int /\ top \in Int
    <3>1. top = Significand * (2 * scale)
      BY <1>1
    <3>2. Significand * (q * c) = q * (Significand * c)
      BY <1>1
    <3> QED
      BY <1>1, <1>2, <3>1, <3>2
  <2>2. ASSUME rest > 0 PROVE low + q <= top
    <3>1. low < q * e
      <4>1. s <= top
        OBVIOUS
      <4> HIDE DEF low, top, e
      <4> QED
        BY <1>5, <2>1, <2>2, <4>1
    <3>2. s \div q < e
      <4> SUFFICES ASSUME e <= s \div q PROVE FALSE
        BY <1>5, <2>1
      <4>1. q * e <= low
        BY <1>1, <1>5, <2>1, ProductOrder
      <4> DEFINE h == q * e
      <4>2. h \in Int /\ h <= low /\ low < h
        BY <2>1, <3>1, <4>1
      <4> HIDE DEF h, low
      <4> QED
        BY <1>5, <4>2
    <3> QED
      BY <1>1, <1>5, <2>1, <3>2, ProductOrder
  <2> QED
    BY <2>1, <2>2
<1>8. /\ \E x \in Int : scale = q * x
      \/ rest = 0
  <2>1. CASE \E x \in Int : scale = q * x
    BY <2>1
  <2>2. CASE q = 2 * scale /\ s = top
    <3>1. s = q * Significand
      BY <1>1, <2>2
    <3>2. (q * Significand) % q = 0
      BY <1>1, MultipleFact
    <3> QED
      BY <3>1, <3>2
  <2> QED
    BY <1>3, <2>1, <2>2
<1>9. q <= scale \/ rest = 0
  <2> SUFFICES ASSUME NEW x \in Int, scale = q * x PROVE q <= scale
    BY <1>8
  <2>1. ~(x <= 0)
    <3> SUFFICES ASSUME x <= 0 PROVE FALSE
      OBVIOUS
    <3>1. q * x <= q * 0 /\ q * 0 = 0
      BY <1>1, ProductOrder
    <3> QED
      BY <1>1, <3>1
  <2>2. q * 1 <= q * x /\ q * 1 = q
    BY <1>1, <2>1, ProductOrder
  <2> QED
    BY <2>2
<1>10. s % scale = 0 => rest = 0
  <2> SUFFICES ASSUME NEW x \in Int, scale = q * x, s % scale = 0 PROVE rest = 0
    BY <1>8
  <2> DEFINE y == s \div scale
  <2>1. s = scale * y + (s % scale) /\ y \in Int
    BY <1>1, RestFact
  <2> HIDE DEF y
  <2>2. s = scale * y
    <3> DEFINE u == scale * y
    <3>1. u \in Int /\ s = u + 0
      BY <1>1, <2>1
    <3> HIDE DEF u
    <3>2. s = u
      BY <3>1
    <3> QED
      BY <3>2 DEF u
  <2>3. scale * y = q * (x * y) /\ x * y \in Int
    BY <1>1, <2>1
  <2>4. (q * (x * y)) % q = 0
    BY <1>1, <2>3, MultipleFact
  <2> QED
    BY <2>2, <2>3, <2>4
<1> DEFINE r == Rounded(s)
<1>11. /\ r \in {s - rest, s - rest + q} /\ (r = s - rest => 2 * rest <= q)
       /\ (r # s - rest => 2 * rest >= q)
  BY <1>4
<1>12. s <= top
  OBVIOUS
<1> HIDE DEF r, rest, low, top
<1>13. CASE r = s - rest
  <2>1. r \in Nat /\ r <= top /\ 2 * (r - s) <= scale /\ 2 * (s - r) <= scale
    BY <1>1, <1>5, <1>6, <1>7, <1>9, <1>11, <1>12, <1>13
  <2>2. s % scale = 0 => r = s
    BY <1>10, <1>13
  <2> QED
    BY <2>1, <2>2 DEF r, top
<1>14. CASE r # s - rest
  <2>1. r = low + q /\ rest > 0
    BY <1>1, <1>5, <1>11, <1>14
  <2>2. r \in Nat /\ r <= top /\ 2 * (r - s) <= scale /\ 2 * (s - r) <= scale
    BY <1>1, <1>5, <1>6, <1>7, <1>9, <1>11, <2>1
  <2>3. s % scale = 0 => r = s
    BY <1>10, <2>1
  <2> QED
    BY <2>2, <2>3 DEF r, top
<1> QED
  BY <1>13, <1>14

LEMMA RoundedIsInt == ASSUME NEW s \in Int PROVE Rounded(s) \in Int
<1> DEFINE q == Spacing(s)
           rest == s % q
<1>1. q \in Nat \ {0}
  BY SpacingFact
<1>2. rest \in Int
  <2> HIDE DEF q
  <2> QED
    BY <1>1, RestFact
<1>3. Rounded(s) \in {s - rest, s - rest + q}
  BY DEF Rounded
<1> HIDE DEF q, rest
<1> QED
  BY <1>1, <1>2, <1>3

-----------------------------------------------------------------------------
(* A share of the traffic *)

IsMix(g, facts, scenario) ==
  g = [S \in SUBSET DOMAIN facts |->
         IF S = {} THEN MixStart ELSE MixStep(g[S \ {Max(S)}], facts[Max(S)], scenario)]
LEMMA MixIsChosen ==
  ASSUME NEW facts, NEW scenario
  PROVE  SimulateModelMix(facts, scenario) = (CHOOSE g : IsMix(g, facts, scenario))[DOMAIN facts]
  BY DEF SimulateModelMix, FoldLeft, MapThenFoldSet, IsMix

LEMMA CalculateFact ==
  ASSUME NEW model, NEW usage \in Nat
  PROVE  Calculate(model, usage) \in Nat
<1>1. \A price \in Nat : usage * price \in Nat
  OBVIOUS
<1> QED
  BY <1>1, ReplayAssumption DEF Calculate

LEMMA OneFact ==
  ASSUME NEW scenario, scenario.scale \in Powers
  PROVE  /\ scenario.scale \in Nat \ {0} /\ One(scenario) \in Nat \ {0}
         /\ One(scenario) = scenario.scale * Significand /\ One(scenario) = Significand * scenario.scale
<1>1. scenario.scale \in Nat \ {0} /\ Significand \in Nat \ {0}
  BY ReplayAssumption
<1>2. One(scenario) = Significand * scenario.scale
  BY DEF One
<1> DEFINE scale == scenario.scale
<1> HIDE DEF scale
<1>3. ASSUME NEW c \in Nat \ {0} PROVE Significand * c \in Nat \ {0} /\ Significand * c = c * Significand
  BY <1>1
<1> QED
  BY <1>1, <1>2, <1>3

LEMMA MixRun ==
  ASSUME NEW facts, Readable(facts), NEW scenario, scenario.weight \in Int, scenario.scale \in Powers
  PROVE  \E run :
           /\ run[0] = MixStart
           /\ \A i \in 1..Len(facts) : run[i] = MixStep(run[i-1], facts[i], scenario)
           /\ SimulateModelMix(facts, scenario) = run[Len(facts)]
<1> DEFINE n == Len(facts)
           X == [acc : Int, matched : Int, affected : Int, actual : Int, simulated : Int]
           F == [i \in 1..n |-> [s \in X |-> MixStep(s, facts[i], scenario)]]
           b == MixStart
<1>1. n \in Nat /\ DOMAIN facts = 1..n /\ \A i \in 1..n : facts[i].cost \in Nat /\ facts[i].usage \in Nat
  BY DEF Readable
<1>2. b \in X
  BY DEF MixStart
<1>3. ASSUME NEW i \in 1..n, NEW s \in X PROVE MixStep(s, facts[i], scenario) \in X
  <2> DEFINE acc == Rounded(s.acc + scenario.weight)
             moved == acc >= One(scenario)
             price == IF moved THEN Calculate(scenario.to, facts[i].usage) ELSE facts[i].cost
  <2>1. Calculate(scenario.to, facts[i].usage) \in Int /\ facts[i].cost \in Int
    BY <1>1, CalculateFact
  <2>2. s.acc \in Int /\ s.matched \in Int /\ s.affected \in Int /\ s.actual \in Int /\ s.simulated \in Int
    OBVIOUS
  <2>3. acc \in Int /\ price \in Int /\ One(scenario) \in Int
    <3> DEFINE x == s.acc + scenario.weight
    <3>1. x \in Int
      BY <2>2
    <3>2. Rounded(x) \in Int
      <4> HIDE DEF x
      <4> QED
        BY <3>1, RoundedIsInt
    <3>3. One(scenario) \in Int
      BY OneFact
    <3> QED
      BY <2>1, <3>2, <3>3
  <2>4. MixStep(s, facts[i], scenario) =
          IF ~Matches(facts[i], scenario) THEN s
          ELSE [acc |-> IF moved THEN acc - One(scenario) ELSE acc, matched |-> s.matched + 1,
                affected |-> IF moved THEN s.affected + 1 ELSE s.affected,
                actual |-> s.actual + facts[i].cost, simulated |-> s.simulated + price]
    BY DEF MixStep, Left
  <2> HIDE DEF acc, moved, price
  <2>5. CASE ~Matches(facts[i], scenario)
    BY <2>4, <2>5
  <2>6. CASE Matches(facts[i], scenario)
    <3> HIDE DEF X
    <3> DEFINE affected == s.affected
    <3>1. s.matched + 1 \in Int /\ s.actual + facts[i].cost \in Int /\ s.simulated + price \in Int
      <4> DEFINE matched == s.matched
                 actual == s.actual
                 simulated == s.simulated
                 cost == facts[i].cost
      <4>1. matched \in Int /\ actual \in Int /\ simulated \in Int /\ cost \in Int
        BY <2>1, <2>2
      <4> HIDE DEF matched, actual, simulated, cost
      <4>2. matched + 1 \in Int /\ actual + cost \in Int /\ simulated + price \in Int
        BY <2>3, <4>1
      <4> QED
        BY <4>2 DEF matched, actual, simulated, cost
    <3>2. (IF moved THEN affected + 1 ELSE affected) \in Int
      <4>1. affected \in Int
        BY <2>2
      <4> HIDE DEF affected
      <4> QED
        BY <4>1
    <3>3. (IF moved THEN acc - One(scenario) ELSE acc) \in Int
      BY <2>3
    <3> QED
      BY <2>4, <2>6, <3>1, <3>2, <3>3 DEF X
  <2> QED
    BY <2>5, <2>6
<1> HIDE DEF X
<1>4. \A i \in 1..n : F[i] \in [X -> X]
  BY <1>3
<1>5. PICK g : IsIter(g, X, b, n, F)
  <2> HIDE DEF n, F, b
  <2>1. n \in Nat /\ b \in X /\ \A i \in 1..n : F[i] \in [X -> X]
    BY <1>1, <1>2, <1>4
  <2> QED
    BY <2>1, IterExists
<1>6. \A S \in SUBSET (1..n) :
         g[S] = IF S = {} THEN b ELSE MixStep(g[S \ {Max(S)}], facts[Max(S)], scenario)
  <2>1. ASSUME NEW S \in SUBSET (1..n), S # {}
        PROVE  g[S] = MixStep(g[S \ {Max(S)}], facts[Max(S)], scenario)
    <3>1. Max(S) \in 1..n /\ g[S \ {Max(S)}] \in X
      BY <1>1, <1>5, <2>1, PlacesFact DEF IsIter
    <3> QED
      BY <1>5, <2>1, <3>1 DEF IsIter
  <2> QED
    BY <1>5, <2>1 DEF IsIter
<1> HIDE DEF F, b
<1>7. IsMix(g, facts, scenario)
  <2>1. g = [S \in SUBSET (1..n) |->
               IF S = {} THEN b ELSE MixStep(g[S \ {Max(S)}], facts[Max(S)], scenario)]
    BY <1>5, <1>6 DEF IsIter
  <2> QED
    BY <1>1, <2>1 DEF IsMix, b
<1> DEFINE h == CHOOSE q : IsMix(q, facts, scenario)
           run == [i \in 0..n |-> h[1..i]]
<1>8. IsMix(h, facts, scenario) /\ SimulateModelMix(facts, scenario) = h[DOMAIN facts]
  BY <1>7, MixIsChosen
<1> HIDE DEF h
<1>9. \A S \in SUBSET (1..n) :
         h[S] = IF S = {} THEN b ELSE MixStep(h[S \ {Max(S)}], facts[Max(S)], scenario)
  BY <1>1, <1>8 DEF IsMix, b
<1>10. run[0] = b
  <2>1. 1..0 = {} /\ 0 \in 0..n
    BY <1>1
  <2> QED
    BY <1>9, <2>1
<1>11. ASSUME NEW i \in 1..n PROVE run[i] = MixStep(run[i-1], facts[i], scenario)
  <2>1. 1..i \in SUBSET (1..n) /\ 1..i # {} /\ Max(1..i) = i /\ (1..i) \ {Max(1..i)} = 1..i-1
    BY <1>1, UptoFact
  <2>2. i \in 0..n /\ i - 1 \in 0..n
    BY <1>1
  <2>3. h[1..i] = MixStep(h[1..i-1], facts[i], scenario)
    BY <1>9, <2>1
  <2> QED
    BY <2>2, <2>3
<1>12. SimulateModelMix(facts, scenario) = run[n]
  BY <1>1, <1>8
<1> QED
  BY <1>10, <1>11, <1>12 DEF b

MovesItsShare(facts, scenario, r) ==
  LET M == {i \in DOMAIN facts : Matches(facts[i], scenario)}
  IN /\ MovesAShare(scenario, Cardinality(M), r.affected)
     /\ r.actual = Total([i \in DOMAIN facts |-> IF i \in M THEN facts[i].cost ELSE 0])

(* What the loop keeps of a request that matches: taken is the sum of the  *)
(* weights that became whole requests, acc what is left, share the weights *)
(* so far, drift what their sums may be off, twice.                        *)
Balanced(taken, acc, share, drift) ==
  2 * (taken + acc - share) <= drift /\ 2 * (share - taken - acc) <= drift

(* The accumulator moves the weight's share of the requests that match,    *)
(* but for what its sums are off.                                          *)
LEMMA MixFact ==
  ASSUME NEW facts, Readable(facts), NEW scenario, scenario.weight \in Int, scenario.scale \in Powers,
         scenario.weight > 0, scenario.weight <= One(scenario)
  PROVE  MovesItsShare(facts, scenario, SimulateModelMix(facts, scenario))
<1> DEFINE n == Len(facts)
           w == scenario.weight
           scale == scenario.scale
           one == One(scenario)
           M == {i \in DOMAIN facts : Matches(facts[i], scenario)}
           f == [i \in DOMAIN facts |-> IF i \in M THEN facts[i].cost ELSE 0]
           m(i) == Cardinality(M \cap (1..i))
<1>0. /\ w \in Nat /\ w <= one /\ scale \in Nat \ {0} /\ one \in Nat \ {0}
      /\ one = scale * Significand /\ one = Significand * scale /\ Significand \in Nat \ {0}
  <2>1. scale \in Nat \ {0} /\ one \in Nat \ {0} /\ one = scale * Significand /\ one = Significand * scale
    BY OneFact
  <2>2. Significand \in Nat \ {0}
    BY ReplayAssumption
  <2> QED
    BY <2>1, <2>2
<1>1. /\ n \in Nat /\ DOMAIN facts = 1..n /\ M \in SUBSET (1..n)
      /\ \A i \in 1..n : facts[i].cost \in Nat /\ facts[i].usage \in Nat /\ f[i] \in Nat
  <2>1. n \in Nat /\ DOMAIN facts = 1..n /\ \A i \in 1..n : facts[i].cost \in Nat /\ facts[i].usage \in Nat
    BY DEF Readable
  <2>3. M \in SUBSET (1..n)
    BY <2>1
  <2>4. \A i \in 1..n : f[i] = IF i \in M THEN facts[i].cost ELSE 0
    BY <2>1
  <2> HIDE DEF M, f, n
  <2> QED
    BY <2>1, <2>3, <2>4
<1>2. PICK run :
           /\ run[0] = MixStart
           /\ \A i \in 1..Len(facts) : run[i] = MixStep(run[i-1], facts[i], scenario)
           /\ SimulateModelMix(facts, scenario) = run[Len(facts)]
  BY MixRun
<1>3. /\ m(0) = 0 /\ M \cap (1..n) = M /\ \A i \in 0..n : m(i) \in Nat
      /\ \A i \in 1..n : m(i) = m(i-1) + IF i \in M THEN 1 ELSE 0
  <2> HIDE DEF n, M
  <2> QED
    BY <1>1, UptoCount
<1>4. /\ SumOn(f, 1..0) = 0 /\ \A i \in 0..n : SumOn(f, 1..i) \in Nat
      /\ \A i \in 1..n : SumOn(f, 1..i) = SumOn(f, 1..i-1) + f[i]
  <2> HIDE DEF n, f
  <2> QED
    BY <1>1, UptoSum
<1>5. \A i \in 1..n : f[i] = IF i \in M THEN facts[i].cost ELSE 0
  BY <1>1
<1>6. \A i \in 1..n : i \in M <=> Matches(facts[i], scenario)
  BY <1>1
<1> DEFINE Exact(s, k) == w % scale = 0 => /\ s.acc % scale = 0 /\ s.acc < one
                                           /\ s.affected * one + s.acc = k * w
           Right(i) ==
       /\ run[i].acc \in Nat /\ run[i].acc <= one /\ run[i].affected \in Int
       /\ Balanced(run[i].affected * one, run[i].acc, m(i) * w, m(i) * scale)
       /\ Exact(run[i], m(i))
       /\ run[i].actual = SumOn(f, 1..i)
     N == {i \in Nat : i <= n => Right(i)}
<1> HIDE DEF M, f, m, one, w, scale, Exact
<1>7. 0 \in N
  <2>1. /\ run[0].acc = 0 /\ run[0].affected = 0 /\ run[0].actual = 0
    BY <1>2 DEF MixStart
  <2>2. 0 * one = 0 /\ m(0) * w = 0 /\ m(0) * scale = 0 /\ 0 % scale = 0
    <3>1. \A x \in Nat : 0 * x = 0
      OBVIOUS
    <3>2. 0 % scale = 0
      <4>1. scale * 0 = 0 /\ (scale * 0) % scale = 0
        BY <1>0, MultipleFact
      <4> QED
        BY <4>1
    <3> QED
      BY <1>0, <1>3, <3>1, <3>2
  <2>3. Exact(run[0], m(0))
    BY <1>0, <2>1, <2>2 DEF Exact
  <2>4. Balanced(0, 0, 0, 0)
    BY DEF Balanced
  <2>5. Right(0)
    BY <1>0, <1>4, <2>1, <2>2, <2>3, <2>4
  <2> QED
    BY <2>5
<1>8. ASSUME NEW i \in Nat, i \in N PROVE i + 1 \in N
  <2> SUFFICES ASSUME i + 1 <= n PROVE Right(i + 1)
    OBVIOUS
  <2> DEFINE c == i + 1
             s == run[i]
  <2>1. c \in 1..n /\ c - 1 = i /\ i \in 0..n /\ Right(i)
    BY <1>1, <1>8
  <2>2. run[c] = MixStep(s, facts[c], scenario)
    BY <1>2, <2>1
  <2>3. m(c) = m(i) + IF c \in M THEN 1 ELSE 0
    BY <1>3, <2>1
  <2>4. SumOn(f, 1..c) = SumOn(f, 1..i) + IF c \in M THEN facts[c].cost ELSE 0
    BY <1>4, <1>5, <2>1
  <2>5. facts[c].cost \in Nat /\ m(i) \in Nat /\ SumOn(f, 1..i) \in Nat
    BY <1>1, <1>3, <1>4, <2>1
  <2>6. /\ s.acc \in Nat /\ s.acc <= one /\ s.affected \in Int
        /\ Balanced(s.affected * one, s.acc, m(i) * w, m(i) * scale)
        /\ Exact(s, m(i)) /\ s.actual = SumOn(f, 1..i)
    BY <2>1
  <2>7. c \in M <=> Matches(facts[c], scenario)
    BY <1>6, <2>1
  <2> HIDE DEF c, s, n
  <2>8. ASSUME c \notin M PROVE Right(c)
    <3>1. run[c] = s
      BY <2>2, <2>7, <2>8 DEF MixStep
    <3>2. m(c) = m(i) /\ SumOn(f, 1..c) = SumOn(f, 1..i)
      BY <2>3, <2>4, <2>5, <2>8
    <3> QED
      BY <2>6, <3>1, <3>2
  <2>9. ASSUME c \in M PROVE Right(c)
    <3> DEFINE old == s.acc
               sum == Rounded(old + w)
               a == run[c].acc
               taken == s.affected * one
               took == run[c].affected * one
               share == m(i) * w
               drift == m(i) * scale
               k == m(i)
               u == s.affected
               v == run[c].affected
    <3>1. /\ a = IF sum >= one THEN sum - one ELSE sum
          /\ v = IF sum >= one THEN u + 1 ELSE u
          /\ run[c].actual = s.actual + facts[c].cost
      BY <2>2, <2>7, <2>9 DEF MixStep, Left, one, w
    <3>2. m(c) = k + 1 /\ SumOn(f, 1..c) = SumOn(f, 1..i) + facts[c].cost
      BY <2>3, <2>4, <2>9
    <3>3. k \in Nat /\ u \in Int /\ old \in Nat /\ old <= one
      BY <2>5, <2>6
    <3>4. /\ sum \in Nat /\ sum <= 2 * one
          /\ 2 * (sum - (old + w)) <= scale /\ 2 * ((old + w) - sum) <= scale
          /\ (old + w) % scale = 0 => sum = old + w
      <4>1. scale \in Powers
        BY DEF scale
      <4>2. old + w \in Nat /\ old + w <= 2 * one
        BY <1>0, <3>3
      <4>3. old + w <= 2 * (Significand * scale)
        BY <1>0, <4>2
      <4> DEFINE x == old + w
      <4>4. x \in Nat /\ x <= 2 * (Significand * scale)
        BY <4>2, <4>3
      <4> HIDE DEF x
      <4>5. /\ Rounded(x) \in Nat /\ Rounded(x) <= 2 * (Significand * scale)
            /\ 2 * (Rounded(x) - x) <= scale /\ 2 * (x - Rounded(x)) <= scale
            /\ x % scale = 0 => Rounded(x) = x
        BY <4>1, <4>4, RoundedFact
      <4>6. 2 * (Significand * scale) = 2 * one
        BY <1>0
      <4> QED
        BY <4>5, <4>6 DEF x
    <3> HIDE DEF sum, a, u, v, k, old
    <3>5. a \in Int /\ v \in Int
      BY <1>0, <3>1, <3>3, <3>4
    <3>6. /\ u * one \in Int /\ v * one = IF sum >= one THEN u * one + one ELSE u * one
          /\ (k + 1) * w = k * w + w /\ (k + 1) * scale = k * scale + scale
          /\ k * w \in Int /\ k * scale \in Int /\ v * one \in Int
      <4>1. \A x \in Int : x * one \in Int /\ (x + 1) * one = x * one + one
        BY <1>0
      <4>2. \A x \in Nat : x * w \in Int /\ (x + 1) * w = x * w + w
        BY <1>0
      <4>3. \A x \in Nat : x * scale \in Int /\ (x + 1) * scale = x * scale + scale
        BY <1>0
      <4>4. CASE sum >= one
        BY <3>1, <3>3, <4>1, <4>2, <4>3, <4>4
      <4>5. CASE ~(sum >= one)
        BY <3>1, <3>3, <4>1, <4>2, <4>3, <4>5
      <4> QED
        BY <4>4, <4>5
    <3>7. Balanced(taken, old, share, drift) /\ taken = u * one /\ took = v * one
          /\ share = k * w /\ drift = k * scale
      BY <2>6 DEF u, v, k, old
    <3> HIDE DEF taken, took, share, drift
    <3>8. a \in Nat /\ a <= one /\ Balanced(took, a, share + w, drift + scale)
      <4>1. /\ taken \in Int /\ took \in Int /\ share \in Int /\ drift \in Int
            /\ took = IF sum >= one THEN taken + one ELSE taken
        BY <3>6, <3>7
      <4>2. /\ one \in Nat /\ scale \in Nat /\ w \in Nat /\ w <= one /\ old \in Nat
            /\ sum \in Nat /\ sum <= 2 * one
            /\ 2 * (sum - (old + w)) <= scale /\ 2 * ((old + w) - sum) <= scale
        BY <1>0, <3>3, <3>4
      <4>3. /\ a \in Int /\ a = IF sum >= one THEN sum - one ELSE sum
            /\ Balanced(taken, old, share, drift)
        BY <3>1, <3>5, <3>7
      <4> QED
        <5>1. CASE sum >= one
          BY <4>1, <4>2, <4>3, <5>1 DEF Balanced
        <5>2. CASE ~(sum >= one)
          BY <4>1, <4>2, <4>3, <5>2 DEF Balanced
        <5> QED
          BY <5>1, <5>2
    <3>9. Balanced(run[c].affected * one, run[c].acc, m(c) * w, m(c) * scale)
      BY <3>2, <3>6, <3>7, <3>8 DEF v, a
    <3>10. ASSUME w % scale = 0
           PROVE  a % scale = 0 /\ a < one /\ took + a = share + w
      <4>0. taken \in Int /\ share \in Int
        BY <3>6, <3>7
      <4>1. old % scale = 0 /\ old < one /\ taken + old = share
        BY <2>6, <3>7, <3>10 DEF Exact, old, u, k
      <4>2. PICK x \in Int : old = scale * x
        <5> DEFINE q == old \div scale
        <5>1. old = scale * q + (old % scale) /\ q \in Int
          BY <1>0, <3>3, RestFact
        <5> HIDE DEF q
        <5> DEFINE p == scale * q
        <5>2. p \in Int /\ old = p + 0
          BY <1>0, <4>1, <5>1
        <5> HIDE DEF p
        <5>3. old = p
          BY <5>2
        <5> QED
          BY <5>1, <5>3 DEF p
      <4>3. PICK y \in Int : w = scale * y
        <5> DEFINE q == w \div scale
        <5>1. w = scale * q + (w % scale) /\ q \in Int
          BY <1>0, RestFact
        <5> HIDE DEF q
        <5> DEFINE p == scale * q
        <5>2. p \in Int /\ w = p + 0
          BY <1>0, <3>10, <5>1
        <5> HIDE DEF p
        <5>3. w = p
          BY <5>2
        <5> QED
          BY <5>1, <5>3 DEF p
      <4>4. old + w = scale * (x + y) /\ x + y \in Int
        <5>1. scale * (x + y) = scale * x + scale * y
          BY <1>0
        <5> QED
          BY <4>2, <4>3, <5>1
      <4>5. (old + w) % scale = 0 /\ sum = old + w
        BY <1>0, <3>4, <4>4, MultipleFact
      <4>6. (old + w) - one = scale * ((x + y) - Significand)
        <5>1. scale * ((x + y) - Significand) = scale * (x + y) - scale * Significand
          BY <1>0
        <5> QED
          BY <1>0, <4>4, <5>1
      <4>7. ((old + w) - one) % scale = 0
        <5>1. (x + y) - Significand \in Int
          BY <1>0
        <5> QED
          BY <1>0, <4>6, <5>1, MultipleFact
      <4>8. CASE sum >= one
        <5>1. a = (old + w) - one /\ took = taken + one
          BY <3>1, <3>6, <3>7, <4>5, <4>8
        <5>2. a < one
          BY <1>0, <3>3, <4>1, <5>1
        <5>3. took + a = share + w
          BY <1>0, <3>3, <4>0, <4>1, <5>1
        <5> QED
          BY <4>7, <5>1, <5>2, <5>3
      <4>9. CASE ~(sum >= one)
        <5>1. a = old + w /\ took = taken
          BY <3>1, <3>6, <3>7, <4>5, <4>9
        <5>2. a < one
          <6>1. a = sum /\ sum \in Nat /\ one \in Nat /\ ~(sum >= one)
            BY <1>0, <3>4, <4>5, <4>9, <5>1
          <6> QED
            BY <6>1
        <5>3. took + a = share + w
          BY <1>0, <3>3, <4>0, <4>1, <5>1
        <5> QED
          BY <4>5, <5>1, <5>2, <5>3
      <4> QED
        BY <4>8, <4>9
    <3>11. Exact(run[c], m(c))
      BY <3>2, <3>6, <3>7, <3>10 DEF Exact, v, a
    <3>12. run[c].actual = SumOn(f, 1..c)
      BY <2>6, <3>1, <3>2
    <3> QED
      BY <3>5, <3>8, <3>9, <3>11, <3>12 DEF a, v
  <2> QED
    BY <2>8, <2>9 DEF c
<1> HIDE DEF N
<1>9. n \in N
  <2> HIDE DEF n
  <2> QED
    BY <1>1, <1>7, <1>8, NumberInduction
<1> USE DEF N
<1>10. Right(n) /\ M \cap (1..n) = M
  BY <1>1, <1>3, <1>9
<1> DEFINE r == SimulateModelMix(facts, scenario)
           k == Cardinality(M)
<1>11. r = run[n] /\ m(n) = k /\ k \in Nat
  <2>1. m(n) \in Nat
    BY <1>1, <1>3
  <2> QED
    BY <1>2, <1>10, <2>1 DEF m
<1> HIDE DEF r, k
<1>12. Total(f) = SumOn(f, 1..n)
  BY <1>1, TotalFact DEF f
<1>13. r.actual = Total(f)
  BY <1>10, <1>11, <1>12
<1>14. MovesAShare(scenario, k, r.affected)
  <2> DEFINE taken == r.affected * one
             share == k * w
             drift == k * scale
             acc == r.acc
             a == r.affected
  <2>1. /\ acc \in Nat /\ acc <= one /\ a \in Int
        /\ Balanced(taken, acc, share, drift) /\ Exact(r, k)
    BY <1>10, <1>11
  <2>2. taken \in Int /\ share \in Int /\ drift \in Int
    <3>1. \A x, y \in Int : x * y \in Int
      OBVIOUS
    <3> QED
      BY <1>0, <1>11, <2>1, <3>1
  <2>3. 2 * (taken - share) <= drift /\ 2 * (taken - share) >= -(2 * one + drift)
    <3> HIDE DEF taken, share, drift, acc
    <3> QED
      BY <1>0, <2>1, <2>2 DEF Balanced
  <2>4. ASSUME w % scale = 0 PROVE a = share \div one
    <3>1. acc < one /\ taken + acc = share
      BY <2>1, <2>4 DEF Exact
    <3>2. taken = one * a
      BY <1>0, <2>1
    <3> HIDE DEF taken, share, acc, a
    <3>3. one * a \in Int /\ one * a <= share /\ share < one * a + one
      BY <1>0, <2>1, <2>2, <3>1, <3>2
    <3> QED
      BY <1>0, <2>1, <2>2, <3>3, QuotientIsUnique
  <2>5. MovesAShare(scenario, k, r.affected) <=>
          /\ 2 * (taken - share) <= drift /\ 2 * (taken - share) >= -(2 * one + drift)
          /\ w % scale = 0 => a = share \div one
    BY DEF MovesAShare, one, w, scale
  <2> QED
    BY <2>3, <2>4, <2>5
<1> QED
  BY <1>13, <1>14 DEF MovesItsShare, M, f, r, k

-----------------------------------------------------------------------------
(* A list by use: touching a key moves it to the end, and every other key  *)
(* stays before those it was before.                                       *)

Held(s) == {s[a] : a \in 1..Len(s)}
Ordered(s, u) == \A a, b \in 1..Len(s) : a < b => u[s[a]] < u[s[b]]

LEMMA RemoveFact ==
  ASSUME NEW K, NEW s \in Seq(K), NEW key
  PROVE  LET t == RemoveFirst(s, key)
         IN /\ t \in Seq(K)
            /\ \E p \in 1..Len(s)+1 :
                 /\ IF p <= Len(s) THEN s[p] = key ELSE \A a \in 1..Len(s) : s[a] # key
                 /\ Len(t) = IF p <= Len(s) THEN Len(s) - 1 ELSE Len(s)
                 /\ \A a \in 1..Len(t) : t[a] = IF a < p THEN s[a] ELSE s[a+1]
<1> DEFINE n == Len(s)
           t == RemoveFirst(s, key)
           I == {a \in 1..Len(s) : s[a] = key}
           p == Min(I)
<1>1. n \in Nat /\ \A a \in 1..n : s[a] \in K
  OBVIOUS
<1>2. ASSUME I = {} PROVE t = s
  BY <1>2 DEF RemoveFirst
<1>3. ASSUME I # {} PROVE p \in 1..n /\ s[p] = key /\ t = SubSeq(s, 1, p-1) \o SubSeq(s, p+1, n)
  <2>1. I \in SUBSET Nat
    BY <1>1
  <2>2. \E x \in I : \A y \in I : x <= y
    BY <1>3, <2>1, LeastNat
  <2>3. p \in I
    BY <2>2 DEF Min
  <2>4. \E a \in 1..Len(s) : s[a] = key
    BY <1>3
  <2>5. t = RemoveAt(s, p)
    BY <1>3, <2>4 DEF RemoveFirst, SelectInSeq
  <2> HIDE DEF p, t
  <2>6. t = SubSeq(s, 1, p-1) \o SubSeq(s, p+1, n)
    BY <2>5 DEF RemoveAt
  <2> QED
    BY <2>3, <2>6
<1>4. CASE I = {}
  <2>1. n + 1 \in 1..n+1 /\ ~(n + 1 <= n) /\ \A a \in 1..n : s[a] # key /\ a < n + 1
    BY <1>1, <1>4
  <2> QED
    BY <1>1, <1>2, <1>4, <2>1
<1>5. CASE I # {}
  <2> DEFINE l == SubSeq(s, 1, p-1)
             r == SubSeq(s, p+1, n)
  <2>7. p \in 1..n /\ s[p] = key /\ t = l \o r
    BY <1>3, <1>5
  <2>1. p \in 1..n /\ p \in Int /\ p - 1 \in Int /\ p + 1 \in Int /\ n \in Int /\ s[p] = key /\ t = l \o r
    <3> HIDE DEF p, t, l, r
    <3> QED
      BY <1>1, <2>7
  <2> HIDE DEF p, t, n
  <2>2. l \in Seq(K) /\ Len(l) = p - 1 /\ \A a \in 1..p-1 : l[a] = s[a]
    <3>1. \A a \in 1..p-1 : s[a] \in K
      BY <1>1, <2>1
    <3>2. /\ l \in Seq(K) /\ Len(l) = IF 1 <= p - 1 THEN (p - 1) - 1 + 1 ELSE 0
          /\ \A a \in 1..(p - 1) - 1 + 1 : l[a] = s[1+a-1]
      BY <2>1, <3>1, SubSeqProperties
    <3>3. \A a \in 1..p-1 : a \in 1..(p - 1) - 1 + 1 /\ 1 + a - 1 = a
      BY <2>1
    <3>4. Len(l) = p - 1
      BY <2>1, <3>2
    <3> HIDE DEF l
    <3> QED
      BY <3>2, <3>3, <3>4
  <2>3. r \in Seq(K) /\ Len(r) = n - p /\ \A a \in 1..n-p : r[a] = s[p+a]
    <3>1. \A a \in p+1..n : s[a] \in K
      BY <1>1, <2>1
    <3>2. /\ r \in Seq(K) /\ Len(r) = IF p + 1 <= n THEN n - (p + 1) + 1 ELSE 0
          /\ \A a \in 1..n - (p + 1) + 1 : r[a] = s[p+1+a-1]
      BY <2>1, <3>1, SubSeqProperties
    <3>3. \A a \in 1..n-p : a \in 1..n - (p + 1) + 1 /\ p + 1 + a - 1 = p + a
      BY <2>1
    <3>4. Len(r) = n - p
      BY <2>1, <3>2
    <3> HIDE DEF r
    <3> QED
      BY <3>2, <3>3, <3>4
  <2> HIDE DEF l, r
  <2>4. /\ t \in Seq(K) /\ Len(t) = Len(l) + Len(r)
        /\ \A a \in 1..Len(l) + Len(r) : t[a] = IF a <= Len(l) THEN l[a] ELSE r[a - Len(l)]
    BY <2>1, <2>2, <2>3, ConcatProperties
  <2>5. Len(t) = n - 1
    BY <2>1, <2>2, <2>3, <2>4
  <2>6. ASSUME NEW a \in 1..n-1 PROVE t[a] = IF a < p THEN s[a] ELSE s[a+1]
    <3>1. t[a] = IF a <= p - 1 THEN l[a] ELSE r[a - (p - 1)]
      <4>1. a \in 1..Len(l) + Len(r) /\ Len(l) = p - 1
        <5>1. Len(l) = p - 1 /\ Len(r) = n - p
          BY <2>2, <2>3
        <5>2. (p - 1) + (n - p) = n - 1
          BY <2>1
        <5> QED
          BY <5>1, <5>2
      <4> QED
        BY <2>4, <4>1
    <3>2. CASE a < p
      BY <2>1, <2>2, <3>1, <3>2
    <3>3. CASE ~(a < p)
      <4>1. a - (p - 1) \in 1..n-p /\ p + (a - (p - 1)) = a + 1 /\ ~(a <= p - 1)
        BY <2>1, <3>3
      <4>2. r[a - (p - 1)] = s[p + (a - (p - 1))]
        BY <2>3, <4>1
      <4> QED
        BY <3>1, <3>3, <4>1, <4>2
    <3> QED
      BY <3>2, <3>3
  <2>8. /\ t \in Seq(K) /\ p \in 1..n+1 /\ p <= n /\ s[p] = key /\ Len(t) = n - 1
        /\ \A a \in 1..Len(t) : t[a] = IF a < p THEN s[a] ELSE s[a+1]
    BY <1>1, <2>1, <2>4, <2>5, <2>6
  <2> QED
    BY <2>8 DEF n, t
<1> QED
  BY <1>4, <1>5

LEMMA TouchTyped ==
  ASSUME NEW K, NEW s \in Seq(K), NEW key \in K
  PROVE  /\ TouchLRU(s, key) \in Seq(K) /\ Len(TouchLRU(s, key)) = Len(RemoveFirst(s, key)) + 1
         /\ TouchLRU(s, key)[Len(RemoveFirst(s, key)) + 1] = key
         /\ \A a \in 1..Len(RemoveFirst(s, key)) : TouchLRU(s, key)[a] = RemoveFirst(s, key)[a]
<1>1. RemoveFirst(s, key) \in Seq(K)
  BY RemoveFact
<1> DEFINE r == RemoveFirst(s, key)
<1> HIDE DEF r
<1>2. r \in Seq(K)
  BY <1>1 DEF r
<1>3. /\ Append(r, key) \in Seq(K) /\ Len(Append(r, key)) = Len(r) + 1
      /\ Append(r, key)[Len(r) + 1] = key /\ \A a \in 1..Len(r) : Append(r, key)[a] = r[a]
  BY <1>2
<1> QED
  BY <1>3 DEF r, TouchLRU

LEMMA TouchOrder ==
  ASSUME NEW K, NEW s \in Seq(K), NEW key \in K, NEW u, NEW v,
         \A k \in K : u[k] \in Int /\ v[k] \in Int,
         \A k \in K \ {key} : v[k] = u[k] /\ v[k] < v[key],
         Ordered(s, u)
  PROVE  LET t == TouchLRU(s, key)
         IN /\ t \in Seq(K) /\ Ordered(t, v) /\ Held(t) = Held(s) \cup {key}
            /\ Len(t) = IF key \in Held(s) THEN Len(s) ELSE Len(s) + 1
<1> DEFINE n == Len(s)
           r == RemoveFirst(s, key)
           m == Len(r)
           t == TouchLRU(s, key)
<1>1. PICK p \in 1..n+1 :
        /\ IF p <= n THEN s[p] = key ELSE \A a \in 1..n : s[a] # key
        /\ m = IF p <= n THEN n - 1 ELSE n
        /\ \A a \in 1..m : r[a] = IF a < p THEN s[a] ELSE s[a+1]
  BY RemoveFact
<1>2. /\ t \in Seq(K) /\ Len(t) = m + 1 /\ t[m+1] = key /\ \A a \in 1..m : t[a] = r[a]
  BY TouchTyped
<1> HIDE DEF r, m, t
<1>3. n \in Nat /\ m \in Nat /\ \A a \in 1..n : s[a] \in K /\ u[s[a]] \in Int
  <2>1. n \in Nat /\ \A a \in 1..n : s[a] \in K
    OBVIOUS
  <2> QED
    BY <1>1, <2>1
<1> DEFINE from(a) == IF a < p THEN a ELSE a + 1
<1>4. \A a \in 1..m : from(a) \in 1..n /\ from(a) # p /\ t[a] = s[from(a)]
  BY <1>1, <1>2, <1>3
<1>5. \A a, b \in 1..m : a < b => from(a) < from(b)
  BY <1>1, <1>3
<1>6. \A a, b \in 1..n : a < b => u[s[a]] < u[s[b]]
  BY DEF Ordered
<1>7. \A a, b \in 1..n : s[a] = s[b] => a = b
  <2>1. ASSUME NEW a \in 1..n, NEW b \in 1..n, s[a] = s[b], a # b PROVE FALSE
    <3>1. a < b \/ b < a
      BY <1>3, <2>1
    <3>2. u[s[a]] < u[s[b]] \/ u[s[b]] < u[s[a]]
      BY <1>6, <3>1
    <3> QED
      BY <1>3, <2>1, <3>2
  <2> QED
    BY <2>1
<1>8. \A a \in 1..m : t[a] \in K \ {key}
  <2>1. ASSUME NEW a \in 1..m, t[a] = key PROVE FALSE
    <3>1. from(a) \in 1..n /\ from(a) # p /\ s[from(a)] = key
      BY <1>4, <2>1
    <3> HIDE DEF from
    <3>2. p <= n /\ p \in 1..n /\ s[p] = key
      BY <1>1, <1>3, <3>1
    <3> QED
      BY <1>7, <3>1, <3>2
  <2>2. \A a \in 1..m : t[a] \in K
    BY <1>3, <1>4
  <2> QED
    BY <2>1, <2>2
<1>9. Ordered(t, v)
  <2> SUFFICES ASSUME NEW a \in 1..m+1, NEW b \in 1..m+1, a < b PROVE v[t[a]] < v[t[b]]
    BY <1>2 DEF Ordered
  <2>1. a \in 1..m /\ t[a] \in K \ {key}
    BY <1>3, <1>8
  <2>2. CASE b = m + 1
    BY <1>2, <2>1, <2>2
  <2>3. CASE b # m + 1
    <3>1. b \in 1..m
      BY <1>3, <2>3
    <3>2. t[b] \in K \ {key}
      BY <1>8, <3>1
    <3>3. from(a) < from(b) /\ from(a) \in 1..n /\ from(b) \in 1..n /\ t[a] = s[from(a)] /\ t[b] = s[from(b)]
      BY <1>4, <1>5, <2>1, <3>1
    <3> HIDE DEF from
    <3>4. u[t[a]] < u[t[b]]
      BY <1>6, <3>3
    <3> QED
      BY <2>1, <3>2, <3>4
  <2> QED
    BY <2>2, <2>3
<1>10. key \in Held(s) <=> p <= n
  <2>1. p <= n => p \in 1..n /\ s[p] = key
    BY <1>1, <1>3
  <2>2. key \in Held(s) => \E a \in 1..n : s[a] = key
    BY DEF Held
  <2> QED
    BY <1>1, <2>1, <2>2 DEF Held
<1>11. Len(t) = IF key \in Held(s) THEN n ELSE n + 1
  BY <1>1, <1>2, <1>3, <1>10
<1>12. Held(t) = Held(s) \cup {key}
  <2>1. \A a \in 1..m : t[a] \in Held(s)
    BY <1>4 DEF Held
  <2>2. Held(t) \subseteq Held(s) \cup {key}
    <3>1. ASSUME NEW a \in 1..m+1 PROVE t[a] \in Held(s) \cup {key}
      BY <1>2, <1>3, <2>1
    <3> QED
      BY <1>2, <3>1 DEF Held
  <2>3. key \in Held(t)
    <3>1. m + 1 \in 1..m+1
      BY <1>3
    <3> QED
      BY <1>2, <3>1 DEF Held
  <2>4. ASSUME NEW a \in 1..n, s[a] # key PROVE s[a] \in Held(t)
    <3> DEFINE b == IF a < p THEN a ELSE a - 1
    <3>1. a # p
      BY <1>1, <1>3, <2>4
    <3>2. b \in 1..m /\ b \in 1..m+1 /\ from(b) = a
      BY <1>1, <1>3, <3>1
    <3>3. t[b] = s[a]
      BY <1>4, <3>2
    <3> HIDE DEF b
    <3> QED
      BY <1>2, <3>2, <3>3 DEF Held
  <2> QED
    BY <2>2, <2>3, <2>4 DEF Held
<1> QED
  BY <1>2, <1>9, <1>11, <1>12 DEF t

(* The key used longest ago is at the head.                                *)
LEMMA TailOrder ==
  ASSUME NEW K, NEW t \in Seq(K), Len(t) > 1, NEW v, \A k \in K : v[k] \in Int, Ordered(t, v)
  PROVE  /\ Head(t) \in Held(t) /\ Tail(t) \in Seq(K) /\ Len(Tail(t)) = Len(t) - 1
         /\ Ordered(Tail(t), v) /\ Held(Tail(t)) = Held(t) \ {Head(t)}
         /\ \A k \in Held(Tail(t)) : v[Head(t)] < v[k]
<1> DEFINE n == Len(t)
           r == Tail(t)
<1>1. n \in Nat /\ n > 1 /\ 1 \in 1..n /\ Head(t) = t[1] /\ \A a \in 1..n : t[a] \in K
  OBVIOUS
<1>2. r \in Seq(K) /\ Len(r) = n - 1 /\ \A a \in 1..n-1 : r[a] = t[a+1]
  <2>1. t # <<>>
    BY <1>1
  <2> QED
    BY <1>1, <2>1, HeadTailProperties
<1> HIDE DEF r
<1>3. \A a, b \in 1..n : a < b => v[t[a]] < v[t[b]]
  BY DEF Ordered
<1> HIDE DEF n
<1>4. ASSUME NEW a \in 1..n-1 PROVE r[a] = t[a+1] /\ a + 1 \in 1..n /\ 1 < a + 1 /\ v[t[1]] < v[r[a]]
  <2>1. a + 1 \in 1..n /\ 1 < a + 1 /\ r[a] = t[a+1]
    BY <1>1, <1>2
  <2> QED
    BY <1>1, <1>3, <2>1
<1>5. Ordered(r, v)
  <2>1. ASSUME NEW a \in 1..n-1, NEW b \in 1..n-1, a < b PROVE v[r[a]] < v[r[b]]
    <3>1. a + 1 < b + 1
      BY <1>1, <2>1
    <3> QED
      BY <1>3, <1>4, <3>1
  <2> QED
    BY <1>2, <2>1 DEF Ordered
<1>6. Held(r) = {r[a] : a \in 1..n-1}
  BY <1>2 DEF Held
<1>7. Held(t) = {t[a] : a \in 1..n}
  BY DEF Held, n
<1>8. \A k \in Held(r) : v[t[1]] < v[k]
  BY <1>4, <1>6
<1>9. Held(r) \subseteq Held(t) \ {t[1]}
  <2>1. v[t[1]] \in Int
    BY <1>1
  <2>2. ~(v[t[1]] < v[t[1]])
    BY <2>1
  <2>3. t[1] \notin Held(r)
    BY <1>8, <2>2
  <2>4. \A a \in 1..n-1 : r[a] \in Held(t)
    BY <1>4, <1>7
  <2> QED
    BY <1>6, <2>3, <2>4
<1>10. ASSUME NEW a \in 1..n, t[a] # t[1] PROVE t[a] \in Held(r)
  <2>1. a - 1 \in 1..n-1 /\ (a - 1) + 1 = a
    BY <1>1, <1>10
  <2>2. r[a-1] = t[a]
    BY <1>4, <2>1
  <2> QED
    BY <1>6, <2>1, <2>2
<1>11. Held(r) = Held(t) \ {t[1]}
  BY <1>7, <1>9, <1>10
<1>12. t[1] \in Held(t)
  BY <1>1, <1>7
<1> QED
  BY <1>1, <1>2, <1>5, <1>8, <1>11, <1>12 DEF r, n

(* Each key is held once.                                                  *)
LEMMA HeldCount ==
  ASSUME NEW K, NEW s \in Seq(K), NEW u, \A k \in K : u[k] \in Int, Ordered(s, u)
  PROVE  IsFiniteSet(Held(s)) /\ Cardinality(Held(s)) = Len(s)
<1> DEFINE n == Len(s)
           g == [a \in 1..n |-> s[a]]
<1>1. n \in Nat /\ \A a \in 1..n : s[a] \in K /\ u[s[a]] \in Int
  <2>1. n \in Nat /\ \A a \in 1..n : s[a] \in K
    OBVIOUS
  <2> QED
    BY <2>1
<1>2. \A a, b \in 1..n : a < b => u[s[a]] < u[s[b]]
  BY DEF Ordered
<1>3. \A a, b \in 1..n : s[a] = s[b] => a = b
  <2>1. ASSUME NEW a \in 1..n, NEW b \in 1..n, s[a] = s[b], a # b PROVE FALSE
    <3>1. a < b \/ b < a
      BY <1>1, <2>1
    <3>2. u[s[a]] < u[s[b]] \/ u[s[b]] < u[s[a]]
      BY <1>2, <3>1
    <3> QED
      BY <1>1, <2>1, <3>2
  <2> QED
    BY <2>1
<1>4. g \in [1..n -> Held(s)] /\ (\A a, b \in 1..n : g[a] = g[b] => a = b)
      /\ \A k \in Held(s) : \E a \in 1..n : g[a] = k
  BY <1>3 DEF Held
<1> HIDE DEF g
<1>5. ExistsBijection(1..n, Held(s))
  BY <1>4 DEF ExistsBijection, Bijection, Injection, Surjection, IsInjective
<1> HIDE DEF n
<1>6. IsFiniteSet(1..n) /\ Cardinality(1..n) = n
  <2>1. n \in Int /\ 1 \in Int
    BY <1>1
  <2>2. IsFiniteSet(1..n) /\ Cardinality(1..n) = IF 1 > n THEN 0 ELSE n - 1 + 1
    BY <2>1, FS_Interval
  <2> QED
    BY <1>1, <2>2
<1>7. IsFiniteSet(Held(s)) /\ Cardinality(Held(s)) = n
  BY <1>5, <1>6, FS_Bijection
<1> QED
  BY <1>7 DEF n

-----------------------------------------------------------------------------
(* A cache with a TTL and a size *)

CacheStart == [expires |-> <<>>, lru |-> <<>>, hits |-> {}, simulated |-> 0, n |-> 0]
IsCache(g, facts, scenario) ==
  g = [S \in SUBSET DOMAIN facts |->
         IF S = {} THEN CacheStart ELSE CacheStep(g[S \ {Max(S)}], facts[Max(S)], scenario)]
LEMMA CacheIsChosen ==
  ASSUME NEW facts, NEW scenario
  PROVE  SimulateCaching(facts, scenario) = (CHOOSE g : IsCache(g, facts, scenario))[DOMAIN facts]
  BY DEF SimulateCaching, FoldLeft, MapThenFoldSet, IsCache, CacheStart

KeysOf(facts) == {facts[j].key : j \in 1..Len(facts)} \ {NoKey}
Caches(K) == [expires : UNION {[S -> Int] : S \in SUBSET K}, lru : Seq(K),
              hits : SUBSET Nat, simulated : Int, n : Nat]

(* The three ways a request goes.                                          *)
Answers(s, f) == f.key \in DOMAIN s.expires /\ f.at < s.expires[f.key]
Evicted(s, f, scenario) ==
  IF scenario.entries > 0 /\ Len(TouchLRU(s.lru, f.key)) > scenario.entries
  THEN {Head(TouchLRU(s.lru, f.key))} ELSE {}
LEMMA CacheStepFact ==
  ASSUME NEW K, NoKey \notin K, NEW s \in Caches(K), NEW f, NEW scenario
  PROVE  /\ f.key = NoKey =>
              CacheStep(s, f, scenario) =
                [expires |-> s.expires, lru |-> s.lru, hits |-> s.hits,
                 simulated |-> s.simulated + f.cost, n |-> s.n + 1]
         /\ f.key # NoKey /\ Answers(s, f) =>
              CacheStep(s, f, scenario) =
                [expires |-> s.expires, lru |-> TouchLRU(s.lru, f.key), hits |-> s.hits \cup {s.n + 1},
                 simulated |-> s.simulated, n |-> s.n + 1]
         /\ f.key # NoKey /\ ~Answers(s, f) =>
              CacheStep(s, f, scenario) =
                [expires |-> [k \in (DOMAIN s.expires \cup {f.key}) \ Evicted(s, f, scenario) |->
                                IF k = f.key THEN f.at + scenario.ttl ELSE s.expires[k]],
                 lru |-> IF Evicted(s, f, scenario) = {} THEN TouchLRU(s.lru, f.key)
                         ELSE Tail(TouchLRU(s.lru, f.key)),
                 hits |-> s.hits, simulated |-> s.simulated + f.cost, n |-> s.n + 1]
<1> DEFINE t == TouchLRU(s.lru, f.key)
           evicted == Evicted(s, f, scenario)
           kept == (DOMAIN s.expires \cup {f.key}) \ evicted
<1>1. PICK expires, lru, hits, simulated, n :
        s = [expires |-> expires, lru |-> lru, hits |-> hits, simulated |-> simulated, n |-> n]
  <2>1. s = [expires |-> s.expires, lru |-> s.lru, hits |-> s.hits, simulated |-> s.simulated, n |-> s.n]
    BY DEF Caches
  <2> QED
    BY <2>1
<1>2. DOMAIN s.expires \in SUBSET K
  <2>1. s.expires \in UNION {[S -> Int] : S \in SUBSET K}
    BY DEF Caches
  <2>2. PICK S \in SUBSET K : s.expires \in [S -> Int]
    BY <2>1
  <2> QED
    BY <2>2
<1>3. CacheStep(s, f, scenario) =
        CASE f.key = NoKey -> [s EXCEPT !.simulated = @ + f.cost, !.n = @ + 1]
          [] Answers(s, f) -> [s EXCEPT !.lru = t, !.hits = @ \cup {s.n + 1}, !.n = @ + 1]
          [] OTHER ->
               [s EXCEPT !.expires = [k \in kept |-> IF k = f.key THEN f.at + scenario.ttl ELSE @[k]],
                         !.lru = IF evicted = {} THEN t ELSE Tail(t),
                         !.simulated = @ + f.cost, !.n = @ + 1]
  BY DEF CacheStep, Answers, Evicted
<1>4. ASSUME f.key = NoKey PROVE ~Answers(s, f)
  BY <1>2, <1>4 DEF Answers
<1> HIDE DEF t, evicted, kept
<1> DEFINE fresh == [k \in kept |-> IF k = f.key THEN f.at + scenario.ttl ELSE s.expires[k]]
<1>5. ASSUME f.key = NoKey
      PROVE  CacheStep(s, f, scenario) = [s EXCEPT !.simulated = @ + f.cost, !.n = @ + 1]
  BY <1>3, <1>4, <1>5
<1>6. ASSUME f.key # NoKey, Answers(s, f)
      PROVE  CacheStep(s, f, scenario) = [s EXCEPT !.lru = t, !.hits = @ \cup {s.n + 1}, !.n = @ + 1]
  BY <1>3, <1>6
<1>7. ASSUME f.key # NoKey, ~Answers(s, f)
      PROVE  CacheStep(s, f, scenario) =
               [s EXCEPT !.expires = fresh, !.lru = IF evicted = {} THEN t ELSE Tail(t),
                         !.simulated = @ + f.cost, !.n = @ + 1]
  BY <1>3, <1>7
<1> HIDE DEF fresh
<1> DEFINE Whole(r) == DOMAIN r = DOMAIN s /\ r = [x \in DOMAIN r |-> r[x]]
<1>13. \A r : Whole(r) =>
         r = [expires |-> r.expires, lru |-> r.lru, hits |-> r.hits, simulated |-> r.simulated, n |-> r.n]
  <2>1. DOMAIN s = {"expires", "lru", "hits", "simulated", "n"}
    BY <1>1
  <2> QED
    BY <2>1
<1> DEFINE plain == [s EXCEPT !.simulated = @ + f.cost, !.n = @ + 1]
           hit == [s EXCEPT !.lru = t, !.hits = @ \cup {s.n + 1}, !.n = @ + 1]
           miss == [s EXCEPT !.expires = fresh, !.lru = IF evicted = {} THEN t ELSE Tail(t),
                             !.simulated = @ + f.cost, !.n = @ + 1]
<1>8. plain = [expires |-> s.expires, lru |-> s.lru, hits |-> s.hits, simulated |-> s.simulated + f.cost, n |-> s.n + 1]
  <2>1. Whole(plain)
    OBVIOUS
  <2>2. /\ plain.expires = s.expires /\ plain.lru = s.lru /\ plain.hits = s.hits
        /\ plain.simulated = s.simulated + f.cost /\ plain.n = s.n + 1
    BY <1>1
  <2> HIDE DEF plain, Whole
  <2> QED
    BY <1>13, <2>1, <2>2
<1>9. hit = [expires |-> s.expires, lru |-> t, hits |-> s.hits \cup {s.n + 1}, simulated |-> s.simulated, n |-> s.n + 1]
  <2>1. Whole(hit)
    OBVIOUS
  <2>2. /\ hit.expires = s.expires /\ hit.lru = t /\ hit.hits = s.hits \cup {s.n + 1}
        /\ hit.simulated = s.simulated /\ hit.n = s.n + 1
    BY <1>1
  <2> HIDE DEF hit, Whole
  <2> QED
    BY <1>13, <2>1, <2>2
<1>10. miss = [expires |-> fresh, lru |-> IF evicted = {} THEN t ELSE Tail(t), hits |-> s.hits,
               simulated |-> s.simulated + f.cost, n |-> s.n + 1]
  <2>1. Whole(miss)
    OBVIOUS
  <2>2. /\ miss.expires = fresh /\ miss.lru = (IF evicted = {} THEN t ELSE Tail(t)) /\ miss.hits = s.hits
        /\ miss.simulated = s.simulated + f.cost /\ miss.n = s.n + 1
    BY <1>1
  <2> HIDE DEF miss, Whole
  <2> QED
    BY <1>13, <2>1, <2>2
<1>11. f.key # NoKey /\ ~Answers(s, f) =>
         CacheStep(s, f, scenario) =
           [expires |-> fresh, lru |-> IF evicted = {} THEN t ELSE Tail(t), hits |-> s.hits,
            simulated |-> s.simulated + f.cost, n |-> s.n + 1]
  BY <1>7, <1>10
<1>12. f.key # NoKey /\ Answers(s, f) =>
         CacheStep(s, f, scenario) =
           [expires |-> s.expires, lru |-> t, hits |-> s.hits \cup {s.n + 1},
            simulated |-> s.simulated, n |-> s.n + 1]
  BY <1>6, <1>9
<1> QED
  BY <1>5, <1>8, <1>11, <1>12 DEF fresh, kept, evicted, t

LEMMA CacheTyped ==
  ASSUME NEW K, NoKey \notin K, NEW s \in Caches(K), NEW f, NEW scenario,
         f.key \in K \cup {NoKey}, f.cost \in Int, f.at \in Int, scenario.ttl \in Int
  PROVE  CacheStep(s, f, scenario) \in Caches(K)
<1> DEFINE t == TouchLRU(s.lru, f.key)
           evicted == Evicted(s, f, scenario)
           kept == (DOMAIN s.expires \cup {f.key}) \ evicted
           fresh == [k \in kept |-> IF k = f.key THEN f.at + scenario.ttl ELSE s.expires[k]]
           Expiries == UNION {[S -> Int] : S \in SUBSET K}
<1>1. /\ s.expires \in Expiries /\ s.lru \in Seq(K) /\ s.hits \in SUBSET Nat
      /\ s.simulated \in Int /\ s.n \in Nat
  BY DEF Caches
<1>2. PICK S \in SUBSET K : s.expires \in [S -> Int]
  BY <1>1
<1> HIDE DEF t, evicted
<1>3. ASSUME f.key \in K PROVE fresh \in Expiries
  <2>1. kept \in SUBSET K
    BY <1>2, <1>3
  <2>2. fresh \in [kept -> Int]
    BY <1>2
  <2> HIDE DEF kept, fresh
  <2> QED
    BY <2>1, <2>2
<1> HIDE DEF fresh, kept
<1>4. ASSUME f.key \in K PROVE t \in Seq(K) /\ Tail(t) \in Seq(K)
  <2>1. t \in Seq(K) /\ Len(t) = Len(RemoveFirst(s.lru, f.key)) + 1
    <3> DEFINE lru == s.lru
               key == f.key
    <3>1. lru \in Seq(K) /\ key \in K /\ t = TouchLRU(lru, key)
      BY <1>1, <1>4 DEF t
    <3> HIDE DEF lru, key
    <3>2. TouchLRU(lru, key) \in Seq(K) /\ Len(TouchLRU(lru, key)) = Len(RemoveFirst(lru, key)) + 1
      BY <3>1, TouchTyped
    <3> QED
      BY <3>1, <3>2 DEF lru, key
  <2>2. RemoveFirst(s.lru, f.key) \in Seq(K)
    BY <1>1, RemoveFact
  <2>3. Len(RemoveFirst(s.lru, f.key)) \in Nat
    BY <2>2
  <2>4. Len(t) # 0
    BY <2>1, <2>3
  <2>5. t # <<>>
    BY <2>4
  <2> QED
    BY <2>1, <2>5, HeadTailProperties
<1>5. CASE f.key = NoKey
  <2>1. CacheStep(s, f, scenario) =
          [expires |-> s.expires, lru |-> s.lru, hits |-> s.hits, simulated |-> s.simulated + f.cost, n |-> s.n + 1]
    BY <1>5, CacheStepFact
  <2> QED
    BY <1>1, <2>1 DEF Caches
<1>6. CASE f.key # NoKey /\ Answers(s, f)
  <2>1. CacheStep(s, f, scenario) =
          [expires |-> s.expires, lru |-> t, hits |-> s.hits \cup {s.n + 1}, simulated |-> s.simulated, n |-> s.n + 1]
    BY <1>6, CacheStepFact DEF t
  <2>2. s.hits \cup {s.n + 1} \in SUBSET Nat /\ s.n + 1 \in Nat
    BY <1>1
  <2> QED
    BY <1>1, <1>4, <1>6, <2>1, <2>2 DEF Caches
<1>7. CASE f.key # NoKey /\ ~Answers(s, f)
  <2>1. CacheStep(s, f, scenario) =
          [expires |-> fresh, lru |-> IF evicted = {} THEN t ELSE Tail(t), hits |-> s.hits,
           simulated |-> s.simulated + f.cost, n |-> s.n + 1]
    BY <1>7, CacheStepFact DEF t, fresh, kept, evicted
  <2> QED
    BY <1>1, <1>3, <1>4, <1>7, <2>1 DEF Caches
<1> QED
  BY <1>5, <1>6, <1>7

LEMMA CacheRun ==
  ASSUME NEW facts, Readable(facts), NEW scenario, scenario.ttl \in Int
  PROVE  \E run \in [0..Len(facts) -> Caches(KeysOf(facts))] :
           /\ run[0] = CacheStart
           /\ \A i \in 1..Len(facts) : run[i] = CacheStep(run[i-1], facts[i], scenario)
           /\ SimulateCaching(facts, scenario) = run[Len(facts)]
<1> DEFINE n == Len(facts)
           K == KeysOf(facts)
           X == Caches(K)
           F == [i \in 1..n |-> [s \in X |-> CacheStep(s, facts[i], scenario)]]
           b == CacheStart
<1>1. /\ n \in Nat /\ DOMAIN facts = 1..n /\ NoKey \notin K
      /\ \A i \in 1..n : facts[i].cost \in Int /\ facts[i].at \in Int /\ facts[i].key \in K \cup {NoKey}
  BY DEF Readable, KeysOf
<1> HIDE DEF K
<1>2. b \in X
  <2>1. <<>> \in [{} -> Int] /\ {} \in SUBSET K
    OBVIOUS
  <2>2. <<>> \in UNION {[S -> Int] : S \in SUBSET K}
    BY <2>1
  <2>3. <<>> \in Seq(K)
    OBVIOUS
  <2> DEFINE none == <<>>
             Expiries == UNION {[S -> Int] : S \in SUBSET K}
  <2>4. b = [expires |-> none, lru |-> none, hits |-> {}, simulated |-> 0, n |-> 0]
    BY DEF CacheStart
  <2>5. none \in Expiries /\ none \in Seq(K)
    BY <2>2, <2>3
  <2>6. X = [expires : Expiries, lru : Seq(K), hits : SUBSET Nat, simulated : Int, n : Nat]
    BY DEF Caches
  <2> HIDE DEF none, Expiries, b, X
  <2> QED
    BY <2>4, <2>5, <2>6
<1>3. ASSUME NEW i \in 1..n, NEW s \in X PROVE CacheStep(s, facts[i], scenario) \in X
  BY <1>1, CacheTyped
<1> HIDE DEF X
<1>4. \A i \in 1..n : F[i] \in [X -> X]
  BY <1>3
<1>5. PICK g : IsIter(g, X, b, n, F)
  <2> HIDE DEF n, F, b
  <2>1. n \in Nat /\ b \in X /\ \A i \in 1..n : F[i] \in [X -> X]
    BY <1>1, <1>2, <1>4
  <2> QED
    BY <2>1, IterExists
<1>6. \A S \in SUBSET (1..n) :
         g[S] = IF S = {} THEN b ELSE CacheStep(g[S \ {Max(S)}], facts[Max(S)], scenario)
  <2>1. ASSUME NEW S \in SUBSET (1..n), S # {}
        PROVE  g[S] = CacheStep(g[S \ {Max(S)}], facts[Max(S)], scenario)
    <3>1. Max(S) \in 1..n /\ g[S \ {Max(S)}] \in X
      BY <1>1, <1>5, <2>1, PlacesFact DEF IsIter
    <3> QED
      BY <1>5, <2>1, <3>1 DEF IsIter
  <2> QED
    BY <1>5, <2>1 DEF IsIter
<1> HIDE DEF F, b
<1>7. IsCache(g, facts, scenario)
  <2>1. g = [S \in SUBSET (1..n) |->
               IF S = {} THEN b ELSE CacheStep(g[S \ {Max(S)}], facts[Max(S)], scenario)]
    BY <1>5, <1>6 DEF IsIter
  <2> QED
    BY <1>1, <2>1 DEF IsCache, b
<1> DEFINE h == CHOOSE q : IsCache(q, facts, scenario)
           run == [i \in 0..n |-> h[1..i]]
<1>8. IsCache(h, facts, scenario) /\ SimulateCaching(facts, scenario) = h[DOMAIN facts]
  BY <1>7, CacheIsChosen
<1> HIDE DEF h
<1>9. \A S \in SUBSET (1..n) :
         h[S] = IF S = {} THEN b ELSE CacheStep(h[S \ {Max(S)}], facts[Max(S)], scenario)
  BY <1>1, <1>8 DEF IsCache, b
<1>10. run[0] = b
  <2>1. 1..0 = {} /\ 0 \in 0..n
    BY <1>1
  <2> QED
    BY <1>9, <2>1
<1>11. ASSUME NEW i \in 1..n PROVE run[i] = CacheStep(run[i-1], facts[i], scenario)
  <2>1. 1..i \in SUBSET (1..n) /\ 1..i # {} /\ Max(1..i) = i /\ (1..i) \ {Max(1..i)} = 1..i-1
    BY <1>1, UptoFact
  <2>2. i \in 0..n /\ i - 1 \in 0..n
    BY <1>1
  <2>3. h[1..i] = CacheStep(h[1..i-1], facts[i], scenario)
    BY <1>9, <2>1
  <2> QED
    BY <2>2, <2>3
<1>12. SimulateCaching(facts, scenario) = run[n] /\ run = [i \in 0..n |-> run[i]]
  BY <1>1, <1>8
<1> HIDE DEF run
<1>13. ASSUME NEW i \in 0..n PROVE run[i] \in X
  <2> DEFINE N == {m \in Nat : m <= n => run[m] \in X}
  <2>1. 0 \in N
    BY <1>2, <1>10
  <2>2. ASSUME NEW m \in Nat, m \in N PROVE m + 1 \in N
    <3> SUFFICES ASSUME m + 1 <= n PROVE run[m+1] \in X
      OBVIOUS
    <3>1. m + 1 \in 1..n /\ (m + 1) - 1 = m /\ run[m] \in X
      BY <1>1, <2>2
    <3>2. run[m+1] = CacheStep(run[m], facts[m+1], scenario)
      BY <1>11, <3>1
    <3> QED
      BY <1>3, <3>1, <3>2
  <2> HIDE DEF N
  <2>3. i \in N
    BY <1>1, <2>1, <2>2, NumberInduction
  <2> QED
    BY <1>1, <2>3 DEF N
<1>14. run \in [0..n -> X]
  BY <1>12, <1>13
<1> QED
  BY <1>10, <1>11, <1>12, <1>14 DEF b, X, K

(* What a cache knows after the first i facts: the last use of each key,   *)
(* and which of its uses filled it.                                        *)
Uses(facts, k, i) == {j \in 1..i : facts[j].key = k}
LastUse(facts, i) ==
  [k \in KeysOf(facts) |-> IF Uses(facts, k, i) = {} THEN 0 ELSE Max(Uses(facts, k, i))]
Fills(facts, hits, k, i) == Uses(facts, k, i) \ hits

IsHit(facts, scenario, i, hits) ==
  LET earlier == Before(facts, i)
      last == Max(earlier)
      used == {facts[m].key : m \in last+1..i-1} \ {facts[i].key, NoKey}
  IN /\ facts[i].key # NoKey /\ earlier # {} /\ earlier \ hits # {}
     /\ facts[i].at < facts[Max(earlier \ hits)].at + scenario.ttl
     /\ scenario.entries = 0 \/ Cardinality(used) < scenario.entries

LEMMA MaxUpto ==
  ASSUME NEW i \in Nat, NEW S \in SUBSET (1..i)
  PROVE  /\ S # {} => Max(S) \in S /\ \A x \in S : x <= Max(S)
         /\ Max(S \cup {i + 1}) = i + 1
<1>1. IsFiniteSet(1..i)
  BY FS_Interval
<1>2. S \in SUBSET Int /\ IsFiniteSet(S)
  <2>1. S \in SUBSET Int
    OBVIOUS
  <2>2. IsFiniteSet(S)
    BY <1>1, FS_Subset
  <2> QED
    BY <2>1, <2>2
<1> DEFINE T == S \cup {i + 1}
<1>3. T \in SUBSET Int /\ T # {} /\ \A x \in T : x <= i + 1
  BY <1>2
<1>4. IsFiniteSet(T)
  BY <1>2, FS_AddElement
<1>5. i + 1 \in T
  OBVIOUS
<1> HIDE DEF T
<1>6. Max(T) \in T /\ \A x \in T : x <= Max(T)
  BY <1>3, <1>4, MaxFact
<1>7. Max(T) = i + 1
  <2>1. Max(T) \in Int /\ Max(T) <= i + 1 /\ i + 1 <= Max(T)
    BY <1>3, <1>5, <1>6
  <2> QED
    BY <2>1
<1> QED
  BY <1>2, <1>7, MaxFact DEF T

LEMMA UsesFact ==
  ASSUME NEW facts, NEW k, NEW i \in Nat
  PROVE  /\ Uses(facts, k, i) \in SUBSET (1..i)
         /\ Uses(facts, k, i+1) =
              Uses(facts, k, i) \cup IF facts[i+1].key = k THEN {i+1} ELSE {}
  BY DEF Uses

LEMMA LastMoves ==
  ASSUME NEW facts, NEW k \in KeysOf(facts), NEW i \in Nat
  PROVE  LastUse(facts, i+1)[k] = IF facts[i+1].key = k THEN i + 1 ELSE LastUse(facts, i)[k]
<1> DEFINE S == Uses(facts, k, i)
           T == Uses(facts, k, i+1)
<1>1. /\ LastUse(facts, i)[k] = IF S = {} THEN 0 ELSE Max(S)
      /\ LastUse(facts, i+1)[k] = IF T = {} THEN 0 ELSE Max(T)
  BY DEF LastUse
<1>2. S \in SUBSET (1..i) /\ T = S \cup IF facts[i+1].key = k THEN {i+1} ELSE {}
  BY UsesFact
<1> HIDE DEF S, T
<1>3. Max(S \cup {i+1}) = i + 1
  BY <1>2, MaxUpto
<1>4. CASE facts[i+1].key = k
  <2>1. T = S \cup {i+1} /\ T # {}
    BY <1>2, <1>4
  <2> QED
    BY <1>1, <1>3, <1>4, <2>1
<1>5. CASE facts[i+1].key # k
  <2>1. T = S
    BY <1>2, <1>5
  <2> QED
    BY <1>1, <1>5, <2>1
<1> QED
  BY <1>4, <1>5

LEMMA LastRange ==
  ASSUME NEW facts, NEW k \in KeysOf(facts), NEW i \in Nat
  PROVE  LastUse(facts, i)[k] \in 0..i /\ (LastUse(facts, i)[k] = 0 <=> Uses(facts, k, i) = {})
<1> DEFINE S == Uses(facts, k, i)
<1>1. LastUse(facts, i)[k] = IF S = {} THEN 0 ELSE Max(S)
  BY DEF LastUse
<1>2. S \in SUBSET (1..i)
  BY UsesFact
<1> DEFINE a == LastUse(facts, i)[k]
<1>3. a = IF S = {} THEN 0 ELSE Max(S)
  BY <1>1
<1> HIDE DEF S, a
<1>4. CASE S = {}
  BY <1>3, <1>4 DEF S, a
<1>5. CASE S # {}
  <2>1. Max(S) \in 1..i
    BY <1>2, <1>5, MaxUpto
  <2>2. a \in 0..i /\ a # 0
    BY <1>3, <1>5, <2>1
  <2> QED
    BY <1>5, <2>2 DEF S, a
<1> QED
  BY <1>4, <1>5

LEMMA LastIsMax ==
  ASSUME NEW facts, NEW k \in KeysOf(facts), NEW i \in Nat, Uses(facts, k, i) # {}
  PROVE  /\ LastUse(facts, i)[k] = Max(Uses(facts, k, i))
         /\ LastUse(facts, i)[k] \in Uses(facts, k, i)
         /\ \A j \in Uses(facts, k, i) : j <= LastUse(facts, i)[k]
<1>1. LastUse(facts, i)[k] = Max(Uses(facts, k, i))
  BY DEF LastUse
<1>2. Uses(facts, k, i) \in SUBSET (1..i)
  BY UsesFact
<1>3. /\ Max(Uses(facts, k, i)) \in Uses(facts, k, i)
      /\ \A x \in Uses(facts, k, i) : x <= Max(Uses(facts, k, i))
  BY <1>2, MaxUpto
<1> QED
  BY <1>1, <1>3

(* A later hit or miss makes no difference to an earlier one.              *)
LEMMA HitIsLocal ==
  ASSUME NEW facts, NEW scenario, NEW i \in Nat, NEW j \in 1..i, NEW hits, NEW more \in SUBSET {i}
  PROVE  IsHit(facts, scenario, j, hits \cup more) <=> IsHit(facts, scenario, j, hits)
<1>1. Before(facts, j) \in SUBSET (1..j-1)
  BY DEF Before
<1>2. i \notin Before(facts, j)
  BY <1>1
<1>3. Before(facts, j) \ (hits \cup more) = Before(facts, j) \ hits
  BY <1>2
<1> QED
  BY <1>3 DEF IsHit

(* What the loop holds after i facts: the list holds keys in the order of  *)
(* their last use, each filled, with the time its last fill gives it; a    *)
(* used key that is not there was put out by as many keys used since.      *)
CacheInv(facts, scenario, s, i) ==
  LET u == LastUse(facts, i)
  IN /\ s.n = i /\ s.hits \in SUBSET (1..i)
     /\ Ordered(s.lru, u)
     /\ DOMAIN s.expires = Held(s.lru)
     /\ \A k \in Held(s.lru) :
          /\ Fills(facts, s.hits, k, i) # {}
          /\ s.expires[k] = facts[Max(Fills(facts, s.hits, k, i))].at + scenario.ttl
     /\ \A k \in KeysOf(facts) \ Held(s.lru) : u[k] > 0 =>
          /\ scenario.entries > 0 /\ Len(s.lru) >= scenario.entries
          /\ \A q \in Held(s.lru) : u[k] < u[q]
     /\ scenario.entries > 0 => Len(s.lru) <= scenario.entries
     /\ \A j \in 1..i : j \in s.hits <=> IsHit(facts, scenario, j, s.hits)
     /\ s.simulated = SumOn([j \in 1..Len(facts) |-> IF j \in s.hits THEN 0 ELSE facts[j].cost], 1..i)

(* The other keys used since the last use of one.                          *)
LEMMA UsedFact ==
  ASSUME NEW facts, Readable(facts), NEW i \in Nat, i < Len(facts), NEW k \in KeysOf(facts),
         Uses(facts, k, i) # {}
  PROVE  LET u == LastUse(facts, i)
         IN {facts[m].key : m \in Max(Uses(facts, k, i))+1..i} \ {k, NoKey}
              = {q \in KeysOf(facts) \ {k} : u[q] > u[k]}
<1> DEFINE u == LastUse(facts, i)
           last == Max(Uses(facts, k, i))
           used == {facts[m].key : m \in last+1..i} \ {k, NoKey}
           later == {q \in KeysOf(facts) \ {k} : u[q] > u[k]}
<1>1. last = u[k] /\ last \in 0..i
  <2>1. LastUse(facts, i)[k] = Max(Uses(facts, k, i))
    BY LastIsMax
  <2>2. LastUse(facts, i)[k] \in 0..i
    BY LastRange
  <2> HIDE DEF last, u
  <2> QED
    BY <2>1, <2>2 DEF last, u
<1>2. Len(facts) \in Nat /\ NoKey \notin KeysOf(facts)
  BY DEF Readable, KeysOf
<1>3. \A q \in KeysOf(facts) :
        /\ u[q] \in 0..i /\ (u[q] # 0 => u[q] \in Uses(facts, q, i))
        /\ \A j \in Uses(facts, q, i) : j <= u[q]
  <2> SUFFICES ASSUME NEW q \in KeysOf(facts)
               PROVE  /\ u[q] \in 0..i /\ (u[q] # 0 => u[q] \in Uses(facts, q, i))
                      /\ \A j \in Uses(facts, q, i) : j <= u[q]
    OBVIOUS
  <2>1. u[q] \in 0..i /\ (u[q] = 0 <=> Uses(facts, q, i) = {})
    BY LastRange
  <2>2. ASSUME Uses(facts, q, i) # {}
        PROVE  u[q] \in Uses(facts, q, i) /\ \A j \in Uses(facts, q, i) : j <= u[q]
    BY <2>2, LastIsMax
  <2> HIDE DEF u
  <2> QED
    BY <2>1, <2>2
<1> HIDE DEF last, u
<1>4. ASSUME NEW m \in last+1..i, facts[m].key \notin {k, NoKey} PROVE facts[m].key \in later
  <2> DEFINE q == facts[m].key
  <2>1. m \in 1..i /\ m \in 1..Len(facts)
    BY <1>1, <1>2
  <2>2. q \in KeysOf(facts) \ {k}
    BY <1>4, <2>1 DEF KeysOf
  <2>3. m \in Uses(facts, q, i)
    BY <2>1 DEF Uses
  <2> HIDE DEF q
  <2>4. m <= u[q] /\ u[q] \in Int
    BY <1>3, <2>2, <2>3
  <2>5. u[q] > u[k]
    BY <1>1, <2>1, <2>4
  <2> QED
    BY <2>2, <2>5 DEF q
<1>5. ASSUME NEW q \in later PROVE q \in used
  <2>1. q \in KeysOf(facts) /\ q # k /\ u[q] > u[k]
    OBVIOUS
  <2>2. u[q] \in last+1..i /\ u[q] # 0
    BY <1>1, <1>3, <2>1
  <2>3. facts[u[q]].key = q
    BY <1>3, <2>1, <2>2 DEF Uses
  <2> QED
    BY <1>2, <2>1, <2>2, <2>3
<1>6. used = later
  BY <1>4, <1>5
<1> QED
  BY <1>6 DEF last, u

(* The cache holds the key and it has not expired: that is a hit.          *)
LEMMA AnswersAreHits ==
  ASSUME NEW facts, Readable(facts), NEW scenario, scenario.entries \in Nat, scenario.ttl \in Int,
         NEW i \in Nat, i < Len(facts), NEW s \in Caches(KeysOf(facts)),
         CacheInv(facts, scenario, s, i), facts[i+1].key # NoKey
  PROVE  Answers(s, facts[i+1]) <=> IsHit(facts, scenario, i+1, s.hits)
<1> DEFINE c == i + 1
           f == facts[c]
           k == facts[c].key
           K == KeysOf(facts)
           u == LastUse(facts, i)
           entries == scenario.entries
           held == Held(s.lru)
           size == Len(s.lru)
           earlier == Uses(facts, k, i)
           fills == Fills(facts, s.hits, k, i)
           later == {q \in K \ {k} : u[q] > u[k]}
           recent == facts[c].at < facts[Max(fills)].at + scenario.ttl
<1>1. /\ c \in 1..Len(facts) /\ c - 1 = i /\ entries \in Nat
      /\ k \in K /\ k # NoKey
  BY DEF Readable, KeysOf
<1>2. /\ DOMAIN s.expires = held
      /\ \A q \in held : /\ Fills(facts, s.hits, q, i) # {}
                         /\ s.expires[q] = facts[Max(Fills(facts, s.hits, q, i))].at + scenario.ttl
      /\ \A q \in K \ held : u[q] > 0 =>
           /\ entries > 0 /\ size >= entries
           /\ \A p \in held : u[q] < u[p]
      /\ entries > 0 => size <= entries
      /\ Ordered(s.lru, u)
  BY DEF CacheInv
<1>3. \A q \in K : u[q] \in Int
  <2>1. ASSUME NEW q \in K PROVE u[q] \in 0..i
    BY LastRange
  <2> HIDE DEF u, K
  <2> QED
    BY <2>1
<1>4. s.lru \in Seq(K)
  BY DEF Caches
<1>5. IsFiniteSet(held) /\ Cardinality(held) = size /\ size \in Nat /\ held \in SUBSET K
  <2>1. s.lru \in Seq(K) /\ Ordered(s.lru, u)
    BY <1>2, <1>4
  <2> DEFINE lru == s.lru
  <2> HIDE DEF lru, u, K
  <2>2. lru \in Seq(K) /\ Ordered(lru, u) /\ \A q \in K : u[q] \in Int
    BY <1>3, <2>1 DEF lru
  <2>3. IsFiniteSet(Held(lru)) /\ Cardinality(Held(lru)) = Len(lru)
    BY <2>2, HeldCount
  <2>4. Len(lru) \in Nat /\ Held(lru) \in SUBSET K
    BY <2>2 DEF Held
  <2> QED
    BY <2>3, <2>4 DEF lru
<1>6. Before(facts, c) = earlier /\ earlier \ s.hits = fills
  BY <1>1 DEF Before, Uses, Fills
<1>7. earlier # {} =>
        {facts[m].key : m \in Max(earlier)+1..i} \ {k, NoKey} = later
  BY <1>1, UsedFact
<1>8. earlier # {} <=> u[k] > 0
  <2>1. u[k] \in 0..i /\ (u[k] = 0 <=> earlier = {})
    BY <1>1, LastRange
  <2> HIDE DEF u, earlier
  <2> QED
    BY <2>1
<1>9. fills # {} => earlier # {}
  BY DEF Fills
<1>10. IsHit(facts, scenario, c, s.hits) <=>
         /\ earlier # {} /\ fills # {} /\ recent
         /\ entries = 0 \/ Cardinality(later) < entries
  <2> DEFINE since == {facts[m].key : m \in Max(earlier)+1..i} \ {k, NoKey}
  <2>1. IsHit(facts, scenario, c, s.hits) <=>
          /\ k # NoKey /\ earlier # {} /\ fills # {} /\ recent
          /\ entries = 0 \/ Cardinality(since) < entries
    <3>1. c - 1 = i /\ Before(facts, c) = earlier /\ Before(facts, c) \ s.hits = fills
      BY <1>1, <1>6
    <3> HIDE DEF c, earlier, fills
    <3> QED
      BY <3>1 DEF IsHit
  <2>2. earlier # {} => since = later
    BY <1>7
  <2> HIDE DEF earlier, fills, recent, since, later, k, entries
  <2> QED
    BY <1>1, <2>1, <2>2
<1>11. Answers(s, f) <=> k \in held /\ f.at < s.expires[k]
  BY <1>2 DEF Answers
<1>12. k \in held => fills # {} /\ (f.at < s.expires[k] <=> recent)
  BY <1>2
<1> HIDE DEF c, k, K, u, entries, held, size, earlier, fills, recent
<1>13. ASSUME k \in held PROVE entries = 0 \/ Cardinality(later) < entries
  <2>1. u[k] > 0
    BY <1>8, <1>9, <1>12, <1>13
  <2>2. later \in SUBSET (held \ {k})
    <3>1. ASSUME NEW q \in later, q \notin held PROVE FALSE
      <4>1. u[q] > u[k] /\ q \in K /\ u[q] \in Int /\ u[k] \in Int
        BY <1>1, <1>3, <3>1
      <4>2. u[q] > 0
        BY <2>1, <4>1
      <4>3. u[q] < u[k]
        BY <1>2, <1>13, <3>1, <4>1, <4>2
      <4> QED
        BY <4>1, <4>3
    <3> QED
      BY <3>1
  <2> HIDE DEF later
  <2>3. IsFiniteSet(held \ {k}) /\ Cardinality(held \ {k}) = size - 1
    BY <1>5, <1>13, FS_RemoveElement
  <2>4. Cardinality(later) <= size - 1 /\ Cardinality(later) \in Nat
    <3>1. IsFiniteSet(later) /\ Cardinality(later) <= Cardinality(held \ {k})
      BY <2>2, <2>3, FS_Subset
    <3>2. Cardinality(later) \in Nat
      BY <3>1, FS_CardinalityType
    <3> QED
      BY <2>3, <3>1, <3>2
  <2> QED
    BY <1>1, <1>2, <1>5, <2>4
<1>14. ASSUME k \notin held, earlier # {} PROVE ~(entries = 0 \/ Cardinality(later) < entries)
  <2>1. entries > 0 /\ size >= entries /\ \A p \in held : u[k] < u[p]
    BY <1>1, <1>2, <1>8, <1>14
  <2>2. held \in SUBSET later
    <3>1. ASSUME NEW q \in held PROVE q \in later
      <4>1. q \in K /\ q # k /\ u[k] < u[q] /\ u[k] \in Int /\ u[q] \in Int
        BY <1>1, <1>3, <1>5, <1>14, <2>1
      <4>2. u[q] > u[k]
        BY <4>1
      <4> QED
        BY <4>1, <4>2
    <3> QED
      BY <3>1
  <2>3. IsFiniteSet(later)
    <3>1. IsFiniteSet(1..Len(facts))
      <4>1. Len(facts) \in Nat
        BY DEF Readable
      <4> QED
        BY <4>1, FS_Interval
    <3> DEFINE g == [j \in 1..Len(facts) |-> facts[j].key]
               image == {g[j] : j \in 1..Len(facts)}
    <3>2. K \in SUBSET image
      BY DEF K, KeysOf
    <3>4. IsFiniteSet(image)
      <4> HIDE DEF g
      <4> QED
        BY <3>1, FiniteImage
    <3> HIDE DEF image
    <3>3. later \in SUBSET image
      BY <3>2
    <3> HIDE DEF later
    <3> QED
      BY <3>3, <3>4, FS_Subset
  <2> HIDE DEF later
  <2>4. Cardinality(held) <= Cardinality(later) /\ Cardinality(later) \in Nat
    BY <2>2, <2>3, FS_Subset, FS_CardinalityType
  <2> QED
    BY <1>1, <1>5, <2>1, <2>4
<1> HIDE DEF later
<1>15. Answers(s, f) <=> IsHit(facts, scenario, c, s.hits)
  BY <1>9, <1>10, <1>11, <1>12, <1>13, <1>14
<1> QED
  BY <1>15 DEF c

(* What one fact makes of the hits and of what the others cost.            *)
LEMMA HitsStep ==
  ASSUME NEW facts, Readable(facts), NEW scenario, NEW i \in Nat, i < Len(facts), NEW s, NEW r,
         CacheInv(facts, scenario, s, i),
         r.hits = s.hits \cup IF IsHit(facts, scenario, i+1, s.hits) THEN {i+1} ELSE {},
         r.simulated = s.simulated + IF IsHit(facts, scenario, i+1, s.hits) THEN 0 ELSE facts[i+1].cost
  PROVE  /\ r.hits \in SUBSET (1..i+1)
         /\ \A j \in 1..i+1 : j \in r.hits <=> IsHit(facts, scenario, j, r.hits)
         /\ r.simulated = SumOn([j \in 1..Len(facts) |-> IF j \in r.hits THEN 0 ELSE facts[j].cost], 1..i+1)
<1> DEFINE n == Len(facts)
           c == i + 1
           hit == IsHit(facts, scenario, c, s.hits)
           more == IF hit THEN {c} ELSE {}
           f == [j \in 1..n |-> IF j \in s.hits THEN 0 ELSE facts[j].cost]
           g == [j \in 1..n |-> IF j \in r.hits THEN 0 ELSE facts[j].cost]
<1>1. /\ n \in Nat /\ c \in 1..n /\ c \in Nat /\ c - 1 = i
      /\ \A j \in 1..n : facts[j].cost \in Nat
  BY DEF Readable
<1>2. /\ s.hits \in SUBSET (1..i) /\ \A j \in 1..i : j \in s.hits <=> IsHit(facts, scenario, j, s.hits)
      /\ s.simulated = SumOn(f, 1..i)
  BY DEF CacheInv
<1>3. r.hits = s.hits \cup more /\ r.simulated = s.simulated + IF hit THEN 0 ELSE facts[c].cost
  OBVIOUS
<1> HIDE DEF hit
<1>4. c \notin s.hits
  BY <1>1, <1>2
<1>5. ASSUME NEW j \in 1..c PROVE j \in r.hits <=> IsHit(facts, scenario, j, r.hits)
  <2>1. IsHit(facts, scenario, j, s.hits \cup more) <=> IsHit(facts, scenario, j, s.hits)
    <3>1. more \in SUBSET {c}
      OBVIOUS
    <3> HIDE DEF more, c
    <3> QED
      BY <1>1, <3>1, HitIsLocal
  <2>2. CASE j = c
    BY <1>3, <1>4, <2>1, <2>2 DEF hit
  <2>3. CASE j # c
    <3>1. j \in 1..i /\ j \notin more
      BY <1>1, <2>3
    <3> HIDE DEF more
    <3> QED
      BY <1>2, <1>3, <2>1, <3>1
  <2> QED
    BY <2>2, <2>3
<1>6. r.hits \in SUBSET (1..c)
  BY <1>1, <1>2, <1>3
<1>7. SumOn(g, 1..c) = SumOn(g, 1..i) + g[c]
  <2>1. \A j \in 1..n : g[j] \in Nat
    BY <1>1
  <2> HIDE DEF g, n, c
  <2>2. SumOn(g, 1..c) = SumOn(g, 1..c-1) + g[c]
    BY <1>1, <2>1, UptoSum
  <2> QED
    BY <1>1, <2>2
<1>8. SumOn(g, 1..i) = SumOn(f, 1..i)
  <2>1. \A j \in 1..i : g[j] = f[j]
    <3>1. ASSUME NEW j \in 1..i PROVE j \in 1..n /\ j # c /\ (j \in r.hits <=> j \in s.hits)
      BY <1>1, <1>3
    <3> QED
      BY <3>1
  <2>2. IsFiniteSet(1..i)
    <3>1. i \in Int /\ 1 \in Int
      BY <1>1
    <3> HIDE DEF f, g, n, c
    <3> QED
      BY <3>1, FS_Interval
  <2> HIDE DEF f, g
  <2> QED
    BY <2>1, <2>2, SumSame
<1>9. g[c] = IF hit THEN 0 ELSE facts[c].cost
  BY <1>1, <1>3, <1>4
<1> HIDE DEF f, g
<1>10. r.simulated = SumOn(g, 1..c)
  BY <1>2, <1>3, <1>7, <1>8, <1>9
<1> QED
  BY <1>5, <1>6, <1>10 DEF g

LEMMA KeysMove ==
  ASSUME NEW facts, NEW i \in Nat
  PROVE  \A k \in KeysOf(facts) :
           /\ LastUse(facts, i)[k] \in 0..i
           /\ LastUse(facts, i+1)[k] = IF k = facts[i+1].key THEN i + 1 ELSE LastUse(facts, i)[k]
           /\ LastUse(facts, i)[k] \in Int /\ LastUse(facts, i+1)[k] \in Int
           /\ k # facts[i+1].key => LastUse(facts, i+1)[k] < i + 1
<1> SUFFICES ASSUME NEW k \in KeysOf(facts)
             PROVE  /\ LastUse(facts, i)[k] \in 0..i
                    /\ LastUse(facts, i+1)[k] = IF k = facts[i+1].key THEN i + 1 ELSE LastUse(facts, i)[k]
                    /\ LastUse(facts, i)[k] \in Int /\ LastUse(facts, i+1)[k] \in Int
                    /\ k # facts[i+1].key => LastUse(facts, i+1)[k] < i + 1
  OBVIOUS
<1>4. /\ LastUse(facts, i)[k] \in 0..i
      /\ LastUse(facts, i+1)[k] = IF facts[i+1].key = k THEN i + 1 ELSE LastUse(facts, i)[k]
  <2>1. LastUse(facts, i)[k] \in 0..i
    BY LastRange
  <2>2. LastUse(facts, i+1)[k] = IF facts[i+1].key = k THEN i + 1 ELSE LastUse(facts, i)[k]
    BY LastMoves
  <2> QED
    BY <2>1, <2>2, Zenon
<1>5. facts[i+1].key = k <=> k = facts[i+1].key
  OBVIOUS
<1>1. /\ LastUse(facts, i)[k] \in 0..i
      /\ LastUse(facts, i+1)[k] = IF k = facts[i+1].key THEN i + 1 ELSE LastUse(facts, i)[k]
  BY <1>4, <1>5, Zenon
<1> DEFINE a == LastUse(facts, i)[k]
           b == LastUse(facts, i+1)[k]
<1> HIDE DEF a, b
<1>2. a \in 0..i /\ b = IF k = facts[i+1].key THEN i + 1 ELSE a
  BY <1>1 DEF a, b
<1>3. a \in Int /\ b \in Int /\ (k # facts[i+1].key => b < i + 1)
  BY <1>2
<1> QED
  BY <1>1, <1>3 DEF a, b

(* A row without a key changes nothing of the cache.                       *)
LEMMA KeylessStep ==
  ASSUME NEW facts, Readable(facts), NEW scenario, NEW i \in Nat, i < Len(facts),
         NEW s \in Caches(KeysOf(facts)), CacheInv(facts, scenario, s, i), facts[i+1].key = NoKey
  PROVE  CacheInv(facts, scenario, CacheStep(s, facts[i+1], scenario), i+1)
<1> DEFINE c == i + 1
           K == KeysOf(facts)
           u == LastUse(facts, i)
           v == LastUse(facts, c)
           r == CacheStep(s, facts[c], scenario)
<1>1. NoKey \notin K
  BY DEF KeysOf
<1>2. r = [expires |-> s.expires, lru |-> s.lru, hits |-> s.hits,
           simulated |-> s.simulated + facts[c].cost, n |-> s.n + 1]
  <2> HIDE DEF K
  <2>1. s \in Caches(K)
    BY DEF K
  <2> QED
    BY <1>1, <2>1, CacheStepFact
<1>3. ~IsHit(facts, scenario, c, s.hits)
  BY DEF IsHit
<1> HIDE DEF r
<1>4. /\ r.expires = s.expires /\ r.lru = s.lru /\ r.n = s.n + 1 /\ r.hits = s.hits
      /\ r.simulated = s.simulated + facts[c].cost
  BY <1>2
<1>5. /\ r.hits \in SUBSET (1..i+1)
      /\ \A j \in 1..i+1 : j \in r.hits <=> IsHit(facts, scenario, j, r.hits)
      /\ r.simulated = SumOn([j \in 1..Len(facts) |-> IF j \in r.hits THEN 0 ELSE facts[j].cost], 1..i+1)
  <2>1. /\ r.hits = s.hits \cup IF IsHit(facts, scenario, i+1, s.hits) THEN {i+1} ELSE {}
        /\ r.simulated = s.simulated + IF IsHit(facts, scenario, i+1, s.hits) THEN 0 ELSE facts[i+1].cost
    BY <1>3, <1>4
  <2> QED
    BY <2>1, HitsStep
<1>6. \A k \in K : v[k] = u[k] /\ Fills(facts, r.hits, k, c) = Fills(facts, s.hits, k, i)
  <2>1. ASSUME NEW k \in K PROVE v[k] = u[k] /\ Uses(facts, k, c) = Uses(facts, k, i)
    <3>1. k # facts[c].key
      BY <1>1
    <3>2. v[k] = u[k]
      BY <3>1, KeysMove
    <3>3. Uses(facts, k, c) = Uses(facts, k, i)
      <4>1. Uses(facts, k, c) = Uses(facts, k, i) \cup IF facts[c].key = k THEN {c} ELSE {}
        BY UsesFact
      <4> HIDE DEF c
      <4> QED
        BY <3>1, <4>1
    <3> QED
      BY <3>2, <3>3
  <2> QED
    BY <1>4, <2>1 DEF Fills
<1>7. /\ s.n = i /\ Ordered(s.lru, u) /\ DOMAIN s.expires = Held(s.lru)
      /\ \A k \in Held(s.lru) :
           /\ Fills(facts, s.hits, k, i) # {}
           /\ s.expires[k] = facts[Max(Fills(facts, s.hits, k, i))].at + scenario.ttl
      /\ \A k \in K \ Held(s.lru) : u[k] > 0 =>
           /\ scenario.entries > 0 /\ Len(s.lru) >= scenario.entries
           /\ \A q \in Held(s.lru) : u[k] < u[q]
      /\ scenario.entries > 0 => Len(s.lru) <= scenario.entries
  BY DEF CacheInv
<1>8. \A a \in 1..Len(s.lru) : s.lru[a] \in K
  <2> HIDE DEF K
  <2>1. s.lru \in Seq(K)
    BY DEF Caches, K
  <2> QED
    BY <2>1
<1> HIDE DEF u, v, c, K
<1>9. Ordered(r.lru, v)
  BY <1>4, <1>6, <1>7, <1>8 DEF Ordered
<1>10. Held(r.lru) = Held(s.lru) /\ Held(s.lru) \in SUBSET K
  BY <1>4, <1>8 DEF Held
<1>11. \A k \in Held(r.lru) :
         /\ Fills(facts, r.hits, k, c) # {}
         /\ r.expires[k] = facts[Max(Fills(facts, r.hits, k, c))].at + scenario.ttl
  BY <1>4, <1>6, <1>7, <1>10
<1>12. \A k \in K \ Held(r.lru) : v[k] > 0 =>
         /\ scenario.entries > 0 /\ Len(r.lru) >= scenario.entries
         /\ \A q \in Held(r.lru) : v[k] < v[q]
  BY <1>4, <1>6, <1>7, <1>10
<1>13. r.n = c /\ DOMAIN r.expires = Held(r.lru) /\ (scenario.entries > 0 => Len(r.lru) <= scenario.entries)
  BY <1>4, <1>7 DEF c
<1>14. CacheInv(facts, scenario, r, c)
  BY <1>5, <1>9, <1>11, <1>12, <1>13 DEF CacheInv, c, v, K
<1> QED
  BY <1>14 DEF r, c

(* What touching the key of the next fact makes of the list.               *)
LEMMA ListStep ==
  ASSUME NEW facts, NEW i \in Nat, NEW lru \in Seq(KeysOf(facts)),
         facts[i+1].key \in KeysOf(facts), Ordered(lru, LastUse(facts, i))
  PROVE  LET t == TouchLRU(lru, facts[i+1].key)
         IN /\ t \in Seq(KeysOf(facts)) /\ Ordered(t, LastUse(facts, i+1))
            /\ Held(t) = Held(lru) \cup {facts[i+1].key}
            /\ Len(t) = IF facts[i+1].key \in Held(lru) THEN Len(lru) ELSE Len(lru) + 1
<1> DEFINE K == KeysOf(facts)
           u == LastUse(facts, i)
           v == LastUse(facts, i+1)
           key == facts[i+1].key
<1>1. \A k \in K : u[k] \in Int /\ v[k] \in Int
  BY KeysMove
<1>2. \A k \in K \ {key} : v[k] = u[k] /\ v[k] < v[key]
  <2>1. v[key] = i + 1
    BY KeysMove
  <2>2. ASSUME NEW k \in K, k # key PROVE v[k] = u[k] /\ v[k] < i + 1
    BY <2>2, KeysMove
  <2> HIDE DEF u, v, K, key
  <2> QED
    BY <2>1, <2>2
<1>3. lru \in Seq(K) /\ key \in K /\ Ordered(lru, u)
  OBVIOUS
<1> HIDE DEF u, v, K, key
<1>4. LET t == TouchLRU(lru, key)
      IN /\ t \in Seq(K) /\ Ordered(t, v) /\ Held(t) = Held(lru) \cup {key}
         /\ Len(t) = IF key \in Held(lru) THEN Len(lru) ELSE Len(lru) + 1
  BY <1>1, <1>2, <1>3, TouchOrder
<1> QED
  BY <1>4 DEF u, v, K, key

(* A hit is a use and no fill.                                             *)
LEMMA HitStep ==
  ASSUME NEW facts, Readable(facts), NEW scenario, NEW i \in Nat, i < Len(facts),
         scenario.entries \in Nat, scenario.ttl \in Int,
         NEW s \in Caches(KeysOf(facts)), CacheInv(facts, scenario, s, i),
         facts[i+1].key # NoKey, Answers(s, facts[i+1])
  PROVE  CacheInv(facts, scenario, CacheStep(s, facts[i+1], scenario), i+1)
<1> DEFINE c == i + 1
           K == KeysOf(facts)
           key == facts[c].key
           u == LastUse(facts, i)
           v == LastUse(facts, c)
           t == TouchLRU(s.lru, key)
           r == CacheStep(s, facts[c], scenario)
<1>1. NoKey \notin K /\ key \in K /\ c \in 1..Len(facts)
  BY DEF KeysOf, Readable
<1>2. r = [expires |-> s.expires, lru |-> t, hits |-> s.hits \cup {s.n + 1},
           simulated |-> s.simulated, n |-> s.n + 1]
  <2> HIDE DEF K
  <2>1. s \in Caches(K)
    BY DEF K
  <2> QED
    BY <1>1, <2>1, CacheStepFact
<1>3. IsHit(facts, scenario, c, s.hits)
  BY AnswersAreHits
<1>4. /\ s.n = i /\ s.hits \in SUBSET (1..i) /\ Ordered(s.lru, u) /\ DOMAIN s.expires = Held(s.lru)
      /\ \A k \in Held(s.lru) :
           /\ Fills(facts, s.hits, k, i) # {}
           /\ s.expires[k] = facts[Max(Fills(facts, s.hits, k, i))].at + scenario.ttl
      /\ \A k \in K \ Held(s.lru) : u[k] > 0 =>
           /\ scenario.entries > 0 /\ Len(s.lru) >= scenario.entries
           /\ \A q \in Held(s.lru) : u[k] < u[q]
      /\ scenario.entries > 0 => Len(s.lru) <= scenario.entries
  BY DEF CacheInv
<1> HIDE DEF r
<1>5. /\ r.expires = s.expires /\ r.lru = t /\ r.n = c /\ r.hits = s.hits \cup {c}
      /\ r.simulated = s.simulated
  BY <1>2, <1>4
<1>6. /\ r.hits \in SUBSET (1..i+1)
      /\ \A j \in 1..i+1 : j \in r.hits <=> IsHit(facts, scenario, j, r.hits)
      /\ r.simulated = SumOn([j \in 1..Len(facts) |-> IF j \in r.hits THEN 0 ELSE facts[j].cost], 1..i+1)
  <2>1. s.simulated \in Int
    BY DEF Caches
  <2>2. /\ r.hits = s.hits \cup IF IsHit(facts, scenario, i+1, s.hits) THEN {i+1} ELSE {}
        /\ r.simulated = s.simulated + IF IsHit(facts, scenario, i+1, s.hits) THEN 0 ELSE facts[i+1].cost
    BY <1>3, <1>5, <2>1
  <2> QED
    BY <2>2, HitsStep
<1>7. key \in Held(s.lru)
  BY <1>4 DEF Answers
<1>8. s.lru \in Seq(K) /\ Held(s.lru) \in SUBSET K
  <2> HIDE DEF K
  <2>1. s.lru \in Seq(K)
    BY DEF Caches, K
  <2>2. \A a \in 1..Len(s.lru) : s.lru[a] \in K
    BY <2>1
  <2> QED
    BY <2>1, <2>2 DEF Held
<1>9. Ordered(t, v) /\ Held(t) = Held(s.lru) /\ Len(t) = Len(s.lru)
  <2> DEFINE lru == s.lru
  <2>1. lru \in Seq(KeysOf(facts)) /\ facts[i+1].key \in KeysOf(facts) /\ Ordered(lru, LastUse(facts, i))
    BY <1>1, <1>4, <1>8
  <2> HIDE DEF lru
  <2>2. LET q == TouchLRU(lru, facts[i+1].key)
        IN /\ Ordered(q, LastUse(facts, i+1))
           /\ Held(q) = Held(lru) \cup {facts[i+1].key}
           /\ Len(q) = IF facts[i+1].key \in Held(lru) THEN Len(lru) ELSE Len(lru) + 1
    BY <2>1, ListStep
  <2> QED
    BY <1>7, <2>2 DEF lru
<1>10. \A k \in K : Fills(facts, r.hits, k, c) = Fills(facts, s.hits, k, i)
  <2>1. ASSUME NEW k \in K PROVE Uses(facts, k, c) \ (s.hits \cup {c}) = Uses(facts, k, i) \ s.hits
    <3>1. /\ Uses(facts, k, c) = Uses(facts, k, i) \cup IF facts[c].key = k THEN {c} ELSE {}
          /\ Uses(facts, k, i) \in SUBSET (1..i)
      BY UsesFact
    <3>2. c \notin Uses(facts, k, i)
      BY <3>1
    <3> HIDE DEF c
    <3> QED
      BY <3>1, <3>2
  <2> QED
    BY <1>5, <2>1 DEF Fills
<1>11. \A k \in K : /\ u[k] \in 0..i /\ v[k] = IF k = key THEN c ELSE u[k]
                    /\ u[k] \in Int /\ v[k] \in Int /\ (k # key => v[k] < c)
  BY KeysMove
<1> HIDE DEF u, v, c, K, key, t
<1>12. \A k \in Held(r.lru) :
         /\ Fills(facts, r.hits, k, c) # {}
         /\ r.expires[k] = facts[Max(Fills(facts, r.hits, k, c))].at + scenario.ttl
  BY <1>4, <1>5, <1>8, <1>9, <1>10
<1>13. ASSUME NEW k \in K \ Held(r.lru), v[k] > 0
       PROVE  /\ scenario.entries > 0 /\ Len(r.lru) >= scenario.entries
              /\ \A q \in Held(r.lru) : v[k] < v[q]
  <2>1. k # key /\ v[k] = u[k] /\ k \in K \ Held(s.lru) /\ v[k] < c
    BY <1>5, <1>7, <1>9, <1>11, <1>13
  <2>2. scenario.entries > 0 /\ Len(s.lru) >= scenario.entries /\ \A q \in Held(s.lru) : u[k] < u[q]
    BY <1>4, <1>13, <2>1
  <2>3. \A q \in Held(s.lru) : v[k] < v[q]
    BY <1>8, <1>11, <2>1, <2>2
  <2> QED
    BY <1>5, <1>9, <2>2, <2>3
<1>14. /\ r.n = c /\ DOMAIN r.expires = Held(r.lru) /\ Ordered(r.lru, v)
       /\ scenario.entries > 0 => Len(r.lru) <= scenario.entries
  BY <1>4, <1>5, <1>9
<1>15. CacheInv(facts, scenario, r, c)
  BY <1>6, <1>12, <1>13, <1>14 DEF CacheInv, c, v, K
<1> QED
  BY <1>15 DEF r, c

(* A miss fills, and the key used longest ago makes room.                  *)
LEMMA MissStep ==
  ASSUME NEW facts, Readable(facts), NEW scenario, NEW i \in Nat, i < Len(facts),
         scenario.entries \in Nat, scenario.ttl \in Int,
         NEW s \in Caches(KeysOf(facts)), CacheInv(facts, scenario, s, i),
         facts[i+1].key # NoKey, ~Answers(s, facts[i+1])
  PROVE  CacheInv(facts, scenario, CacheStep(s, facts[i+1], scenario), i+1)
<1> DEFINE c == i + 1
           K == KeysOf(facts)
           key == facts[c].key
           u == LastUse(facts, i)
           v == LastUse(facts, c)
           t == TouchLRU(s.lru, key)
           evicted == Evicted(s, facts[c], scenario)
           kept == (DOMAIN s.expires \cup {key}) \ evicted
           entries == scenario.entries
           held == Held(s.lru)
           r == CacheStep(s, facts[c], scenario)
<1>1. NoKey \notin K /\ key \in K /\ c \in 1..Len(facts)
  BY DEF KeysOf, Readable
<1>2. r = [expires |-> [k \in kept |-> IF k = key THEN facts[c].at + scenario.ttl ELSE s.expires[k]],
           lru |-> IF evicted = {} THEN t ELSE Tail(t),
           hits |-> s.hits, simulated |-> s.simulated + facts[c].cost, n |-> s.n + 1]
  <2> HIDE DEF K
  <2>1. s \in Caches(K)
    BY DEF K
  <2> QED
    BY <1>1, <2>1, CacheStepFact
<1>3. ~IsHit(facts, scenario, c, s.hits)
  BY AnswersAreHits
<1>4. /\ s.n = i /\ s.hits \in SUBSET (1..i) /\ Ordered(s.lru, u) /\ DOMAIN s.expires = held
      /\ \A k \in held :
           /\ Fills(facts, s.hits, k, i) # {}
           /\ s.expires[k] = facts[Max(Fills(facts, s.hits, k, i))].at + scenario.ttl
      /\ \A k \in K \ held : u[k] > 0 =>
           /\ entries > 0 /\ Len(s.lru) >= entries
           /\ \A q \in held : u[k] < u[q]
      /\ entries > 0 => Len(s.lru) <= entries
  BY DEF CacheInv
<1>5. evicted = IF entries > 0 /\ Len(t) > entries THEN {Head(t)} ELSE {}
  BY DEF Evicted
<1> HIDE DEF r, evicted
<1>6. /\ r.expires = [k \in kept |-> IF k = key THEN facts[c].at + scenario.ttl ELSE s.expires[k]]
      /\ r.lru = (IF evicted = {} THEN t ELSE Tail(t)) /\ r.n = c /\ r.hits = s.hits
      /\ r.simulated = s.simulated + facts[c].cost
  BY <1>2, <1>4
<1>7. /\ r.hits \in SUBSET (1..i+1)
      /\ \A j \in 1..i+1 : j \in r.hits <=> IsHit(facts, scenario, j, r.hits)
      /\ r.simulated = SumOn([j \in 1..Len(facts) |-> IF j \in r.hits THEN 0 ELSE facts[j].cost], 1..i+1)
  <2>1. /\ r.hits = s.hits \cup IF IsHit(facts, scenario, i+1, s.hits) THEN {i+1} ELSE {}
        /\ r.simulated = s.simulated + IF IsHit(facts, scenario, i+1, s.hits) THEN 0 ELSE facts[i+1].cost
    BY <1>3, <1>6
  <2> QED
    BY <2>1, HitsStep
<1>8. s.lru \in Seq(K) /\ held \in SUBSET K /\ Len(s.lru) \in Nat
  <2> HIDE DEF K
  <2>1. s.lru \in Seq(K)
    BY DEF Caches, K
  <2>2. \A a \in 1..Len(s.lru) : s.lru[a] \in K
    BY <2>1
  <2>3. Len(s.lru) \in Nat
    BY <2>1
  <2> QED
    BY <2>1, <2>2, <2>3 DEF Held
<1>9. /\ t \in Seq(K) /\ Ordered(t, v) /\ Held(t) = held \cup {key}
      /\ Len(t) = IF key \in held THEN Len(s.lru) ELSE Len(s.lru) + 1
  <2> DEFINE lru == s.lru
  <2>1. lru \in Seq(KeysOf(facts)) /\ facts[i+1].key \in KeysOf(facts) /\ Ordered(lru, LastUse(facts, i))
    BY <1>1, <1>4, <1>8
  <2> HIDE DEF lru
  <2>2. LET q == TouchLRU(lru, facts[i+1].key)
        IN /\ q \in Seq(KeysOf(facts)) /\ Ordered(q, LastUse(facts, i+1))
           /\ Held(q) = Held(lru) \cup {facts[i+1].key}
           /\ Len(q) = IF facts[i+1].key \in Held(lru) THEN Len(lru) ELSE Len(lru) + 1
    BY <2>1, ListStep
  <2> QED
    BY <2>2 DEF lru
<1>10. \A k \in K : /\ k # key => Fills(facts, r.hits, k, c) = Fills(facts, s.hits, k, i)
                    /\ k = key => Fills(facts, r.hits, k, c) # {} /\ Max(Fills(facts, r.hits, k, c)) = c
  <2> SUFFICES ASSUME NEW k \in K
               PROVE  /\ k # key => Fills(facts, r.hits, k, c) = Fills(facts, s.hits, k, i)
                      /\ k = key => Fills(facts, r.hits, k, c) # {} /\ Max(Fills(facts, r.hits, k, c)) = c
    OBVIOUS
  <2> DEFINE old == Uses(facts, k, i) \ s.hits
  <2>1. /\ Uses(facts, k, c) = Uses(facts, k, i) \cup IF facts[c].key = k THEN {c} ELSE {}
        /\ Uses(facts, k, i) \in SUBSET (1..i)
    BY UsesFact
  <2>2. c \notin s.hits
    BY <1>4
  <2>3. Max(old \cup {i+1}) = i + 1
    <3>1. old \in SUBSET (1..i)
      BY <2>1
    <3> HIDE DEF old
    <3> QED
      BY <3>1, MaxUpto
  <2>4. ASSUME k # key PROVE Uses(facts, k, c) \ s.hits = old
    <3> HIDE DEF c
    <3> QED
      BY <2>1, <2>4
  <2>5. ASSUME k = key PROVE Uses(facts, k, c) \ s.hits = old \cup {c}
    <3> HIDE DEF c
    <3> QED
      BY <2>1, <2>2, <2>5
  <2>6. ASSUME k = key PROVE Fills(facts, r.hits, k, c) # {} /\ Max(Fills(facts, r.hits, k, c)) = c
    <3>1. Fills(facts, r.hits, k, c) = old \cup {c}
      BY <1>6, <2>5, <2>6 DEF Fills
    <3> HIDE DEF old
    <3> QED
      BY <2>3, <3>1
  <2> QED
    BY <1>6, <2>4, <2>6 DEF Fills
<1>11. \A k \in K : /\ u[k] \in 0..i /\ v[k] = IF k = key THEN c ELSE u[k]
                    /\ u[k] \in Int /\ v[k] \in Int /\ (k # key => v[k] < c)
  BY KeysMove
<1>12. c \in Int /\ entries \in Nat
  OBVIOUS
<1> HIDE DEF u, v, c, K, key, t, entries, held
(* The list afterwards, and that what was put out is the oldest.           *)
<1>13. /\ r.lru \in Seq(K) /\ Ordered(r.lru, v) /\ Held(r.lru) = (held \cup {key}) \ evicted
       /\ key \in Held(r.lru)
       /\ entries > 0 => Len(r.lru) <= entries
       /\ \A k \in evicted : k \in K /\ entries > 0 /\ Len(r.lru) >= entries /\ \A q \in Held(r.lru) : v[k] < v[q]
       /\ Len(r.lru) >= Len(s.lru)
  <2>1. CASE evicted = {}
    <3>1. r.lru = t /\ ~(entries > 0 /\ Len(t) > entries)
      BY <1>5, <1>6, <2>1
    <3>2. Len(t) \in Nat /\ Len(t) >= Len(s.lru)
      BY <1>8, <1>9
    <3> QED
      BY <1>9, <1>12, <2>1, <3>1, <3>2
  <2>2. CASE evicted # {}
    <3>1. evicted = {Head(t)} /\ entries > 0 /\ Len(t) > entries /\ r.lru = Tail(t)
      BY <1>5, <1>6, <2>2
    <3>2. key \notin held /\ Len(t) = Len(s.lru) + 1 /\ Len(s.lru) <= entries
      BY <1>4, <1>8, <1>9, <1>12, <3>1
    <3>3. Len(t) > 1
      BY <1>12, <3>1, <3>2
    <3>4. \A k \in K : v[k] \in Int
      BY <1>11
    <3>5. /\ Head(t) \in Held(t) /\ Tail(t) \in Seq(K) /\ Len(Tail(t)) = Len(t) - 1
          /\ Ordered(Tail(t), v) /\ Held(Tail(t)) = Held(t) \ {Head(t)}
          /\ \A k \in Held(Tail(t)) : v[Head(t)] < v[k]
      BY <1>9, <3>3, <3>4, TailOrder
    <3>6. Len(r.lru) = Len(s.lru) /\ Len(r.lru) = entries
      BY <1>8, <1>12, <3>1, <3>2, <3>5
    <3>7. Head(t) # key
      <4>1. ASSUME Head(t) = key PROVE FALSE
        <5>1. PICK q : q \in Held(Tail(t))
          <6>1. Len(Tail(t)) \in Nat /\ Len(Tail(t)) >= 1
            BY <1>8, <1>12, <3>1, <3>5, <3>6
          <6>2. 1 \in 1..Len(Tail(t))
            BY <6>1
          <6>3. Tail(t)[1] \in Held(Tail(t))
            BY <6>2 DEF Held
          <6> QED
            BY <6>3
        <5>2. q \in K /\ q # key
          BY <1>8, <1>9, <3>5, <4>1, <5>1
        <5>3. v[key] < v[q] /\ v[key] = c /\ v[q] < c /\ v[q] \in Int
          BY <1>1, <1>11, <3>5, <4>1, <5>1, <5>2
        <5> QED
          BY <1>12, <5>3
      <4> QED
        BY <4>1
    <3>8. Head(t) \in K
      BY <1>1, <1>8, <1>9, <3>5
    <3>9. Held(r.lru) = (held \cup {key}) \ evicted /\ key \in Held(r.lru)
      BY <1>9, <3>1, <3>5, <3>7
    <3>10. \A k \in evicted : k \in K /\ entries > 0 /\ Len(r.lru) >= entries /\ \A q \in Held(r.lru) : v[k] < v[q]
      BY <1>12, <3>1, <3>5, <3>6, <3>8
    <3>11. (entries > 0 => Len(r.lru) <= entries) /\ Len(r.lru) >= Len(s.lru)
      BY <1>8, <1>12, <3>6
    <3> QED
      BY <3>1, <3>5, <3>9, <3>10, <3>11
  <2> QED
    BY <2>1, <2>2
<1>14. DOMAIN r.expires = Held(r.lru)
  BY <1>4, <1>6, <1>13
<1>15. ASSUME NEW k \in Held(r.lru)
       PROVE  /\ Fills(facts, r.hits, k, c) # {}
              /\ r.expires[k] = facts[Max(Fills(facts, r.hits, k, c))].at + scenario.ttl
  <2>1. r.expires[k] = IF k = key THEN facts[c].at + scenario.ttl ELSE s.expires[k]
    BY <1>6, <1>14
  <2>2. k \in K /\ (k # key => k \in held)
    BY <1>1, <1>8, <1>13
  <2> QED
    BY <1>4, <1>10, <2>1, <2>2
<1>16. ASSUME NEW k \in K \ Held(r.lru), v[k] > 0
       PROVE  /\ entries > 0 /\ Len(r.lru) >= entries
              /\ \A q \in Held(r.lru) : v[k] < v[q]
  <2>1. CASE k \in evicted
    BY <1>13, <2>1
  <2>2. CASE k \notin evicted
    <3>1. k # key /\ k \notin held /\ v[k] = u[k] /\ v[k] < c /\ v[k] \in Int
      BY <1>11, <1>13, <1>16, <2>2
    <3>2. entries > 0 /\ Len(s.lru) >= entries /\ \A q \in held : u[k] < u[q]
      BY <1>4, <1>16, <3>1
    <3>3. Len(r.lru) >= entries
      <4>1. Len(r.lru) \in Nat
        BY <1>13
      <4> QED
        BY <1>8, <1>12, <1>13, <3>2, <4>1
    <3>4. ASSUME NEW q \in Held(r.lru) PROVE v[k] < v[q]
      <4>1. CASE q = key
        BY <1>1, <1>11, <3>1, <4>1
      <4>2. CASE q # key
        <5>1. q \in held /\ q \in K
          BY <1>8, <1>13, <4>2
        <5> QED
          BY <1>11, <3>1, <3>2, <4>2, <5>1
      <4> QED
        BY <4>1, <4>2
    <3> QED
      BY <3>2, <3>3, <3>4
  <2> QED
    BY <2>1, <2>2
<1>17. CacheInv(facts, scenario, r, c)
  <2>1. \A k \in Held(r.lru) :
          /\ Fills(facts, r.hits, k, c) # {}
          /\ r.expires[k] = facts[Max(Fills(facts, r.hits, k, c))].at + scenario.ttl
    BY <1>15
  <2>2. \A k \in K \ Held(r.lru) : v[k] > 0 =>
          /\ entries > 0 /\ Len(r.lru) >= entries
          /\ \A q \in Held(r.lru) : v[k] < v[q]
    BY <1>16
  <2> QED
    BY <1>6, <1>7, <1>13, <1>14, <2>1, <2>2 DEF CacheInv, c, v, K, entries
<1> QED
  BY <1>17 DEF r, c

(* The replay of a cache hits what a cache of that TTL and size holds, and *)
(* what it reports is the cost of the rest.                                *)
LEMMA CacheFact ==
  ASSUME NEW facts, Readable(facts), NEW scenario, scenario.entries \in Nat, scenario.ttl \in Int
  PROVE  LET r == SimulateCaching(facts, scenario)
         IN /\ HitsOfACache(facts, scenario, r.hits)
            /\ r.simulated = Total([i \in DOMAIN facts |-> IF i \in r.hits THEN 0 ELSE facts[i].cost])
            /\ r.simulated \in Int
<1> DEFINE n == Len(facts)
           K == KeysOf(facts)
<1>1. n \in Nat /\ DOMAIN facts = 1..n
  BY DEF Readable
<1>2. PICK run \in [0..n -> Caches(K)] :
        /\ run[0] = CacheStart
        /\ \A i \in 1..n : run[i] = CacheStep(run[i-1], facts[i], scenario)
        /\ SimulateCaching(facts, scenario) = run[n]
  BY CacheRun
<1> DEFINE Right(i) == CacheInv(facts, scenario, run[i], i)
           N == {i \in Nat : i <= n => Right(i)}
<1>3. 0 \in N
  <2> DEFINE s == CacheStart
             u == LastUse(facts, 0)
  <2>1. /\ s.n = 0 /\ s.hits = {} /\ s.lru = <<>> /\ s.simulated = 0 /\ s.expires = <<>>
    BY DEF CacheStart
  <2> HIDE DEF s
  <2>2. Len(s.lru) = 0 /\ Held(s.lru) = {} /\ DOMAIN s.expires = {}
    BY <2>1 DEF Held
  <2>3. Ordered(s.lru, u)
    BY <2>2 DEF Ordered
  <2>4. ASSUME NEW k \in K PROVE u[k] = 0
    <3>1. u[k] \in 0..0
      BY LastRange
    <3> HIDE DEF u
    <3> QED
      BY <3>1
  <2>5. s.simulated = SumOn([j \in 1..n |-> IF j \in s.hits THEN 0 ELSE facts[j].cost], 1..0)
    <3>1. 1..0 = {}
      OBVIOUS
    <3> QED
      BY <2>1, <3>1, SumEmpty
  <2> HIDE DEF u
  <2>6. CacheInv(facts, scenario, s, 0)
    <3>1. \A k \in K \ Held(s.lru) : ~(u[k] > 0)
      BY <2>4
    <3>2. 0 <= scenario.entries
      OBVIOUS
    <3>3. s.hits \in SUBSET (1..0)
      BY <2>1
    <3>4. \A j \in 1..0 : FALSE
      OBVIOUS
    <3> QED
      BY <2>1, <2>2, <2>3, <2>5, <3>1, <3>2, <3>3, <3>4 DEF CacheInv, u
  <2> QED
    BY <1>2, <2>6 DEF s
<1>4. ASSUME NEW i \in Nat, i \in N PROVE i + 1 \in N
  <2> SUFFICES ASSUME i + 1 <= n PROVE Right(i + 1)
    OBVIOUS
  <2> DEFINE s == run[i]
  <2>1. i + 1 \in 1..n /\ (i + 1) - 1 = i /\ i \in 0..n /\ Right(i) /\ i < Len(facts)
    BY <1>1, <1>4
  <2>2. s \in Caches(K) /\ run[i+1] = CacheStep(s, facts[i+1], scenario) /\ CacheInv(facts, scenario, s, i)
    BY <1>2, <2>1
  <2> HIDE DEF s
  <2>3. CacheInv(facts, scenario, CacheStep(s, facts[i+1], scenario), i+1)
    <3>1. s \in Caches(KeysOf(facts)) /\ CacheInv(facts, scenario, s, i) /\ i < Len(facts)
      BY <2>1, <2>2
    <3>2. CASE facts[i+1].key = NoKey
      BY <3>1, <3>2, KeylessStep
    <3>3. CASE facts[i+1].key # NoKey /\ Answers(s, facts[i+1])
      BY <3>1, <3>3, HitStep
    <3>4. CASE facts[i+1].key # NoKey /\ ~Answers(s, facts[i+1])
      BY <3>1, <3>4, MissStep
    <3> QED
      BY <3>2, <3>3, <3>4
  <2> QED
    BY <2>2, <2>3
<1> HIDE DEF N
<1>5. n \in N
  <2> HIDE DEF n
  <2> QED
    BY <1>1, <1>3, <1>4, NumberInduction
<1> DEFINE r == SimulateCaching(facts, scenario)
<1>6. CacheInv(facts, scenario, r, n)
  <2>1. Right(n)
    BY <1>1, <1>5 DEF N
  <2> QED
    BY <1>2, <2>1
<1> HIDE DEF r
<1>7. HitsOfACache(facts, scenario, r.hits)
  <2>1. \A j \in 1..n : j \in r.hits <=> IsHit(facts, scenario, j, r.hits)
    BY <1>6 DEF CacheInv
  <2> QED
    BY <1>1, <2>1 DEF HitsOfACache, IsHit
<1> DEFINE f == [i \in DOMAIN facts |-> IF i \in r.hits THEN 0 ELSE facts[i].cost]
<1>8. r.simulated = SumOn(f, 1..n) /\ SumOn(f, 1..n) \in Int
  <2>1. f = [j \in 1..n |-> IF j \in r.hits THEN 0 ELSE facts[j].cost]
    BY <1>1
  <2>2. r.simulated = SumOn(f, 1..n)
    BY <1>6, <2>1 DEF CacheInv
  <2>3. \A j \in 1..n : f[j] \in Int
    <3>1. \A j \in 1..n : facts[j].cost \in Nat
      BY DEF Readable
    <3> QED
      BY <1>1, <3>1
  <2>4. IsFiniteSet(1..n)
    <3> HIDE DEF n
    <3> QED
      BY <1>1, FS_Interval
  <2> HIDE DEF f, n
  <2> QED
    BY <2>2, <2>3, <2>4, SumInt
<1>9. Total(f) = SumOn(f, 1..n)
  BY <1>1, TotalFact
<1> HIDE DEF f
<1>10. r.simulated = Total(f) /\ r.simulated \in Int
  BY <1>8, <1>9
<1> QED
  BY <1>7, <1>10 DEF f, r

-----------------------------------------------------------------------------
(* What is replayed *)

(* The rows that can have been recorded.                                   *)
Recordable == {Timed(row, t) : row \in Rows, t \in 0..LastInstant}

LEMMA RecordableFact ==
  ASSUME NEW f \in Recordable PROVE f.cost \in Nat /\ f.usage \in Nat /\ f.at \in Int
<1>1. PICK row \in Rows, t \in 0..LastInstant : f = Timed(row, t)
  BY DEF Recordable
<1>2. f.cost = row.cost /\ f.usage = row.usage /\ f.at = t
  BY <1>1 DEF Timed
<1> QED
  BY <1>1, <1>2, SimulationsAssumption

LEMMA RecordedIsReadable == ASSUME NEW facts \in Seq(Recordable) PROVE Readable(facts)
<1>1. Len(facts) \in Nat /\ DOMAIN facts = 1..Len(facts) /\ \A i \in 1..Len(facts) : facts[i] \in Recordable
  OBVIOUS
<1> QED
  BY <1>1, RecordableFact DEF Readable

(* The stride of the cap never leaves the rows.                            *)
LEMMA StrideFact ==
  ASSUME NEW limit \in Nat \ {0}, NEW length \in Nat, NEW n \in 1..limit, length > 0
  PROVE  ((n - 1) * length) \div limit + 1 \in 1..length
<1> DEFINE a == (n - 1) * length
           q == a \div limit
<1>1. a \in Nat /\ a < limit * length
  <2>1. n - 1 \in Nat /\ limit - n \in Nat
    OBVIOUS
  <2>2. a \in Nat
    BY <2>1
  <2>3. (limit - n) * length \in Nat /\ limit * length = a + (limit - n) * length + length
    BY <2>1
  <2> DEFINE b == (limit - n) * length
             c == limit * length
  <2>4. b \in Nat /\ c = a + b + length
    BY <2>3
  <2> HIDE DEF a, b, c
  <2>5. a < c
    BY <2>2, <2>4
  <2> QED
    BY <2>2, <2>5 DEF c
<1> HIDE DEF a
<1>2. q \in Nat /\ limit * q <= a
  BY <1>1
<1> HIDE DEF q
<1>3. q < length
  <2> SUFFICES ASSUME q >= length PROVE FALSE
    BY <1>2
  <2>1. q - length \in Nat
    BY <1>2
  <2>2. limit * q = limit * length + limit * (q - length) /\ limit * (q - length) \in Nat
    BY <1>2, <2>1
  <2> DEFINE c == limit * length
             d == limit * (q - length)
             e == limit * q
  <2>3. c \in Int /\ d \in Nat /\ e \in Int
    BY <1>2, <2>2
  <2>4. e = c + d /\ e <= a /\ a < c
    BY <1>1, <1>2, <2>2
  <2> HIDE DEF c, d, e
  <2> QED
    BY <1>1, <2>3, <2>4
<1> QED
  BY <1>2, <1>3 DEF q, a

LEMMA CapFact == ASSUME NEW rows \in Seq(Recordable) PROVE Cap(rows) \in Seq(Recordable)
<1>1. CASE Len(rows) <= ReplayLimit
  BY <1>1 DEF Cap
<1>2. CASE ~(Len(rows) <= ReplayLimit)
  <2> DEFINE at(n) == ((n - 1) * Len(rows)) \div ReplayLimit + 1
  <2>1. ReplayLimit \in Nat \ {0} /\ Len(rows) \in Nat /\ Len(rows) > 0
    BY <1>2, ReplayAssumption
  <2>2. \A n \in 1..ReplayLimit : at(n) \in 1..Len(rows)
    BY <2>1, StrideFact
  <2> HIDE DEF at
  <2>3. \A n \in 1..ReplayLimit : rows[at(n)] \in Recordable
    BY <2>2
  <2>4. [n \in 1..ReplayLimit |-> rows[at(n)]] \in Seq(Recordable)
    BY <2>1, <2>3
  <2> QED
    BY <1>2, <2>4 DEF Cap, at
<1> QED
  BY <1>1, <1>2

LEMMA WindowFact ==
  ASSUME recorded \in Seq(Recordable), NEW since, NEW until
  PROVE  ReplayFacts(since, until) \in Seq(Recordable)
<1> DEFINE Earlier(t) == {i \in DOMAIN recorded : recorded[i].at < t}
           a == Cardinality(Earlier(since))
           b == Cardinality(Earlier(until))
<1>1. Len(recorded) \in Nat /\ DOMAIN recorded = 1..Len(recorded) /\ \A i \in 1..Len(recorded) : recorded[i] \in Recordable
  OBVIOUS
<1>2. \A t : Earlier(t) \in SUBSET (1..Len(recorded))
  BY <1>1
<1>3. IsFiniteSet(1..Len(recorded)) /\ Cardinality(1..Len(recorded)) = Len(recorded)
  <2> DEFINE n == Len(recorded)
  <2>1. n \in Nat /\ n \in Int /\ 1 \in Int
    BY <1>1
  <2> HIDE DEF n
  <2>2. IsFiniteSet(1..n) /\ Cardinality(1..n) = IF 1 > n THEN 0 ELSE n - 1 + 1
    BY <2>1, FS_Interval
  <2>3. IsFiniteSet(1..n) /\ Cardinality(1..n) = n
    BY <2>1, <2>2
  <2> QED
    BY <2>3 DEF n
<1> HIDE DEF Earlier
<1>4. ASSUME NEW t PROVE Cardinality(Earlier(t)) \in Nat /\ Cardinality(Earlier(t)) <= Len(recorded)
  <2>1. IsFiniteSet(Earlier(t)) /\ Cardinality(Earlier(t)) <= Cardinality(1..Len(recorded))
    BY <1>2, <1>3, FS_Subset
  <2>2. Cardinality(Earlier(t)) \in Nat
    BY <2>1, FS_CardinalityType
  <2> QED
    BY <1>3, <2>1, <2>2
<1>5. a + 1 \in Int /\ b \in Int /\ \A i \in (a+1)..b : recorded[i] \in Recordable
  <2>1. a \in Nat /\ b \in Nat /\ b <= Len(recorded)
    BY <1>4
  <2> HIDE DEF a, b
  <2>2. \A i \in (a+1)..b : i \in 1..Len(recorded)
    BY <1>1, <2>1
  <2> QED
    BY <1>1, <2>1, <2>2
<1> HIDE DEF a, b
<1>6. SubSeq(recorded, a + 1, b) \in Seq(Recordable)
  BY <1>5, SubSeqProperties
<1> QED
  BY <1>6 DEF ReplayFacts, a, b, Earlier

(* Whatever is replayed, the outcome stored is what its scenario means.    *)
LEMMA OutcomeFact ==
  ASSUME NEW rows \in Seq(Recordable), NEW scenario \in Scenarios, Accepts(scenario), NEW days
  PROVE  LET r == CreateSimulation(rows, scenario, days)
         IN MatchesItsDefinition(Cap(rows), scenario, r) /\ r.delta = r.simulated - r.actual
<1> DEFINE facts == Cap(rows)
           out == Outcome(facts, scenario)
           r == CreateSimulation(rows, scenario, days)
<1>1. Readable(facts)
  BY CapFact, RecordedIsReadable
<1>2. r.affected = out.affected /\ r.actual = out.actual /\ r.simulated = out.simulated /\ r.delta = r.simulated - r.actual
  BY DEF CreateSimulation
<1>3. scenario.type \in {"model_mix", "exact_caching", "budget"}
  BY DEF Accepts
<1> HIDE DEF facts, r
<1>4. CASE scenario.type = "model_mix"
  <2>1. /\ scenario.weight \in Int /\ scenario.scale \in Powers
        /\ scenario.weight > 0 /\ scenario.weight <= One(scenario)
    BY <1>4, SimulationsAssumption DEF Accepts
  <2>2. /\ out.affected = SimulateModelMix(facts, scenario).affected
        /\ out.actual = SimulateModelMix(facts, scenario).actual
    BY <1>4 DEF Outcome
  <2>3. MovesItsShare(facts, scenario, SimulateModelMix(facts, scenario))
    BY <1>1, <2>1, MixFact
  <2> HIDE DEF out
  <2>4. MovesItsShare(facts, scenario, r)
    BY <1>2, <2>2, <2>3 DEF MovesItsShare
  <2>5. MatchesItsDefinition(facts, scenario, r)
    BY <1>4, <2>4 DEF MatchesItsDefinition, MovesItsShare
  <2> QED
    BY <1>2, <2>5 DEF facts, r
<1>5. CASE scenario.type = "exact_caching"
  <2>1. scenario.ttl \in Int /\ scenario.entries \in Nat
    BY <1>5, SimulationsAssumption
  <2>2. /\ out.affected = Cardinality(SimulateCaching(facts, scenario).hits)
        /\ out.simulated = SimulateCaching(facts, scenario).simulated
    BY <1>5 DEF Outcome
  <2> QED
    BY <1>1, <1>2, <1>5, <2>1, <2>2, CacheFact DEF MatchesItsDefinition, facts, r
<1>6. CASE scenario.type = "budget"
  <2>1. scenario.limit \in Int
    BY <1>6, SimulationsAssumption
  <2>2. out.affected = Cardinality(SimulateBudget(facts, scenario).blocked)
    BY <1>6 DEF Outcome
  <2> QED
    BY <1>1, <1>2, <1>6, <2>1, <2>2, BudgetFact DEF MatchesItsDefinition, facts, r
<1> QED
  BY <1>3, <1>4, <1>5, <1>6

-----------------------------------------------------------------------------
SInv == recorded \in Seq(Recordable) /\ ReplayMatchesItsDefinition

LEMMA SimulationsNextKeeps == SInv /\ [SimulationsNext]_simulationVars => SInv'
<1> SUFFICES ASSUME SInv, [SimulationsNext]_simulationVars PROVE SInv'
  OBVIOUS
<1>1. CASE Record
  <2>1. PICK row \in Rows, t \in 0..LastInstant : recorded' = Append(recorded, Timed(row, t))
    BY <1>1 DEF Record
  <2>2. Timed(row, t) \in Recordable
    BY DEF Recordable
  <2>3. recorded' \in Seq(Recordable)
    BY <2>1, <2>2, AppendProperties DEF SInv
  <2> QED
    BY <1>1, <2>3 DEF Record, SInv, ReplayMatchesItsDefinition
<1>2. ASSUME NEW scenario \in Scenarios, NEW days \in WindowDays, Simulate(scenario, days) PROVE SInv'
  <2> DEFINE window == SimulationWindow(days, Last(recorded).at \div DayLength)
             rows == ReplayFacts(window.start, window.end)
  <2>1. /\ Accepts(scenario) /\ UNCHANGED recorded
        /\ simulation' = [scenario |-> scenario, facts |-> Cap(rows),
                          result |-> CreateSimulation(rows, scenario, window.days)]
    BY <1>2 DEF Simulate
  <2>2. rows \in Seq(Recordable)
    BY WindowFact DEF SInv
  <2> HIDE DEF rows, window
  <2>3. LET r == CreateSimulation(rows, scenario, window.days)
        IN MatchesItsDefinition(Cap(rows), scenario, r) /\ r.delta = r.simulated - r.actual
    BY <2>1, <2>2, OutcomeFact
  <2>4. /\ simulation'.scenario = scenario /\ simulation'.facts = Cap(rows)
        /\ simulation'.result = CreateSimulation(rows, scenario, window.days)
    BY <2>1
  <2>5. ReplayMatchesItsDefinition'
    BY <2>3, <2>4 DEF ReplayMatchesItsDefinition
  <2> QED
    BY <2>1, <2>5 DEF SInv
<1>3. CASE UNCHANGED simulationVars
  BY <1>3 DEF SInv, ReplayMatchesItsDefinition, simulationVars
<1> QED
  BY <1>1, <1>2, <1>3 DEF SimulationsNext

(* A stored simulation is what its scenario means: the hits of an exact    *)
(* cache with that TTL and size; the requests past the point where the     *)
(* period's budget was used up; the weight's share of the requests that    *)
(* match, rounded down, but for what sums of float64s are off, and exactly *)
(* where they cannot be; and what it saves follows from those alone        *)
(* (internal/sim's SimulateCaching, SimulateBudget and SimulateModelMix).  *)
THEOREM ReplayMatchesItsDefinitionCorrect == SimulationsSpec => []ReplayMatchesItsDefinition
<1>1. SimulationsInit => SInv
  BY DEF SimulationsInit, SInv, ReplayMatchesItsDefinition
<1>2. SInv /\ [SimulationsNext]_simulationVars => SInv'
  BY SimulationsNextKeeps
<1>3. SInv => ReplayMatchesItsDefinition
  BY DEF SInv
<1> QED
  BY <1>1, <1>2, <1>3, PTL DEF SimulationsSpec

-----------------------------------------------------------------------------
(* Division and rounding: RoundDiv rounds to the nearest, half away from   *)
(* zero.                                                                   *)

(* More divided is no less.                                                *)
LEMMA QuotientMonotone ==
  ASSUME NEW x \in Int, NEW y \in Int, NEW d \in Nat \ {0}, x <= y
  PROVE  x \div d <= y \div d
<1> DEFINE p == x \div d
           q == y \div d
<1>1. p \in Int /\ q \in Int /\ d * p <= x /\ y < d * q + d
  BY QuotientFact
<1> HIDE DEF p, q
<1>2. q < p => d * q + d <= d * p
  BY <1>1, ProductOrder
<1>3. ~(q < p)
  <2> DEFINE a == d * p
             b == d * q
  <2>1. a \in Int /\ b \in Int /\ a <= x /\ y < b + d /\ (q < p => b + d <= a)
    BY <1>1, <1>2
  <2> HIDE DEF a, b
  <2> QED
    BY <2>1
<1>4. p <= q
  BY <1>1, <1>3
<1> QED
  BY <1>4 DEF p, q

(* A common factor cancels.                                                *)
LEMMA QuotientScaled ==
  ASSUME NEW x \in Int, NEW d \in Nat \ {0}, NEW c \in Nat \ {0}
  PROVE  d * c \in Nat \ {0} /\ x * c \in Int /\ (x * c) \div (d * c) = x \div d
<1> DEFINE q == x \div d
           e == d * c
<1>1. q \in Int /\ d * q <= x /\ x < d * q + d
  BY QuotientFact
<1>2. e \in Nat \ {0} /\ x * c \in Int
  <2>1. \A a, b \in Nat \ {0} : a * b \in Nat \ {0}
    OBVIOUS
  <2> QED
    BY <2>1
<1> HIDE DEF q
<1>3. e * q <= x * c /\ x * c < e * q + e
  <2> DEFINE p == d * q
  <2>1. p \in Int /\ e * q = c * p /\ e * q + e = c * (p + d) /\ x * c = c * x
    BY <1>1
  <2>2. p <= x /\ x < p + d
    BY <1>1
  <2>3. c * p <= c * x /\ c * x + c <= c * (p + d)
    <3> HIDE DEF p
    <3>1. p \in Int /\ p + d \in Int
      BY <2>1
    <3> QED
      BY <2>2, <3>1, ProductOrder
  <2>4. c * x \in Int /\ c * (p + d) \in Int
    BY <2>1
  <2>5. c * x < c * (p + d)
    <3> DEFINE a == c * x
               b == c * (p + d)
    <3>1. a \in Int /\ b \in Int /\ a + c <= b
      BY <2>3, <2>4
    <3> HIDE DEF a, b
    <3>2. a < b
      BY <3>1
    <3> QED
      BY <3>2 DEF a, b
  <2> QED
    BY <2>1, <2>3, <2>5
<1> HIDE DEF e
<1>4. (x * c) \div e = q
  <2> DEFINE y == x * c
  <2>1. y \in Int /\ e * q <= y /\ y < e * q + e
    BY <1>2, <1>3
  <2> HIDE DEF y
  <2>2. y \div e = q
    BY <1>1, <1>2, <2>1, QuotientIsUnique
  <2> QED
    BY <2>2 DEF y
<1> QED
  BY <1>2, <1>4 DEF e, q

-----------------------------------------------------------------------------
(* Rounding keeps the order, is the same of a fraction brought to another  *)
(* denominator, and a part of a hundred stays one.                         *)

(* Rounding keeps the sign.                                                *)
LEMMA RoundIsInt ==
  ASSUME NEW a \in Int, NEW b \in Nat \ {0}
  PROVE  RoundDiv(a, b) \in Int /\ (a >= 0 => RoundDiv(a, b) >= 0) /\ (a < 0 => RoundDiv(a, b) <= 0)
<1>1. 2 * b \in Nat \ {0} /\ 2 * a + b \in Int /\ 2 * (-a) + b \in Int /\ 0 \in Int
  OBVIOUS
<1>2. (2 * a + b) \div (2 * b) \in Int /\ (2 * (-a) + b) \div (2 * b) \in Int /\ 0 \div (2 * b) = 0
  <2>1. (2 * b) * 0 <= 0 /\ 0 < (2 * b) * 0 + 2 * b
    OBVIOUS
  <2> QED
    BY <1>1, <2>1, QuotientFact, QuotientIsUnique
<1>3. ASSUME a >= 0 PROVE (2 * a + b) \div (2 * b) >= 0
  <2>1. 0 <= 2 * a + b
    BY <1>3
  <2>2. 0 \div (2 * b) <= (2 * a + b) \div (2 * b)
    BY <1>1, <2>1, QuotientMonotone
  <2> QED
    BY <1>2, <2>2
<1>4. ASSUME a < 0 PROVE (2 * (-a) + b) \div (2 * b) >= 0
  <2>1. 0 <= 2 * (-a) + b
    BY <1>4
  <2>2. 0 \div (2 * b) <= (2 * (-a) + b) \div (2 * b)
    BY <1>1, <2>1, QuotientMonotone
  <2> QED
    BY <1>2, <2>2
<1> DEFINE up == (2 * a + b) \div (2 * b)
           down == (2 * (-a) + b) \div (2 * b)
<1>5. /\ up \in Int /\ down \in Int /\ (a >= 0 => up >= 0) /\ (a < 0 => down >= 0)
      /\ RoundDiv(a, b) = IF a < 0 THEN -down ELSE up
  BY <1>2, <1>3, <1>4 DEF RoundDiv
<1> HIDE DEF up, down
<1> QED
  BY <1>5

(* More is not rounded to less.                                            *)
LEMMA RoundMonotone ==
  ASSUME NEW a \in Int, NEW c \in Int, NEW b \in Nat \ {0}, a <= c
  PROVE  RoundDiv(a, b) <= RoundDiv(c, b)
<1> DEFINE d == 2 * b
<1>1. d \in Nat \ {0}
  OBVIOUS
<1>2. CASE a >= 0
  <2>1. 2 * a + b \in Int /\ 2 * c + b \in Int /\ 2 * a + b <= 2 * c + b /\ c >= 0
    BY <1>2
  <2>2. (2 * a + b) \div d <= (2 * c + b) \div d
    <3> HIDE DEF d
    <3> QED
      BY <1>1, <2>1, QuotientMonotone
  <2>3. RoundDiv(a, b) = (2 * a + b) \div d /\ RoundDiv(c, b) = (2 * c + b) \div d
    BY <1>2, <2>1 DEF RoundDiv
  <2> QED
    BY <2>2, <2>3
<1>3. CASE a < 0 /\ c >= 0
  <2>1. RoundDiv(a, b) \in Int /\ RoundDiv(c, b) \in Int /\ RoundDiv(a, b) <= 0 /\ RoundDiv(c, b) >= 0
    BY <1>3, RoundIsInt
  <2> QED
    BY <2>1
<1>4. CASE c < 0
  <2>1. /\ 2 * (-a) + b \in Int /\ 2 * (-c) + b \in Int /\ 2 * (-c) + b <= 2 * (-a) + b /\ a < 0
    BY <1>4
  <2> DEFINE p == (2 * (-a) + b) \div d
             q == (2 * (-c) + b) \div d
  <2>2. q <= p /\ p \in Int /\ q \in Int
    <3> HIDE DEF d
    <3> QED
      BY <1>1, <2>1, QuotientMonotone, QuotientFact
  <2>3. RoundDiv(a, b) = -p /\ RoundDiv(c, b) = -q
    BY <1>4, <2>1 DEF RoundDiv
  <2> HIDE DEF p, q
  <2> QED
    BY <2>2, <2>3
<1> QED
  BY <1>2, <1>3, <1>4

(* A common factor changes nothing.                                        *)
LEMMA RoundScaled ==
  ASSUME NEW a \in Int, NEW b \in Nat \ {0}, NEW c \in Nat \ {0}
  PROVE  RoundDiv(a * c, b * c) = RoundDiv(a, b)
<1> DEFINE d == 2 * b
<1>1. d \in Nat \ {0} /\ 2 * (b * c) = d * c /\ a * c \in Int
  OBVIOUS
<1>2. CASE a >= 0
  <2> DEFINE x == 2 * a + b
  <2>1. x \in Int /\ 2 * (a * c) + b * c = x * c
    OBVIOUS
  <2>2. ~(a * c < 0)
    <3>1. \A u, v \in Nat : u * v >= 0
      OBVIOUS
    <3>2. a \in Nat
      BY <1>2
    <3>3. a * c >= 0
      BY <3>1, <3>2
    <3> QED
      BY <1>1, <3>3
  <2>3. (x * c) \div (d * c) = x \div d
    <3> HIDE DEF x, d
    <3> QED
      BY <1>1, <2>1, QuotientScaled
  <2>4. RoundDiv(a * c, b * c) = (x * c) \div (d * c)
    <3>1. RoundDiv(a * c, b * c) = (2 * (a * c) + b * c) \div (2 * (b * c))
      BY <2>2 DEF RoundDiv
    <3> QED
      BY <1>1, <2>1, <3>1
  <2>5. RoundDiv(a, b) = x \div d
    BY <1>2 DEF RoundDiv
  <2> QED
    BY <2>3, <2>4, <2>5
<1>3. CASE a < 0
  <2> DEFINE x == 2 * (-a) + b
  <2>1. x \in Int /\ 2 * (-(a * c)) + b * c = x * c
    OBVIOUS
  <2>2. a * c < 0
    <3>1. -a \in Nat \ {0}
      BY <1>3
    <3>2. \A u, v \in Nat \ {0} : u * v > 0
      OBVIOUS
    <3>3. (-a) * c > 0
      BY <3>1, <3>2
    <3>4. (-a) * c = -(a * c)
      OBVIOUS
    <3> DEFINE p == a * c
    <3>5. p \in Int /\ -p > 0
      BY <1>1, <3>3, <3>4
    <3> HIDE DEF p
    <3>6. p < 0
      BY <3>5
    <3> QED
      BY <3>6 DEF p
  <2>3. (x * c) \div (d * c) = x \div d
    <3> HIDE DEF x, d
    <3> QED
      BY <1>1, <2>1, QuotientScaled
  <2>4. RoundDiv(a * c, b * c) = -((x * c) \div (d * c))
    <3>1. RoundDiv(a * c, b * c) = -((2 * (-(a * c)) + b * c) \div (2 * (b * c)))
      BY <2>2 DEF RoundDiv
    <3> QED
      BY <1>1, <2>1, <3>1
  <2>5. RoundDiv(a, b) = -(x \div d)
    BY <1>3 DEF RoundDiv
  <2> QED
    BY <2>3, <2>4, <2>5
<1> QED
  BY <1>2, <1>3

(* A part of a whole is a part of a hundred.                               *)
LEMMA RoundPercent ==
  ASSUME NEW a \in Nat, NEW b \in Nat \ {0}, a <= 100 * b
  PROVE  RoundDiv(a, b) \in 0..100
<1> DEFINE d == 2 * b
           q == (2 * a + b) \div d
<1>1. q \in Int /\ d * q <= 2 * a + b
  <2>1. d \in Nat \ {0} /\ 2 * a + b \in Int
    OBVIOUS
  <2> HIDE DEF d
  <2> QED
    BY <2>1, QuotientFact
<1>2. RoundDiv(a, b) = q /\ RoundDiv(a, b) >= 0
  BY RoundIsInt DEF RoundDiv
<1>3. q <= 100
  <2> HIDE DEF q
  <2>1. 100 < q => d * 100 + d <= d * q
    <3>1. d \in Nat \ {0} /\ 100 \in Int
      OBVIOUS
    <3> HIDE DEF d
    <3> QED
      BY <1>1, <3>1, ProductOrder
  <2> DEFINE p == d * q
  <2>2. p \in Int /\ p <= 2 * a + b /\ (100 < q => d * 100 + d <= p)
    BY <1>1, <2>1
  <2> HIDE DEF p
  <2> QED
    BY <1>1, <2>2
<1> HIDE DEF q
<1> QED
  BY <1>1, <1>2, <1>3

-----------------------------------------------------------------------------
(* Some elements of a list, in its order.                                  *)

(* Which places a subsequence takes, and in what order.                    *)
Places(s, seq, I, p) ==
  /\ p \in [1..Cardinality(I) -> I]
  /\ \A j, k \in 1..Cardinality(I) : p[j] = p[k] => j = k
  /\ \A i \in I : \E k \in 1..Cardinality(I) : p[k] = i
  /\ s = [k \in 1..Cardinality(I) |-> seq[p[k]]]

(* Subsequence takes each place of I once.                                 *)
LEMMA SubsequenceFact ==
  ASSUME NEW seq, NEW n \in Nat, NEW I \in SUBSET (1..n)
  PROVE  /\ IsFiniteSet(I) /\ Cardinality(I) \in Nat
         /\ Len(Subsequence(seq, I)) = Cardinality(I)
         /\ \E p : Places(Subsequence(seq, I), seq, I, p)
<1> DEFINE m == Cardinality(I)
           R == {q \in I \X I : q[1] < q[2]}
           before == [i \in I |-> Cardinality({j \in I : <<j, i>> \in R})]
           p == [k \in 1..m |-> CHOOSE i \in I : before[i] = k - 1]
           s == Subsequence(seq, I)
<1>1. IsFiniteSet(I) /\ m \in Nat
  BY PlacesFact
<1>2. Orders(R, I)
  BY DEF Orders
<1>3. before = [i \in I |-> Cardinality({j \in I : j < i})]
  <2>1. ASSUME NEW i \in I PROVE {j \in I : <<j, i>> \in R} = {j \in I : j < i}
    OBVIOUS
  <2> QED
    BY <2>1
<1>4. s = [k \in 1..m |-> seq[p[k]]]
  <2>1. s = [k \in 1..m |-> seq[CHOOSE i \in I : [x \in I |-> Cardinality({j \in I : j < x})][i] = k - 1]]
    BY DEF Subsequence
  <2> HIDE DEF before
  <2>2. s = [k \in 1..m |-> seq[CHOOSE i \in I : before[i] = k - 1]]
    BY <1>3, <2>1
  <2> QED
    BY <2>2
<1>5. /\ \A i, j \in I : before[i] = before[j] => i = j
      /\ \A i \in I : before[i] \in 0..m-1
      /\ \A k \in 0..m-1 : \E i \in I : before[i] = k
  <2>1. Counts(before, R, I)
    BY DEF Counts
  <2> HIDE DEF R, before, p, s
  <2>2. Numbers(before, I)
    BY <1>1, <1>2, <2>1, CountsAreNumbers
  <2> QED
    BY <2>2 DEF Numbers
<1>6. \A k \in 1..m : p[k] \in I /\ before[p[k]] = k - 1
  <2> HIDE DEF before, m
  <2> SUFFICES ASSUME NEW k \in 1..m PROVE p[k] \in I /\ before[p[k]] = k - 1
    OBVIOUS
  <2>1. k - 1 \in 0..m-1
    BY <1>1
  <2>2. \E i \in I : before[i] = k - 1
    BY <1>5, <2>1
  <2> QED
    BY <2>2
<1>7. \A j, k \in 1..m : p[j] = p[k] => j = k
  <2> SUFFICES ASSUME NEW j \in 1..m, NEW k \in 1..m, p[j] = p[k] PROVE j = k
    OBVIOUS
  <2>1. j - 1 = k - 1
    <3> HIDE DEF before, p, m
    <3> QED
      BY <1>6
  <2> HIDE DEF m
  <2> QED
    BY <1>1, <2>1
<1>8. ASSUME NEW i \in I PROVE \E k \in 1..m : p[k] = i
  <2> HIDE DEF before, p, m
  <2>1. before[i] \in 0..m-1
    BY <1>5
  <2>2. before[i] + 1 \in 1..m /\ (before[i] + 1) - 1 = before[i]
    BY <1>1, <2>1
  <2> DEFINE k == before[i] + 1
  <2>3. k \in 1..m /\ k - 1 = before[i]
    BY <2>2
  <2> HIDE DEF k
  <2>4. p[k] \in I /\ before[p[k]] = before[i]
    BY <1>6, <2>3
  <2>5. p[k] = i
    BY <1>5, <2>4
  <2> QED
    BY <2>3, <2>5
<1>9. Len(s) = m
  <2> HIDE DEF p, s, m
  <2> QED
    BY <1>1, <1>4
<1>10. p \in [1..m -> I]
  <2> HIDE DEF before, m
  <2>1. p = [k \in 1..m |-> p[k]]
    OBVIOUS
  <2> HIDE DEF p
  <2> QED
    BY <1>6, <2>1
<1>11. Places(s, seq, I, p)
  <2> HIDE DEF p, s, before
  <2> QED
    BY <1>4, <1>7, <1>8, <1>10 DEF Places
<1> QED
  BY <1>1, <1>9, <1>11

(* Every element of s is in seq, at one of the places I.                   *)
Takes(s, seq, I) ==
  /\ Len(s) \in Nat /\ s = [k \in 1..Len(s) |-> s[k]]
  /\ \A k \in 1..Len(s) : \E i \in I : s[k] = seq[i]

(* And nothing else.                                                       *)
LEMMA SubsequenceTakes ==
  ASSUME NEW seq, NEW n \in Nat, NEW I \in SUBSET (1..n)
  PROVE  Takes(Subsequence(seq, I), seq, I)
<1> DEFINE s == Subsequence(seq, I)
<1>1. PICK p : Places(s, seq, I, p)
  BY SubsequenceFact
<1>2. Len(s) = Cardinality(I) /\ Cardinality(I) \in Nat
  BY SubsequenceFact
<1> HIDE DEF s
<1>3. s = [k \in 1..Len(s) |-> s[k]] /\ \A k \in 1..Len(s) : p[k] \in I /\ s[k] = seq[p[k]]
  BY <1>1, <1>2 DEF Places
<1> QED
  BY <1>2, <1>3 DEF s, Takes

-----------------------------------------------------------------------------
(* Rows of requests, as the detectors read them.                           *)

Traffic(facts) ==
  /\ Readable(facts)
  /\ \A i \in 1..Len(facts) : facts[i].input \in Nat /\ facts[i].output \in Nat

(* Part of the traffic is traffic.                                         *)
LEMMA SubsequenceTraffic ==
  ASSUME NEW facts, Traffic(facts), NEW I \in SUBSET DOMAIN facts
  PROVE  Traffic(Subsequence(facts, I))
<1> DEFINE s == Subsequence(facts, I)
           n == Len(facts)
<1>1. n \in Nat /\ DOMAIN facts = 1..n
  BY DEF Traffic, Readable
<1>2. I \in SUBSET (1..n)
  BY <1>1
<1>3. Takes(s, facts, I)
  <2> HIDE DEF n
  <2> QED
    BY <1>1, <1>2, SubsequenceTakes
<1>4. \A i \in 1..n : /\ facts[i].cost \in Nat /\ facts[i].usage \in Nat /\ facts[i].at \in Int
                      /\ facts[i].input \in Nat /\ facts[i].output \in Nat
  BY DEF Traffic, Readable
<1> HIDE DEF s, n
<1>5. \A k \in 1..Len(s) : \E i \in 1..n : s[k] = facts[i]
  BY <1>2, <1>3 DEF Takes
<1>6. Traffic(s)
  BY <1>3, <1>4, <1>5 DEF Takes, Traffic, Readable
<1> QED
  BY <1>6 DEF s

Costs(facts) == [i \in DOMAIN facts |-> facts[i].cost]

(* What traffic costs, as a sum over its places.                           *)
LEMMA CostFact ==
  ASSUME NEW facts, Traffic(facts)
  PROVE  /\ IsFiniteSet(DOMAIN facts) /\ \A i \in DOMAIN facts : Costs(facts)[i] \in Nat
         /\ CostOf(facts) = SumOn(Costs(facts), DOMAIN facts)
         /\ CostOf(facts) \in Nat
<1>1. Len(facts) \in Nat /\ DOMAIN facts = 1..Len(facts)
  BY DEF Traffic, Readable
<1>2. IsFiniteSet(DOMAIN facts)
  BY <1>1, FS_Interval
<1>3. \A i \in DOMAIN facts : Costs(facts)[i] \in Nat
  BY <1>1 DEF Costs, Traffic, Readable
<1>4. DOMAIN Costs(facts) = DOMAIN facts
  BY DEF Costs
<1>5. CostOf(facts) = SumOn(Costs(facts), DOMAIN facts)
  <2>1. CostOf(facts) = Total(Costs(facts))
    BY DEF CostOf, Costs
  <2> QED
    BY <1>4, <2>1, TotalFact
<1>6. SumOn(Costs(facts), DOMAIN facts) \in Nat
  BY <1>2, <1>3, SumNat
<1> QED
  BY <1>2, <1>3, <1>5, <1>6

(* A subsequence costs what its places cost.                               *)
LEMMA SubsequenceCost ==
  ASSUME NEW facts, Traffic(facts), NEW I \in SUBSET DOMAIN facts
  PROVE  CostOf(Subsequence(facts, I)) = SumOn(Costs(facts), I)
<1> DEFINE s == Subsequence(facts, I)
           m == Cardinality(I)
           c == Costs(facts)
           n == Len(facts)
<1>1. n \in Nat /\ DOMAIN facts = 1..n
  BY DEF Traffic, Readable
<1>2. I \in SUBSET (1..n)
  BY <1>1
<1>3. PICK p : Places(s, facts, I, p)
  <2> HIDE DEF n
  <2> QED
    BY <1>1, <1>2, SubsequenceFact
<1>4. m \in Nat /\ IsFiniteSet(1..m)
  <2>1. m \in Nat
    <3> HIDE DEF n, m
    <3> QED
      BY <1>1, <1>2, SubsequenceFact DEF m
  <2> QED
    BY <2>1, FS_Interval
<1>5. DOMAIN s = 1..m /\ Costs(s) = [k \in 1..m |-> c[p[k]]]
  <2>1. s = [k \in 1..m |-> facts[p[k]]] /\ \A k \in 1..m : p[k] \in I
    BY <1>3 DEF Places
  <2> HIDE DEF s
  <2>2. \A k \in 1..m : s[k].cost = c[p[k]]
    BY <2>1 DEF Costs
  <2> HIDE DEF c
  <2> QED
    BY <2>1, <2>2 DEF Costs
<1>6. {p[k] : k \in 1..m} = I
  BY <1>3 DEF Places
<1>7. \A i, j \in 1..m : p[i] = p[j] => i = j
  BY <1>3 DEF Places
<1>8. \A k \in 1..m : c[p[k]] \in Int
  <2>1. \A k \in 1..m : p[k] \in I
    BY <1>3 DEF Places
  <2>2. \A i \in DOMAIN facts : c[i] \in Nat
    BY CostFact
  <2> HIDE DEF c
  <2> QED
    BY <2>1, <2>2
<1>9. SumOn(Costs(s), 1..m) = SumOn(c, I)
  <2> HIDE DEF c, s, m
  <2>1. SumOn([k \in 1..m |-> c[p[k]]], 1..m) = SumOn(c, {p[k] : k \in 1..m})
    BY <1>4, <1>7, <1>8, SumRenamed
  <2> QED
    BY <1>5, <1>6, <2>1
<1>10. CostOf(s) = SumOn(Costs(s), DOMAIN s)
  <2>1. Traffic(s)
    BY SubsequenceTraffic
  <2> QED
    BY <2>1, CostFact
<1> HIDE DEF s, m, c
<1> QED
  BY <1>5, <1>9, <1>10 DEF s, c

-----------------------------------------------------------------------------
(* The costliest half of a model's requests.                               *)

(* The larger half of n, in Go's rounding.                                 *)
LEMMA DoubledHalf ==
  ASSUME NEW n \in Nat, n > 0
  PROVE  (n + 1) \div 2 \in 1..n /\ 2 * ((n + 1) \div 2) >= n /\ 2 * ((n + 1) \div 2) <= n + 1
OBVIOUS

(* Of any part of a model's requests, as much as a split takes costs no    *)
(* more than some half of them.                                            *)
LEMMA HalfFact ==
  ASSUME NEW group, Traffic(group), NEW E \in SUBSET DOMAIN group, E # {}
  PROVE  \E H \in Halves(group) :
           Split(Cardinality(E), Len(group)) * SumOn(Costs(group), E)
             <= (2 * Cardinality(E)) * SumOn(Costs(group), H)
<1> DEFINE n == Len(group)
           D == DOMAIN group
           k == Cardinality(E)
           f == Costs(group)
           h == (n + 1) \div 2
           c == SumOn(f, E)
<1>1. n \in Nat /\ D = 1..n
  BY DEF Traffic, Readable
<1>2. IsFiniteSet(D) /\ Cardinality(D) = n
  <2>1. IsFiniteSet(1..n) /\ Cardinality(1..n) = n
    <3> HIDE DEF n
    <3> QED
      BY <1>1, FS_Interval
  <2> QED
    BY <1>1, <2>1
<1>3. \A x \in D : f[x] \in Nat
  BY CostFact
<1>4. IsFiniteSet(E) /\ k \in Nat /\ k > 0 /\ k <= n
  <2>1. IsFiniteSet(E) /\ k <= n
    <3> HIDE DEF n, D, k
    <3> QED
      BY <1>2, FS_Subset DEF D, k
  <2>2. k \in Nat /\ k # 0
    BY <2>1, FS_CardinalityType, FS_EmptySet
  <2> HIDE DEF k, n
  <2> QED
    BY <2>1, <2>2
<1>5. c \in Nat
  <2> HIDE DEF f
  <2> QED
    BY <1>3, <1>4, SumNat
<1>6. h \in 1..n /\ 2 * h >= n /\ 2 * h <= n + 1
  <2> HIDE DEF n, k
  <2> QED
    BY <1>1, <1>4, DoubledHalf
<1>7. ASSUME NEW H \in SUBSET D, Cardinality(H) = h PROVE H \in Halves(group) /\ SumOn(f, H) \in Nat
  <2>1. SumOn(f, H) \in Nat
    <3>1. IsFiniteSet(H) /\ \A x \in H : f[x] \in Nat
      <4> HIDE DEF f, D, h
      <4> QED
        BY <1>2, <1>3, FS_Subset
    <3> HIDE DEF f
    <3> QED
      BY <3>1, SumNat
  <2> QED
    BY <1>7, <2>1 DEF Halves, kSubset
<1>8. CASE 2 * k <= n
  <2>1. k <= h /\ h <= n /\ h \in Int
    <3> HIDE DEF k, n, h
    <3> QED
      BY <1>1, <1>4, <1>6, <1>8
  <2>2. h \in Cardinality(E)..Cardinality(D)
    <3>1. h \in k..n
      <4> HIDE DEF k, n, h
      <4> QED
        BY <1>1, <1>4, <2>1
    <3> HIDE DEF h, n, D
    <3> QED
      BY <1>2, <3>1 DEF k
  <2>3. PICK H \in SUBSET D : E \subseteq H /\ Cardinality(H) = h
    <3> HIDE DEF h, D
    <3> QED
      BY <1>2, <2>2, LargerPart DEF D
  <2>4. H \in Halves(group) /\ SumOn(f, H) \in Nat
    BY <1>7, <2>3
  <2>5. c <= SumOn(f, H)
    <3>1. IsFiniteSet(H) /\ \A x \in H : f[x] \in Nat
      <4> HIDE DEF f, D, h
      <4> QED
        BY <1>2, <1>3, FS_Subset
    <3> HIDE DEF f, h, D
    <3> QED
      BY <2>3, <3>1, SumOfPart
  <2>6. Split(k, n) = 2 * k
    <3> HIDE DEF k, n
    <3> QED
      BY <1>1, <1>4, <1>8 DEF Split, Least
  <2>7. (2 * k) * c <= (2 * k) * SumOn(f, H)
    <3> DEFINE a == 2 * k
               b == SumOn(f, H)
    <3>1. a \in Nat \ {0} /\ b \in Int /\ c \in Int /\ c <= b
      <4> HIDE DEF k, f, c
      <4> QED
        BY <1>4, <1>5, <2>4, <2>5
    <3> HIDE DEF a, b, c
    <3>2. a * c <= a * b
      BY <3>1, ProductOrder
    <3> QED
      BY <3>2 DEF a, b
  <2> HIDE DEF n, k, f
  <2>8. Split(k, n) * c <= (2 * k) * SumOn(f, H)
    BY <2>6, <2>7
  <2> QED
    BY <2>4, <2>8 DEF n, k, f
<1>9. CASE ~(2 * k <= n)
  <2>1. h \in 1..k
    <3> HIDE DEF k, n, h
    <3> QED
      BY <1>1, <1>4, <1>6, <1>9
  <2>2. \A x \in E : f[x] \in Nat
    BY <1>3
  <2>3. PICK H \in SUBSET E : Cardinality(H) = h /\ SumOn(f, H) * k >= h * c
    <3> HIDE DEF h, f
    <3> QED
      BY <1>4, <2>1, <2>2, DearPart DEF k, c
  <2>4. H \in Halves(group) /\ SumOn(f, H) \in Nat
    BY <1>7, <2>3
  <2>5. Split(k, n) = n
    <3> HIDE DEF k, n
    <3> QED
      BY <1>1, <1>4, <1>9 DEF Split, Least
  <2> DEFINE s == SumOn(f, H)
  <2>6. n * c <= (2 * k) * s
    <3> HIDE DEF n, k, c, s, h
    <3>1. s \in Nat /\ c \in Nat /\ h \in Nat /\ n \in Nat /\ k \in Nat
      BY <1>1, <1>4, <1>5, <1>6, <2>4 DEF s
    <3>2. \A a, b, d \in Nat : a <= b => a * d <= b * d
      OBVIOUS
    <3>3. n * c <= (2 * h) * c
      <4>1. 2 * h \in Nat /\ n <= 2 * h
        BY <1>6, <3>1
      <4> QED
        BY <3>1, <3>2, <4>1
    <3>4. (2 * h) * c = 2 * (h * c) /\ (2 * k) * s = 2 * (s * k)
      BY <3>1
    <3> DEFINE x == h * c
               y == s * k
               z == n * c
    <3>5. x \in Int /\ y \in Int /\ z \in Int /\ y >= x /\ z <= 2 * x
      BY <2>3, <3>1, <3>3, <3>4 DEF s
    <3> HIDE DEF x, y, z
    <3>6. z <= 2 * y
      BY <3>5
    <3> QED
      BY <3>4, <3>6 DEF y, z
  <2> HIDE DEF n, k, f
  <2>7. Split(k, n) * c <= (2 * k) * SumOn(f, H)
    BY <2>5, <2>6
  <2> QED
    BY <2>4, <2>7 DEF n, k, f
<1> QED
  BY <1>8, <1>9

(* The costliest half of a group costs what no other half exceeds, and no  *)
(* more than the group.                                                    *)
DearestOf(group) == Max({CostOf(Subsequence(group, half)) : half \in Halves(group)})
(* It is the greatest of them, and part of the whole.                      *)
LEMMA DearestFact ==
  ASSUME NEW group, Traffic(group), NEW H \in Halves(group)
  PROVE  /\ DearestOf(group) \in Nat
         /\ SumOn(Costs(group), H) <= DearestOf(group)
         /\ DearestOf(group) <= CostOf(group)
<1> DEFINE F == Halves(group)
           g == [half \in F |-> CostOf(Subsequence(group, half))]
           S == {g[half] : half \in F}
<1>1. F \in SUBSET (SUBSET DOMAIN group)
  BY DEF Halves, kSubset
<1>2. IsFiniteSet(DOMAIN group)
  BY CostFact
<1>3. IsFiniteSet(F)
  <2>1. IsFiniteSet(SUBSET DOMAIN group)
    BY <1>2, FS_SUBSET
  <2> HIDE DEF F
  <2> QED
    BY <1>1, <2>1, FS_Subset
<1>4. IsFiniteSet(S)
  <2> HIDE DEF F, g
  <2> QED
    BY <1>3, FiniteImage
<1>5. \A half \in F : /\ g[half] = SumOn(Costs(group), half)
                      /\ g[half] \in Nat /\ g[half] <= CostOf(group)
  <2> SUFFICES ASSUME NEW half \in F
               PROVE  /\ g[half] = SumOn(Costs(group), half)
                      /\ g[half] \in Nat /\ g[half] <= CostOf(group)
    OBVIOUS
  <2>1. half \in SUBSET DOMAIN group
    BY <1>1
  <2>2. g[half] = CostOf(Subsequence(group, half))
    OBVIOUS
  <2>3. g[half] = SumOn(Costs(group), half)
    BY <2>1, <2>2, SubsequenceCost
  <2>4. SumOn(Costs(group), half) \in Nat /\ SumOn(Costs(group), half) <= SumOn(Costs(group), DOMAIN group)
    BY <2>1, CostFact, SumOfPart
  <2> HIDE DEF g
  <2> QED
    BY <2>3, <2>4, CostFact
<1>6. S \in SUBSET Int /\ S # {}
  <2> HIDE DEF g
  <2> QED
    BY <1>5 DEF F
<1>7. Max(S) \in S /\ \A x \in S : x <= Max(S)
  <2> HIDE DEF S
  <2> QED
    BY <1>4, <1>6, MaxFact
<1>8. DearestOf(group) = Max(S)
  <2>1. S = {CostOf(Subsequence(group, half)) : half \in Halves(group)}
    OBVIOUS
  <2> HIDE DEF S
  <2> QED
    BY <2>1 DEF DearestOf
<1>9. PICK best \in F : Max(S) = g[best]
  BY <1>7
<1>10. g[H] \in S
  OBVIOUS
<1> HIDE DEF F, g, S
<1> QED
  BY <1>5, <1>7, <1>8, <1>9, <1>10 DEF F

(* What a recommendation of a cheaper model promises, in figures: saved on *)
(* the k of n requests that could move, of which split are taken twice,    *)
(* scaled to a month, against a half that costs at most top.               *)
LEMMA ScaledSaving ==
  ASSUME NEW saved \in Int, NEW part \in Nat, NEW split \in Nat, NEW k \in Nat \ {0}, NEW half \in Nat, NEW top \in Nat,
         saved <= part, split * part <= (2 * k) * half, half <= top
  PROVE  /\ RoundDiv(saved * split * 30, 2 * k * 14) \in Int
         /\ RoundDiv(saved * split * 30, 2 * k * 14) <= RoundDiv(top * 30, 14)
<1>1. saved * split <= split * part
  <2>1. part - saved \in Nat
    OBVIOUS
  <2>2. \A a, b \in Nat : a * b \in Nat
    OBVIOUS
  <2>3. (part - saved) * split \in Nat
    BY <2>1, <2>2
  <2>4. (part - saved) * split = split * part - saved * split /\ split * part \in Int /\ saved * split \in Int
    OBVIOUS
  <2> QED
    BY <2>3, <2>4
<1> DEFINE m == 2 * k
<1>2. m \in Nat \ {0}
  OBVIOUS
<1>3. m * half <= m * top
  <2> HIDE DEF m
  <2> QED
    BY <1>2, ProductOrder
<1> DEFINE a == saved * split
           b == split * part
           c == m * half
           d == m * top
<1>4. a \in Int /\ b \in Int /\ c \in Int /\ d \in Int /\ a <= b /\ b <= c /\ c <= d
  BY <1>1, <1>3
<1>5. a <= d /\ a * 30 <= d * 30
  <2> HIDE DEF a, b, c, d
  <2> QED
    BY <1>4
<1>6. (top * 30) * m = d * 30 /\ 2 * k * 14 = 14 * m /\ 14 * m \in Nat \ {0}
  OBVIOUS
<1>7. RoundDiv((top * 30) * m, 14 * m) = RoundDiv(top * 30, 14)
  <2> HIDE DEF m
  <2> QED
    BY <1>2, RoundScaled
<1> HIDE DEF m, a, d
<1>8. RoundDiv(a * 30, 14 * m) <= RoundDiv(d * 30, 14 * m) /\ RoundDiv(a * 30, 14 * m) \in Int
  <2> DEFINE x == a * 30
             y == d * 30
             z == 14 * m
  <2>1. x \in Int /\ y \in Int /\ x <= y /\ z \in Nat \ {0}
    BY <1>4, <1>5, <1>6
  <2> HIDE DEF x, y, z
  <2>2. RoundDiv(x, z) <= RoundDiv(y, z) /\ RoundDiv(x, z) \in Int
    BY <2>1, RoundMonotone, RoundIsInt
  <2> QED
    BY <2>2 DEF x, y, z
<1>9. saved * split * 30 = a * 30
  BY DEF a
<1> QED
  BY <1>6, <1>7, <1>8, <1>9

(* A cheaper model promises no more than half of the group costs, in a month.*)
LEMMA BuildCandidateFact ==
  ASSUME NEW group, Traffic(group), NEW from, NEW to, NEW window, NEW c \in BuildCandidate(group, from, to, window)
  PROVE  /\ c.kind = "model_cost" /\ c.source = from /\ c.window = window
         /\ c.savings \in Int /\ c.current \in Int
         /\ c.savings <= RoundDiv(DearestOf(group) * 30, 14) /\ c.savings <= c.current
<1> DEFINE whole == Len(group)
           traits == Traits[to]
           maxOutput == Least(traits.maxOutput, P90([i \in 1..whole |-> group[i].output]))
           E == {i \in 1..whole : Eligible(group[i], traits, maxOutput)}
           e == Subsequence(group, E)
           price == [i \in DOMAIN e |-> Calculate(to, e[i].input + e[i].output)]
           saved == CostOf(e) - Total(price)
           f == Costs(group)
           confidence == ModelCostConfidence(Len(e), whole, traits.provider = Traits[from].provider)
           savings == RoundDiv(saved * Split(Len(e), whole) * 30, 2 * Len(e) * 14)
<1>1. /\ ~(saved <= 0)
      /\ c = Finding("model_cost", from, to, from, savings, RoundDiv(CostOf(group) * 30, 14), confidence, window)
  BY DEF BuildCandidate
<1>2. c.kind = "model_cost" /\ c.source = from /\ c.window = window
      /\ c.savings = savings /\ c.current = RoundDiv(CostOf(group) * 30, 14)
  <2> HIDE DEF savings, confidence, saved
  <2> QED
    BY <1>1 DEF Finding
<1>3. DOMAIN group = 1..whole /\ whole \in Nat /\ E \in SUBSET DOMAIN group
  BY DEF Traffic, Readable
<1> HIDE DEF maxOutput, traits, confidence, E
<1>4. Traffic(e) /\ Len(e) = Cardinality(E) /\ Cardinality(E) \in Nat /\ IsFiniteSet(E)
  <2>1. Traffic(e)
    BY <1>3, SubsequenceTraffic
  <2>2. Len(e) = Cardinality(E) /\ Cardinality(E) \in Nat /\ IsFiniteSet(E)
    <3> HIDE DEF whole
    <3> QED
      BY <1>3, SubsequenceFact
  <2> QED
    BY <2>1, <2>2
<1>5. CostOf(e) = SumOn(f, E) /\ CostOf(e) \in Nat
  BY <1>3, <1>4, SubsequenceCost, CostFact
<1> HIDE DEF e
<1>6. Total(price) \in Nat
  <2>1. DOMAIN price = DOMAIN e
    OBVIOUS
  <2>2. IsFiniteSet(DOMAIN e)
    BY <1>4, CostFact
  <2>3. \A i \in DOMAIN e : price[i] \in Nat
    <3> SUFFICES ASSUME NEW i \in DOMAIN e PROVE price[i] \in Nat
      OBVIOUS
    <3>1. e[i].input \in Nat /\ e[i].output \in Nat
      BY <1>4 DEF Traffic, Readable
    <3>2. e[i].input + e[i].output \in Nat
      BY <3>1
    <3>3. Calculate(to, e[i].input + e[i].output) \in Nat
      BY <3>2, CalculateFact
    <3> QED
      BY <3>3
  <2> HIDE DEF price
  <2> QED
    BY <2>1, <2>2, <2>3, SumNat, TotalFact
<1> HIDE DEF price
<1>7. saved \in Int /\ saved > 0 /\ saved <= CostOf(e)
  BY <1>1, <1>5, <1>6
<1> HIDE DEF saved
<1>8. E # {}
  <2> SUFFICES ASSUME E = {} PROVE FALSE
    OBVIOUS
  <2>1. SumOn(f, E) = 0
    <3> HIDE DEF f
    <3> QED
      BY SumEmpty
  <2> QED
    BY <1>5, <1>7, <2>1
<1>9. PICK H \in Halves(group) :
        Split(Cardinality(E), whole) * SumOn(f, E) <= (2 * Cardinality(E)) * SumOn(f, H)
  BY <1>3, <1>8, HalfFact
<1> DEFINE k == Cardinality(E)
           half == SumOn(f, H)
           split == Split(k, whole)
           top == DearestOf(group)
<1>10. top \in Nat /\ half <= top /\ top <= CostOf(group)
  BY DearestFact
<1>11. half \in Nat
  <2>1. H \in SUBSET DOMAIN group
    BY DEF Halves, kSubset
  <2>2. \A x \in DOMAIN group : f[x] \in Nat
    BY CostFact
  <2>3. IsFiniteSet(DOMAIN group)
    BY CostFact
  <2> HIDE DEF f
  <2> QED
    BY <2>1, <2>2, <2>3, SumOfPart
<1>12. k \in Nat \ {0}
  BY <1>4, <1>8, FS_EmptySet
<1>13. split \in Nat
  <2> HIDE DEF k, whole
  <2> QED
    BY <1>3, <1>12 DEF Split, Least
<1>14. savings = RoundDiv(saved * split * 30, 2 * k * 14)
  BY <1>4
<1>15. split * CostOf(e) <= (2 * k) * half
  BY <1>5, <1>9
<1> HIDE DEF k, half, split, top, savings
<1>16. savings \in Int /\ savings <= RoundDiv(top * 30, 14)
  BY <1>5, <1>7, <1>10, <1>11, <1>12, <1>13, <1>14, <1>15, ScaledSaving
<1>17. CostOf(group) \in Nat
  BY CostFact
<1>18. /\ RoundDiv(top * 30, 14) <= RoundDiv(CostOf(group) * 30, 14)
       /\ RoundDiv(top * 30, 14) \in Int /\ RoundDiv(CostOf(group) * 30, 14) \in Int
  <2>1. top * 30 \in Int /\ CostOf(group) * 30 \in Int /\ top * 30 <= CostOf(group) * 30 /\ 14 \in Nat \ {0}
    BY <1>10, <1>17
  <2> QED
    BY <2>1, RoundMonotone, RoundIsInt
<1> DEFINE p == RoundDiv(top * 30, 14)
           q == RoundDiv(CostOf(group) * 30, 14)
<1>19. savings <= p /\ savings <= q /\ q \in Int /\ savings \in Int
  <2>1. savings \in Int /\ p \in Int /\ q \in Int /\ savings <= p /\ p <= q
    BY <1>16, <1>18
  <2> HIDE DEF p, q
  <2> QED
    BY <2>1
<1> QED
  BY <1>2, <1>19 DEF top

(* The rows of a window are traffic, and so are the served ones.           *)
LEMMA WindowTraffic ==
  ASSUME NEW w, Traffic(w.facts), NEW from, NEW to
  PROVE  Traffic(Between(w, from, to)) /\ Traffic(Served(w, from, to))
<1>1. Traffic(Between(w, from, to))
  <2>1. {i \in DOMAIN w.facts : w.facts[i].at >= from /\ w.facts[i].at < to} \in SUBSET DOMAIN w.facts
    OBVIOUS
  <2> QED
    BY <2>1, SubsequenceTraffic DEF Between
<1> DEFINE facts == Between(w, from, to)
<1>2. Traffic(Served(w, from, to))
  <2>1. {i \in DOMAIN facts : facts[i].status = "ok"} \in SUBSET DOMAIN facts
    OBVIOUS
  <2>2. Served(w, from, to) = Subsequence(facts, {i \in DOMAIN facts : facts[i].status = "ok"})
    BY DEF Served, Ok
  <2> HIDE DEF facts
  <2> QED
    BY <1>1, <2>1, <2>2, SubsequenceTraffic DEF facts
<1> QED
  BY <1>1, <1>2

(* So are those of a model, and those with a cache key.                    *)
LEMMA GroupTraffic ==
  ASSUME NEW facts, Traffic(facts), NEW model
  PROVE  Traffic(Group(facts, model)) /\ Traffic(Keyed(facts))
<1>1. /\ {i \in DOMAIN facts : facts[i].known /\ facts[i].asked = model} \in SUBSET DOMAIN facts
      /\ {i \in DOMAIN facts : facts[i].known /\ facts[i].key # NoKey} \in SUBSET DOMAIN facts
  OBVIOUS
<1>2. Traffic(Group(facts, model))
  BY <1>1, SubsequenceTraffic DEF Group
<1>3. Traffic(Keyed(facts))
  BY <1>1, SubsequenceTraffic DEF Keyed
<1> QED
  BY <1>2, <1>3

(* What a detector adds at once is finite.                                 *)
LEMMA AtMostOne == ASSUME NEW x, NEW S \in {{}, {x}} PROVE IsFiniteSet(S)
<1>1. IsFiniteSet({x})
  BY FS_Singleton
<1>2. IsFiniteSet({})
  BY FS_EmptySet
<1> QED
  BY <1>1, <1>2

(* A recommendation to move from a model to another, or none.              *)
LEMMA AtMostOneCandidate ==
  ASSUME NEW group, NEW from, NEW to, NEW window
  PROVE  IsFiniteSet(BuildCandidate(group, from, to, window))
<1> DEFINE traits == Traits[to]
           whole == Len(group)
           maxOutput == Least(traits.maxOutput, P90([i \in 1..whole |-> group[i].output]))
           e == Subsequence(group, {i \in 1..whole : Eligible(group[i], traits, maxOutput)})
           saved == CostOf(e) - Total([i \in DOMAIN e |-> Calculate(to, e[i].input + e[i].output)])
           found == Finding("model_cost", from, to, from,
                      RoundDiv(saved * Split(Len(e), whole) * 30, 2 * Len(e) * 14),
                      RoundDiv(CostOf(group) * 30, 14),
                      ModelCostConfidence(Len(e), whole, traits.provider = Traits[from].provider), window)
           refused == ~AtLeast(Len(e), 3, 10, whole) \/ saved <= 0
<1>1. BuildCandidate(group, from, to, window) = IF refused THEN {} ELSE {found}
  BY DEF BuildCandidate
<1> HIDE DEF traits, whole, maxOutput, e, saved, found, refused
<1>2. BuildCandidate(group, from, to, window) \in {{}, {found}}
  BY <1>1
<1> QED
  BY <1>2, AtMostOne

(* Unions over a finite set.                                               *)
LEMMA FiniteUnion ==
  ASSUME NEW S, IsFiniteSet(S), NEW f, \A x \in S : IsFiniteSet(f[x])
  PROVE  IsFiniteSet(UNION {f[x] : x \in S})
<1> DEFINE F == {f[x] : x \in S}
<1>1. IsFiniteSet(F)
  BY FiniteImage
<1>2. \A T \in F : IsFiniteSet(T)
  OBVIOUS
<1> HIDE DEF F
<1>3. IsFiniteSet(UNION F)
  BY <1>1, <1>2, FS_UNION
<1> QED
  BY <1>3 DEF F

-----------------------------------------------------------------------------
(* What a candidate of each detector promises.                             *)

HalfOf(w, c) == DearestOf(Group(Served(w, c.window[1], c.window[2]), c.source))
Honest(w, c) ==
  /\ c.savings \in Int
  /\ c.kind # "traffic_anomaly" => c.current \in Int /\ c.savings <= c.current
  /\ c.kind = "model_cost" => c.savings <= RoundDiv(HalfOf(w, c) * 30, 14)
AreHonest(w, cs) == IsFiniteSet(cs) /\ \A c \in cs : Honest(w, c)

(* DetectModelCost.                                                        *)
LEMMA ModelCostIsHonest ==
  ASSUME NEW w, Traffic(w.facts), NEW hour
  PROVE  AreHonest(w, DetectModelCost(w, hour))
<1> DEFINE window == <<DaysBefore(hour, 14), hour>>
           facts == Served(w, window[1], window[2])
           D == {x \in DOMAIN Downgrades : Group(facts, x) # <<>>}
           built == [m \in D |-> [c \in Downgrades[m] |-> BuildCandidate(Group(facts, m), m, c, window)]]
           all == [m \in D |-> UNION {built[m][c] : c \in Downgrades[m]}]
<1>1. DetectModelCost(w, hour) = UNION {all[m] : m \in D}
  <2>1. \A m \in D : all[m] = UNION {BuildCandidate(Group(facts, m), m, c, window) : c \in Downgrades[m]}
    OBVIOUS
  <2>2. DetectModelCost(w, hour)
          = UNION {UNION {BuildCandidate(Group(facts, m), m, c, window) : c \in Downgrades[m]} : m \in D}
    BY DEF DetectModelCost
  <2> HIDE DEF all
  <2> QED
    BY <2>1, <2>2
<1>2. Traffic(facts) /\ \A m : Traffic(Group(facts, m))
  BY WindowTraffic, GroupTraffic
<1>3. \A m \in D : \A c \in Downgrades[m] : built[m][c] = BuildCandidate(Group(facts, m), m, c, window)
  OBVIOUS
<1>4. \A m \in D : all[m] = UNION {built[m][c] : c \in Downgrades[m]}
  OBVIOUS
<1>5. IsFiniteSet(D)
  <2>1. IsFiniteSet(DOMAIN Downgrades) /\ D \in SUBSET DOMAIN Downgrades
    BY FindingsAssumption
  <2> HIDE DEF D
  <2> QED
    BY <2>1, FS_Subset
<1> HIDE DEF built
<1>6. \A m \in D : IsFiniteSet(all[m])
  <2> SUFFICES ASSUME NEW m \in D PROVE IsFiniteSet(all[m])
    OBVIOUS
  <2>1. IsFiniteSet(Downgrades[m])
    BY FindingsAssumption
  <2> DEFINE row == built[m]
  <2>2. \A c \in Downgrades[m] : IsFiniteSet(row[c])
    <3> SUFFICES ASSUME NEW c \in Downgrades[m] PROVE IsFiniteSet(row[c])
      OBVIOUS
    <3>1. row[c] = BuildCandidate(Group(facts, m), m, c, window)
      BY <1>3
    <3> HIDE DEF row
    <3> QED
      BY <3>1, AtMostOneCandidate
  <2> HIDE DEF row
  <2>3. IsFiniteSet(UNION {row[c] : c \in Downgrades[m]})
    BY <2>1, <2>2, FiniteUnion
  <2> QED
    BY <1>4, <2>3 DEF row
<1>7. IsFiniteSet(UNION {all[m] : m \in D})
  <2> HIDE DEF all, D
  <2> QED
    BY <1>5, <1>6, FiniteUnion
<1>8. ASSUME NEW c \in UNION {all[m] : m \in D} PROVE Honest(w, c)
  <2>1. PICK m \in D : c \in all[m]
    OBVIOUS
  <2>2. PICK to \in Downgrades[m] : c \in built[m][to]
    BY <1>4, <2>1
  <2>3. c \in BuildCandidate(Group(facts, m), m, to, window)
    BY <1>3, <2>2
  <2> DEFINE group == Group(facts, m)
  <2>4. Traffic(group)
    BY <1>2
  <2> HIDE DEF group
  <2>5. /\ c.kind = "model_cost" /\ c.source = m /\ c.window = window
        /\ c.savings \in Int /\ c.current \in Int
        /\ c.savings <= RoundDiv(DearestOf(group) * 30, 14) /\ c.savings <= c.current
    <3>1. c \in BuildCandidate(group, m, to, window)
      BY <2>3 DEF group
    <3> HIDE DEF window
    <3> QED
      BY <2>4, <3>1, BuildCandidateFact
  <2>6. HalfOf(w, c) = DearestOf(group)
    BY <2>5 DEF HalfOf, group
  <2> QED
    BY <2>5, <2>6 DEF Honest
<1> QED
  BY <1>1, <1>7, <1>8 DEF AreHonest

(* A cache in front of the repeats saves no more than they cost.           *)
LEMMA SweepFact ==
  ASSUME NEW facts, Traffic(facts), NEW ttl \in Int
  PROVE  SweepSaving(facts, ttl) \in Int /\ SweepSaving(facts, ttl) <= RoundDiv(CostOf(facts) * 30, 7)
<1> DEFINE scenario == [ttl |-> ttl, entries |-> 0]
           r == SimulateCaching(facts, scenario)
           left == [i \in DOMAIN facts |-> IF i \in r.hits THEN 0 ELSE facts[i].cost]
           cost == CostOf(facts)
           rest == r.simulated
<1>1. scenario.ttl \in Int /\ scenario.entries \in Nat /\ Readable(facts)
  BY DEF Traffic
<1>2. rest = Total(left) /\ rest \in Int
  <2> HIDE DEF scenario
  <2> QED
    BY <1>1, CacheFact
<1> HIDE DEF r
<1>3. rest \in Nat
  <2>1. DOMAIN left = DOMAIN facts /\ IsFiniteSet(DOMAIN facts)
    BY CostFact
  <2>2. \A i \in DOMAIN facts : left[i] \in Nat
    BY DEF Traffic, Readable
  <2> HIDE DEF left
  <2>3. Total(left) \in Nat
    BY <2>1, <2>2, SumNat, TotalFact
  <2> QED
    BY <1>2, <2>3
<1>4. cost \in Nat
  BY CostFact
<1>5. SweepSaving(facts, ttl) = RoundDiv((cost - rest) * 9 * 30, 70)
  BY DEF SweepSaving, r
<1> HIDE DEF cost, rest
<1>6. /\ (cost - rest) * 9 * 30 \in Int /\ (cost * 30) * 10 \in Int /\ cost * 30 \in Int
      /\ (cost - rest) * 9 * 30 <= (cost * 30) * 10 /\ 70 = 7 * 10
  BY <1>3, <1>4
<1>7. RoundDiv((cost * 30) * 10, 70) = RoundDiv(cost * 30, 7)
  <2>1. 7 \in Nat \ {0} /\ 10 \in Nat \ {0} /\ cost * 30 \in Int
    BY <1>6
  <2>2. RoundDiv((cost * 30) * 10, 7 * 10) = RoundDiv(cost * 30, 7)
    BY <2>1, RoundScaled
  <2> QED
    BY <1>6, <2>2
<1>8. /\ RoundDiv((cost - rest) * 9 * 30, 70) \in Int
      /\ RoundDiv((cost - rest) * 9 * 30, 70) <= RoundDiv((cost * 30) * 10, 70)
  <2>1. 70 \in Nat \ {0}
    OBVIOUS
  <2> DEFINE x == (cost - rest) * 9 * 30
             y == (cost * 30) * 10
  <2>2. x \in Int /\ y \in Int /\ x <= y
    BY <1>6
  <2> HIDE DEF x, y
  <2>3. RoundDiv(x, 70) \in Int /\ RoundDiv(x, 70) <= RoundDiv(y, 70)
    BY <2>1, <2>2, RoundMonotone, RoundIsInt
  <2> QED
    BY <2>3 DEF x, y
<1> QED
  BY <1>5, <1>7, <1>8 DEF cost

(* DetectRepeatedRequest: the costs of the hits are part of the costs.     *)
LEMMA RepeatedIsHonest ==
  ASSUME NEW w, Traffic(w.facts), NEW hour
  PROVE  AreHonest(w, DetectRepeatedRequest(w, hour))
<1> DEFINE window == <<DaysBefore(hour, 7), hour>>
           known == Keyed(Served(w, window[1], window[2]))
           repeats == Cardinality({i \in DOMAIN known : Before(known, i) # {}})
           saving == Max({SweepSaving(known, ttl) : ttl \in TTLs})
           confidence == Tier(AtLeast(repeats, 15, 100, Len(known)) /\ Len(known) >= Samples.high,
                              AtLeast(repeats, 8, 100, Len(known)) /\ Len(known) >= Samples.medium)
           c == Finding("repeated_request", "", "", NoKey, saving, RoundDiv(CostOf(known) * 30, 7), confidence, window)
<1>1. DetectRepeatedRequest(w, hour) \in {{}, {c}}
  BY DEF DetectRepeatedRequest
<1>2. Traffic(known)
  BY WindowTraffic, GroupTraffic
<1>3. c.kind = "repeated_request" /\ c.savings = saving /\ c.current = RoundDiv(CostOf(known) * 30, 7)
  <2> HIDE DEF saving, confidence, known
  <2> QED
    BY DEF Finding
<1> HIDE DEF known, confidence, c
<1> DEFINE f == [ttl \in TTLs |-> SweepSaving(known, ttl)]
           S == {f[ttl] : ttl \in TTLs}
<1>4. \A ttl \in TTLs : f[ttl] \in Int /\ f[ttl] <= RoundDiv(CostOf(known) * 30, 7)
  BY <1>2, SweepFact, FindingsAssumption
<1>5. S = {SweepSaving(known, ttl) : ttl \in TTLs}
  OBVIOUS
<1> HIDE DEF f
<1>6. IsFiniteSet(S)
  BY FiniteImage, FindingsAssumption
<1>7. S \in SUBSET Int /\ S # {} /\ \A s \in S : s <= RoundDiv(CostOf(known) * 30, 7)
  BY <1>4, FindingsAssumption
<1> HIDE DEF S
<1>8. Max(S) \in S
  BY <1>6, <1>7, MaxFact
<1>9. saving \in Int /\ saving <= RoundDiv(CostOf(known) * 30, 7)
  BY <1>5, <1>7, <1>8
<1> HIDE DEF saving
<1>10. RoundDiv(CostOf(known) * 30, 7) \in Int
  <2>1. CostOf(known) * 30 \in Int /\ 7 \in Nat \ {0}
    BY <1>2, CostFact
  <2> QED
    BY <2>1, RoundIsInt
<1>11. Honest(w, c)
  BY <1>3, <1>9, <1>10 DEF Honest
<1>12. IsFiniteSet(DetectRepeatedRequest(w, hour))
  BY <1>1, AtMostOne
<1>13. \A x \in DetectRepeatedRequest(w, hour) : x = c
  BY <1>1
<1> QED
  BY <1>11, <1>12, <1>13 DEF AreHonest

-----------------------------------------------------------------------------
(* Daily totals.                                                           *)

Daily(days) ==
  /\ Len(days) \in Nat /\ DOMAIN days = 1..Len(days)
  /\ \A i \in 1..Len(days) : days[i].requests \in Nat /\ days[i].input \in Nat /\ days[i].output \in Nat

(* What the days add up to.                                                *)
LEMMA DayTotal ==
  ASSUME NEW days, Daily(days), NEW model, NEW from, NEW to, NEW field \in {"requests", "input", "output"}
  PROVE  Total([i \in DOMAIN days |->
           IF days[i].model = model /\ days[i].day \in from..to-1 THEN days[i][field] ELSE 0]) \in Nat
<1> DEFINE f == [i \in DOMAIN days |->
             IF days[i].model = model /\ days[i].day \in from..to-1 THEN days[i][field] ELSE 0]
<1>1. DOMAIN days = 1..Len(days) /\ Len(days) \in Nat
  BY DEF Daily
<1>2. \A i \in DOMAIN days : days[i][field] \in Nat
  BY <1>1 DEF Daily
<1>3. \A i \in DOMAIN days : f[i] \in Nat
  BY <1>2
<1>4. DOMAIN f = DOMAIN days /\ IsFiniteSet(DOMAIN days)
  BY <1>1, FS_Interval
<1>5. Total(f) \in Nat
  <2> HIDE DEF f
  <2> QED
    BY <1>3, <1>4, SumNat, TotalFact
<1> QED
  BY <1>5

(* Tokens that were not grown are paid for too.                            *)
LEMMA GrownWithinSpent ==
  ASSUME NEW r \in Nat \ {0}, NEW n \in Nat, NEW u \in Nat, NEW t \in Nat, NEW price \in Nat
  PROVE  LET savings == RoundDiv((u * r - t * n) * price * 30, r * 7)
             current == RoundDiv(u * price * 30, 7)
         IN savings \in Int /\ current \in Int /\ savings <= current
<1> DEFINE grown == u * r - t * n
           x == u * price * 30
           y == grown * price * 30
<1>1. grown \in Int /\ grown <= u * r /\ u * r \in Nat /\ x \in Int
  <2>1. u * r \in Nat /\ t * n \in Nat /\ u * price \in Nat
    <3>1. \A a, b \in Nat : a * b \in Nat
      OBVIOUS
    <3> QED
      BY <3>1
  <2> QED
    BY <2>1
<1>2. y \in Int /\ y <= x * r
  <2>1. grown * price <= (u * r) * price
    <3>1. \A d \in Nat, a, b \in Int : a <= b => a * d <= b * d
      <4> SUFFICES ASSUME NEW d \in Nat, NEW a \in Int, NEW b \in Int, a <= b PROVE a * d <= b * d
        OBVIOUS
      <4>1. (b - a) * d \in Nat
        <5>1. \A p, q \in Nat : p * q \in Nat
          OBVIOUS
        <5>2. b - a \in Nat
          OBVIOUS
        <5> QED
          BY <5>1, <5>2
      <4>2. (b - a) * d = b * d - a * d /\ a * d \in Int /\ b * d \in Int
        OBVIOUS
      <4> QED
        BY <4>1, <4>2
    <3> HIDE DEF grown
    <3>2. u * r \in Int
      BY <1>1
    <3> QED
      BY <1>1, <3>1, <3>2
  <2>2. (u * r) * price = (u * price) * r /\ grown * price \in Int /\ (u * price) * r \in Int
    <3> HIDE DEF grown
    <3> QED
      BY <1>1
  <2> DEFINE a == grown * price
             b == (u * price) * r
  <2>3. a \in Int /\ b \in Int /\ a <= b
    BY <2>1, <2>2
  <2>4. x * r = b * 30 /\ y = a * 30
    <3> HIDE DEF grown
    <3> QED
      OBVIOUS
  <2> HIDE DEF a, b, x, y
  <2> QED
    BY <2>3, <2>4
<1> HIDE DEF x, y, grown
<1>3. 7 * r \in Nat \ {0} /\ x * r \in Int /\ r * 7 = 7 * r /\ 7 \in Nat \ {0}
  BY <1>1
<1>4. RoundDiv(x * r, 7 * r) = RoundDiv(x, 7) /\ RoundDiv(x, 7) \in Int
  BY <1>1, <1>3, RoundScaled, RoundIsInt
<1>5. RoundDiv(y, 7 * r) <= RoundDiv(x * r, 7 * r) /\ RoundDiv(y, 7 * r) \in Int
  <2> DEFINE z == x * r
             d == 7 * r
  <2>1. z \in Int /\ d \in Nat \ {0} /\ y \in Int /\ y <= z
    BY <1>2, <1>3
  <2> HIDE DEF z, d
  <2>2. RoundDiv(y, d) <= RoundDiv(z, d) /\ RoundDiv(y, d) \in Int
    BY <2>1, RoundMonotone, RoundIsInt
  <2> QED
    BY <2>2 DEF z, d
<1> QED
  BY <1>3, <1>4, <1>5 DEF x, y, grown

(* DriftCandidate: the growth is part of what was spent.                   *)
LEMMA DriftFact ==
  ASSUME NEW w, NEW model, NEW dimension, NEW num, NEW base, NEW cur, NEW window,
         base.tokens \in Nat, base.requests \in Nat, cur.tokens \in Nat, cur.requests \in Nat,
         base.requests >= TokenFloor
  PROVE  AreHonest(w, DriftCandidate(model, dimension, num, base, cur, window))
<1> DEFINE grown == cur.tokens * base.requests - base.tokens * cur.requests
           was == base.tokens * cur.requests
           price == UnitPrice[model]
           confidence == Tier(2 * grown >= was /\ cur.requests >= Samples.high,
                              10 * grown >= 3 * was /\ cur.requests >= Samples.medium)
           savings == RoundDiv(grown * price * 30, base.requests * 7)
           current == RoundDiv(cur.tokens * price * 30, 7)
           c == Finding("token_efficiency", model, dimension, model, savings, current, confidence, window)
<1>1. DriftCandidate(model, dimension, num, base, cur, window) \in {{}, {c}}
  BY DEF DriftCandidate
<1>2. model \notin DOMAIN UnitPrice => DriftCandidate(model, dimension, num, base, cur, window) = {}
  BY DEF DriftCandidate
<1>3. c.kind = "token_efficiency" /\ c.savings = savings /\ c.current = current
  <2> HIDE DEF savings, current, confidence
  <2> QED
    BY DEF Finding
<1>4. ASSUME model \in DOMAIN UnitPrice PROVE savings \in Int /\ current \in Int /\ savings <= current
  <2> DEFINE r == base.requests
             n == cur.requests
             u == cur.tokens
             t == base.tokens
  <2>1. r \in Nat \ {0} /\ n \in Nat /\ u \in Nat /\ t \in Nat /\ price \in Nat
    BY <1>4, FindingsAssumption, ReplayAssumption
  <2>2. savings = RoundDiv((u * r - t * n) * price * 30, r * 7) /\ current = RoundDiv(u * price * 30, 7)
    OBVIOUS
  <2> HIDE DEF r, n, u, t, price, savings, current
  <2> QED
    BY <2>1, <2>2, GrownWithinSpent
<1> HIDE DEF savings, current, c
<1>5. model \in DOMAIN UnitPrice => Honest(w, c)
  BY <1>3, <1>4 DEF Honest
<1>6. IsFiniteSet(DriftCandidate(model, dimension, num, base, cur, window))
  BY <1>1, AtMostOne
<1> QED
  BY <1>1, <1>2, <1>5, <1>6 DEF AreHonest

(* Candidates side by side.                                                *)
LEMMA UnionIsHonest ==
  ASSUME NEW w, NEW A, NEW B, AreHonest(w, A), AreHonest(w, B)
  PROVE  AreHonest(w, A \cup B)
<1>1. IsFiniteSet(A \cup B)
  BY FS_Union DEF AreHonest
<1> QED
  BY <1>1 DEF AreHonest

(* DetectTokenEfficiency.                                                  *)
LEMMA TokensAreHonest ==
  ASSUME NEW w, Daily(w.days), NEW today
  PROVE  AreHonest(w, DetectTokenEfficiency(w, today))
<1> DEFINE sum(model, field, from, to) ==
             Total([i \in DOMAIN w.days |->
               IF w.days[i].model = model /\ w.days[i].day \in from..to-1 THEN w.days[i][field] ELSE 0])
           in(model, field, from, to) ==
             [requests |-> sum(model, "requests", from, to), tokens |-> sum(model, field, from, to)]
           base(m, field) == in(m, field, today - 35, today - 7)
           cur(m, field) == in(m, field, today - 7, today)
           listed == {w.days[i].model : i \in DOMAIN w.days}
           models == {m \in listed : base(m, "input").requests >= TokenFloor /\ cur(m, "input").requests >= TokenFloor}
           window == <<(today - 35) * DayLength, today * DayLength>>
           drifts(m) == DriftCandidate(m, "input", 25, base(m, "input"), cur(m, "input"), window)
                        \cup DriftCandidate(m, "output", 35, base(m, "output"), cur(m, "output"), window)
           all == [m \in models |-> drifts(m)]
<1>1. DetectTokenEfficiency(w, today) = UNION {all[m] : m \in models}
  <2>1. DetectTokenEfficiency(w, today) = UNION {drifts(m) : m \in models}
    BY DEF DetectTokenEfficiency
  <2> HIDE DEF drifts, models
  <2> QED
    BY <2>1
<1>2. \A m, from, to : \A field \in {"requests", "input", "output"} : sum(m, field, from, to) \in Nat
  BY DayTotal
<1>3. ASSUME NEW m \in models PROVE AreHonest(w, drifts(m))
  <2>1. \A field \in {"input", "output"} :
          /\ base(m, field).requests \in Nat /\ base(m, field).tokens \in Nat
          /\ cur(m, field).requests \in Nat /\ cur(m, field).tokens \in Nat
          /\ base(m, field).requests = base(m, "input").requests
    <3> HIDE DEF sum
    <3> QED
      BY <1>2
  <2>2. base(m, "input").requests >= TokenFloor
    OBVIOUS
  <2> HIDE DEF base, cur, window
  <2>3. base(m, "output").requests >= TokenFloor
    BY <2>1, <2>2
  <2>4. /\ AreHonest(w, DriftCandidate(m, "input", 25, base(m, "input"), cur(m, "input"), window))
        /\ AreHonest(w, DriftCandidate(m, "output", 35, base(m, "output"), cur(m, "output"), window))
    BY <2>1, <2>2, <2>3, DriftFact
  <2> QED
    BY <2>4, UnionIsHonest
<1>4. IsFiniteSet(models)
  <2>1. IsFiniteSet(DOMAIN w.days)
    BY FS_Interval DEF Daily
  <2> DEFINE f == [i \in DOMAIN w.days |-> w.days[i].model]
  <2>2. listed = {f[i] : i \in DOMAIN w.days}
    OBVIOUS
  <2>3. IsFiniteSet({f[i] : i \in DOMAIN w.days})
    <3> HIDE DEF f
    <3> QED
      BY <2>1, FiniteImage
  <2>4. models \in SUBSET listed
    OBVIOUS
  <2> HIDE DEF listed, models, f
  <2> QED
    BY <2>2, <2>3, <2>4, FS_Subset
<1> HIDE DEF drifts, models
<1>5. \A m \in models : AreHonest(w, all[m])
  BY <1>3
<1> HIDE DEF all
<1>6. IsFiniteSet(UNION {all[m] : m \in models})
  <2>1. \A m \in models : IsFiniteSet(all[m])
    BY <1>5 DEF AreHonest
  <2> QED
    BY <1>4, <2>1, FiniteUnion
<1>7. \A c \in UNION {all[m] : m \in models} : Honest(w, c)
  BY <1>5 DEF AreHonest
<1> QED
  BY <1>1, <1>6, <1>7 DEF AreHonest

(* DetectTrafficAnomaly promises nothing but a number of dollars.          *)
LEMMA AnomaliesAreHonest ==
  ASSUME NEW w, NEW hour \in Int
  PROVE  AreHonest(w, DetectTrafficAnomaly(w, hour))
<1> DEFINE H == (hour - Evaluation)..(hour - 1)
           evaluated == [h \in H |-> Evaluate(w, hour, h)]
           results == {evaluated[h] : h \in H}
           odd == {x \in results : x.z > 350}
           at == [r \in odd |-> r.hour]
           hours == {at[r] : r \in odd}
           report == [span \in Spans(hours) |-> Report({r \in results : r.hour \in span[1]..span[2]}, span)]
           found == {report[span] : span \in Spans(hours)}
<1>1. DetectTrafficAnomaly(w, hour) \in {{}, found}
  <2>1. DetectTrafficAnomaly(w, hour) \in {{}, Anomalies({Evaluate(w, hour, h) : h \in H})}
    BY DEF DetectTrafficAnomaly
  <2>2. {Evaluate(w, hour, h) : h \in H} = results
    OBVIOUS
  <2> HIDE DEF results
  <2>3. hours = {r.hour : r \in odd}
    OBVIOUS
  <2>4. Anomalies(results) = {Report({r \in results : r.hour \in span[1]..span[2]}, span) : span \in Spans({r.hour : r \in odd})}
    BY DEF Anomalies
  <2>5. found = {Report({r \in results : r.hour \in span[1]..span[2]}, span) : span \in Spans(hours)}
    OBVIOUS
  <2>6. Anomalies(results) = found
    <3> HIDE DEF hours, odd, found
    <3> QED
      BY <2>3, <2>4, <2>5
  <2> QED
    BY <2>1, <2>2, <2>6
<1>2. IsFiniteSet(results)
  <2>1. hour - Evaluation \in Int /\ hour - 1 \in Int
    BY FindingsAssumption
  <2>2. IsFiniteSet(H)
    BY <2>1, FS_Interval
  <2> HIDE DEF H, evaluated
  <2> QED
    BY <2>2, FiniteImage
<1> HIDE DEF results
<1>3. IsFiniteSet(odd)
  BY <1>2, FS_Subset
<1>4. IsFiniteSet(hours)
  <2> HIDE DEF odd, at
  <2> QED
    BY <1>3, FiniteImage
<1> HIDE DEF hours
<1>5. IsFiniteSet(Spans(hours))
  <2>1. IsFiniteSet(hours \X hours)
    BY <1>4, FS_Product
  <2>2. Spans(hours) \in SUBSET (hours \X hours)
    BY DEF Spans
  <2> QED
    BY <2>1, <2>2, FS_Subset
<1>6. IsFiniteSet(found)
  <2> HIDE DEF report
  <2> QED
    BY <1>5, FiniteImage
<1>7. ASSUME NEW c \in found PROVE Honest(w, c)
  <2>1. PICK span \in Spans(hours) : c = Report({r \in results : r.hour \in span[1]..span[2]}, span)
    OBVIOUS
  <2>2. c.kind = "traffic_anomaly" /\ c.savings = 0
    BY <2>1 DEF Report, Anomaly, Finding
  <2> QED
    BY <2>2 DEF Honest
<1>8. IsFiniteSet({})
  BY FS_EmptySet
<1> HIDE DEF found
<1> QED
  BY <1>1, <1>6, <1>7, <1>8 DEF AreHonest

(* A finite set listed in some order.                                      *)
LEMMA ListFact ==
  ASSUME NEW S, IsFiniteSet(S)
  PROVE  SetToSeq(S) \in Seq(S) /\ Cardinality(S) \in Nat /\ SetToSeq(S) \in [1..Cardinality(S) -> S]
<1>1. Cardinality(S) \in Nat /\ ExistsBijection(1..Cardinality(S), S)
  BY FS_CardinalityType
<1>2. \E f \in [1..Cardinality(S) -> S] : IsInjective(f)
  BY <1>1 DEF ExistsBijection, Bijection, Injection
<1>3. SetToSeq(S) \in [1..Cardinality(S) -> S]
  BY <1>2 DEF SetToSeq
<1> QED
  BY <1>1, <1>3

-----------------------------------------------------------------------------
(* Floors, ranking and cap keep only what the detectors have found.        *)

Kept(w, c) == Honest(w, c) /\ CandidateMeetsSavingsFloor(c)

(* A rank is a number.                                                     *)
LEMMA RankIsInt == ASSUME NEW c, c.savings \in Int PROVE Rank(c) \in Int
<1>1. ScoreOf(c.confidence) \in {10, 6, 3}
  BY DEF ScoreOf
<1> QED
  BY <1>1 DEF Rank

(* Ranking and capping add no candidate.                                   *)
LEMMA RankAndCapFact ==
  ASSUME NEW S, NEW seq \in Seq(S), \A c \in S : c.savings \in Int
  PROVE  RankAndCap(seq) \in Seq(S)
<1> DEFINE D == DOMAIN seq
           n == Len(seq)
           R == {q \in D \X D : Ahead(seq, q[1], q[2])}
           ahead == [i \in D |-> Cardinality({j \in D : Ahead(seq, j, i)})]
           m == Least(n, MaxOpen)
           p == [k \in 1..m |-> CHOOSE i \in D : ahead[i] = k - 1]
<1>1. n \in Nat /\ D = 1..n /\ \A i \in D : seq[i] \in S
  OBVIOUS
<1>2. IsFiniteSet(D) /\ Cardinality(D) = n
  <2>1. IsFiniteSet(1..n) /\ Cardinality(1..n) = n
    <3> HIDE DEF n
    <3> QED
      BY <1>1, FS_Interval
  <2> QED
    BY <1>1, <2>1
<1>3. Orders(R, D)
  <2>1. \A i \in D : Rank(seq[i]) \in Int
    BY <1>1, RankIsInt
  <2> DEFINE rank == [i \in D |-> Rank(seq[i])]
  <2>2. \A i, j \in D : Ahead(seq, j, i) <=> rank[j] > rank[i] \/ (rank[j] = rank[i] /\ j < i)
    BY DEF Ahead
  <2>3. \A i \in D : rank[i] \in Int /\ i \in Int
    BY <1>1, <2>1
  <2> HIDE DEF rank, D
  <2>4. \A i, j \in D : <<i, j>> \in R <=> rank[i] > rank[j] \/ (rank[i] = rank[j] /\ i < j)
    BY <2>2
  <2> HIDE DEF R
  <2> QED
    BY <2>3, <2>4 DEF Orders
<1>4. Counts(ahead, R, D)
  <2>1. ASSUME NEW i \in D PROVE {j \in D : <<j, i>> \in R} = {j \in D : Ahead(seq, j, i)}
    OBVIOUS
  <2> HIDE DEF R, D
  <2> QED
    BY <2>1 DEF Counts
<1>5. Numbers(ahead, D)
  <2> HIDE DEF ahead, R, D
  <2> QED
    BY <1>2, <1>3, <1>4, CountsAreNumbers
<1>6. m \in Nat /\ m <= n
  <2>1. MaxOpen \in Nat
    BY FindingsAssumption
  <2> HIDE DEF n
  <2> QED
    BY <1>1, <2>1 DEF Least
<1>7. \A k \in 1..m : p[k] \in D
  <2> HIDE DEF ahead, m, n, D
  <2> SUFFICES ASSUME NEW k \in 1..m PROVE p[k] \in D
    OBVIOUS
  <2>1. k - 1 \in 0..Cardinality(D)-1
    BY <1>1, <1>2, <1>6
  <2>2. \E i \in D : ahead[i] = k - 1
    BY <1>5, <2>1 DEF Numbers
  <2> QED
    BY <2>2
<1>8. RankAndCap(seq) = [k \in 1..m |-> seq[p[k]]]
  <2>1. RankAndCap(seq) = [k \in 1..m |-> seq[CHOOSE i \in D : ahead[i] = k - 1]]
    BY DEF RankAndCap
  <2> HIDE DEF ahead, m, D
  <2> QED
    BY <2>1
<1> HIDE DEF p, m, D
<1>9. \A k \in 1..m : seq[p[k]] \in S
  BY <1>1, <1>7
<1> QED
  BY <1>6, <1>8, <1>9

Sourced(w) == Traffic(w.facts) /\ Daily(w.days)

(* What a run of the detectors stores.                                     *)
LEMMA SurvivorsFact ==
  ASSUME NEW w, Sourced(w), NEW hour \in Int
  PROVE  \E S : Survivors(w, hour) \in Seq(S) /\ \A c \in S : Kept(w, c)
<1> DEFINE A == DetectModelCost(w, hour)
           B == DetectRepeatedRequest(w, hour)
           C == DetectTokenEfficiency(w, DayOfHour(hour))
           D == DetectTrafficAnomaly(w, hour)
           All == A \cup B \cup C \cup D
           seq == Candidates(w, hour)
           I == {i \in DOMAIN seq : CandidateMeetsSavingsFloor(seq[i])}
           s == Worthwhile(seq)
           S == {c \in All : CandidateMeetsSavingsFloor(c)}
<1>1. AreHonest(w, A) /\ AreHonest(w, B) /\ AreHonest(w, C) /\ AreHonest(w, D)
  BY ModelCostIsHonest, RepeatedIsHonest, TokensAreHonest, AnomaliesAreHonest DEF Sourced
<1> HIDE DEF A, B, C, D
<1>2. \A c \in All : Honest(w, c)
  BY <1>1 DEF AreHonest
<1>3. seq \in Seq(All)
  <2>1. /\ SetToSeq(A) \in Seq(All) /\ SetToSeq(B) \in Seq(All)
        /\ SetToSeq(C) \in Seq(All) /\ SetToSeq(D) \in Seq(All)
    <3>1. /\ SetToSeq(A) \in Seq(A) /\ SetToSeq(B) \in Seq(B)
          /\ SetToSeq(C) \in Seq(C) /\ SetToSeq(D) \in Seq(D)
      BY <1>1, ListFact DEF AreHonest
    <3> QED
      BY <3>1
  <2>2. seq = SetToSeq(A) \o SetToSeq(B) \o SetToSeq(C) \o SetToSeq(D)
    BY DEF Candidates, A, B, C, D
  <2> HIDE DEF seq, All
  <2> QED
    BY <2>1, <2>2
<1> HIDE DEF seq, All
<1>4. Takes(s, seq, I)
  <2>1. Len(seq) \in Nat /\ I \in SUBSET (1..Len(seq))
    BY <1>3
  <2>2. s = Subsequence(seq, I)
    BY DEF Worthwhile
  <2> HIDE DEF I, s
  <2> QED
    BY <2>1, <2>2, SubsequenceTakes
<1>5. s \in Seq(S)
  <2>1. \A i \in I : seq[i] \in S
    BY <1>3
  <2> HIDE DEF I, S, s
  <2>2. Len(s) \in Nat /\ s = [k \in 1..Len(s) |-> s[k]] /\ \A k \in 1..Len(s) : s[k] \in S
    BY <1>4, <2>1 DEF Takes
  <2> QED
    BY <2>2
<1>6. \A c \in S : Kept(w, c) /\ c.savings \in Int
  BY <1>2 DEF Kept, Honest
<1> HIDE DEF S, s
<1>7. RankAndCap(s) \in Seq(S)
  BY <1>5, <1>6, RankAndCapFact
<1>8. Survivors(w, hour) \in Seq(S)
  BY <1>7 DEF Survivors, s, seq
<1> QED
  BY <1>6, <1>8

-----------------------------------------------------------------------------
(* The score: every component is out of a hundred.                         *)

(* Savings, as a part of the spend left.                                   *)
LEMMA EfficiencyFact ==
  ASSUME NEW saved \in Int, NEW monthly \in Int
  PROVE  EfficiencyFromSavings(saved, monthly) \in 0..100
<1>1. CASE monthly <= 0 \/ saved <= 0
  BY <1>1 DEF EfficiencyFromSavings
<1>2. CASE ~(monthly <= 0 \/ saved <= 0)
  <2>1. EfficiencyFromSavings(saved, monthly) = RoundDiv(100 * (monthly - Least(saved, monthly)), monthly)
    BY <1>2 DEF EfficiencyFromSavings
  <2> DEFINE a == 100 * (monthly - Least(saved, monthly))
  <2>2. a \in Nat /\ a <= 100 * monthly /\ monthly \in Nat \ {0}
    BY <1>2 DEF Least
  <2> HIDE DEF a
  <2>3. RoundDiv(a, monthly) \in 0..100
    BY <2>2, RoundPercent
  <2> QED
    BY <2>1, <2>3 DEF a
<1> QED
  BY <1>1, <1>2

(* The savings of some candidates.                                         *)
LEMMA SumSavingsFact ==
  ASSUME NEW w, NEW cs, AreHonest(w, cs)
  PROVE  SumSavings(cs) \in Int
<1> DEFINE s == SetToSeq(cs)
           f == [i \in DOMAIN s |-> s[i].savings]
<1>1. s \in [1..Cardinality(cs) -> cs] /\ Cardinality(cs) \in Nat
  BY ListFact DEF AreHonest
<1>2. IsFiniteSet(DOMAIN s)
  BY <1>1, FS_Interval
<1>3. \A i \in DOMAIN s : f[i] \in Int
  BY <1>1 DEF AreHonest, Honest
<1>4. SumSavings(cs) = Total(f) /\ DOMAIN f = DOMAIN s
  BY DEF SumSavings
<1> HIDE DEF f, s
<1> QED
  BY <1>2, <1>3, <1>4, SumInt, TotalFact

(* The best of each model.                                                 *)
LEMMA BestSavingsFact ==
  ASSUME NEW w, NEW cs, AreHonest(w, cs)
  PROVE  BestSavings(cs) \in Int
<1> DEFINE named == [c \in cs |-> c.source]
           N == {named[c] : c \in cs}
           s == SetToSeq(N)
           of(i) == {x \in cs : x.source = s[i]}
           f == [i \in DOMAIN s |-> Max({c.savings : c \in of(i)})]
<1>1. IsFiniteSet(N) /\ N = {c.source : c \in cs}
  <2>1. IsFiniteSet(cs) /\ N = {c.source : c \in cs}
    BY DEF AreHonest
  <2>2. IsFiniteSet(N)
    <3> HIDE DEF named
    <3> QED
      BY <2>1, FiniteImage
  <2> QED
    BY <2>1, <2>2
<1>2. BestSavings(cs) = Total(f)
  <2>1. s = SetToSeq({c.source : c \in cs})
    BY <1>1
  <2> HIDE DEF s
  <2> QED
    BY <2>1 DEF BestSavings
<1>3. s \in [1..Cardinality(N) -> N] /\ Cardinality(N) \in Nat
  <2> HIDE DEF N
  <2> QED
    BY <1>1, ListFact
<1>4. IsFiniteSet(DOMAIN s)
  <2> HIDE DEF s, N
  <2> QED
    BY <1>3, FS_Interval
<1>5. \A i \in DOMAIN s : f[i] \in Int
  <2> SUFFICES ASSUME NEW i \in DOMAIN s PROVE f[i] \in Int
    OBVIOUS
  <2> DEFINE T == of(i)
             g == [c \in T |-> c.savings]
             V == {g[c] : c \in T}
  <2>1. s[i] \in N
    <3> HIDE DEF s, N
    <3> QED
      BY <1>3
  <2> HIDE DEF s
  <2>2. IsFiniteSet(T) /\ T # {} /\ \A c \in T : c.savings \in Int
    <3>1. T # {}
      BY <1>1, <2>1
    <3>2. T \in SUBSET cs /\ IsFiniteSet(cs)
      BY DEF AreHonest
    <3>3. \A c \in T : c.savings \in Int
      BY DEF AreHonest, Honest
    <3> HIDE DEF T
    <3> QED
      BY <3>1, <3>2, <3>3, FS_Subset
  <2>3. V \in SUBSET Int /\ V # {} /\ V = {c.savings : c \in of(i)}
    <3> HIDE DEF of
    <3> QED
      BY <2>2
  <2>4. IsFiniteSet(V)
    <3> HIDE DEF T, g
    <3> QED
      BY <2>2, FiniteImage
  <2>5. Max(V) \in Int
    <3> HIDE DEF V
    <3> QED
      BY <2>3, <2>4, MaxFact
  <2>6. f[i] = Max(V)
    <3> HIDE DEF V, of
    <3> QED
      BY <2>3
  <2> QED
    BY <2>5, <2>6
<1>6. DOMAIN f = DOMAIN s
  OBVIOUS
<1> HIDE DEF f, s
<1> QED
  BY <1>2, <1>4, <1>5, <1>6, SumInt, TotalFact

(* Deductions for anomalies.                                               *)
LEMMA StabilityFact ==
  ASSUME NEW cs, IsFiniteSet(cs)
  PROVE  StabilityFromAnomalies(cs) \in 0..100
<1> DEFINE a == Cardinality({c \in cs : c.severity = "high"})
           b == Cardinality({c \in cs : c.severity # "high"})
<1>1. IsFiniteSet({c \in cs : c.severity = "high"}) /\ IsFiniteSet({c \in cs : c.severity # "high"})
  BY FS_Subset
<1>2. a \in Nat /\ b \in Nat
  BY <1>1, FS_CardinalityType
<1>3. StabilityFromAnomalies(cs) = IF 40 * a + 20 * b > 100 THEN 0 ELSE 100 - (40 * a + 20 * b)
  BY DEF StabilityFromAnomalies
<1> HIDE DEF a, b
<1> QED
  BY <1>2, <1>3

(* The cost of a request now against before.                               *)
LEMMA CostTrendFact ==
  ASSUME NEW cur, NEW prior, Traffic(cur), Traffic(prior)
  PROVE  CostTrend(cur, prior) \in 0..100
<1> DEFINE a == CostOf(cur)
           b == CostOf(prior)
           m == Len(prior)
           n == Len(cur)
           base == b * n
           rise == a * m - b * n
<1>1. a \in Nat /\ b \in Nat /\ m \in Nat /\ n \in Nat
  BY CostFact DEF Traffic, Readable
<1>2. base \in Nat /\ rise \in Int
  <2> HIDE DEF a, b, m, n
  <2>1. \A x, y \in Nat : x * y \in Nat
    OBVIOUS
  <2>2. a * m \in Nat /\ b * n \in Nat
    BY <1>1, <2>1
  <2> QED
    BY <2>2
<1>3. CostTrend(cur, prior) = IF base = 0 \/ rise <= 0 THEN 100
                              ELSE IF 2 * rise >= base THEN 0 ELSE RoundDiv(100 * (base - 2 * rise), base)
  BY DEF CostTrend
<1> HIDE DEF base, rise
<1>4. CASE base # 0 /\ ~(rise <= 0) /\ ~(2 * rise >= base)
  <2> DEFINE x == 100 * (base - 2 * rise)
  <2>1. x \in Nat /\ x <= 100 * base /\ base \in Nat \ {0}
    BY <1>2, <1>4
  <2> HIDE DEF x
  <2>2. RoundDiv(x, base) \in 0..100
    BY <2>1, RoundPercent
  <2> QED
    BY <1>3, <1>4, <2>2 DEF x
<1> QED
  BY <1>3, <1>4

ScoreIsSound(s) ==
  s # NoScore /\ s.status = "ok" =>
    /\ \A part \in DOMAIN s.parts : s.parts[part] \in 0..100
    /\ s.overall \in 0..100

(* The mean of the parts.                                                  *)
LEMMA ScoreFact ==
  ASSUME NEW m \in 0..100, NEW t \in 0..100, NEW c \in 0..100, NEW s \in 0..100, NEW p \in 0..100
  PROVE  ScoreIsSound(Score([model |-> m, tokens |-> t, cache |-> c, stability |-> s, cost |-> p]))
<1> DEFINE parts == [model |-> m, tokens |-> t, cache |-> c, stability |-> s, cost |-> p]
           sum == m + t + c + s + p
<1>1. Score(parts).parts = parts /\ Score(parts).overall = RoundDiv(sum, 5)
  BY DEF Score
<1>2. sum \in Nat /\ sum <= 100 * 5 /\ 5 \in Nat \ {0}
  OBVIOUS
<1>3. RoundDiv(sum, 5) \in 0..100
  <2> HIDE DEF sum
  <2> QED
    BY <1>2, RoundPercent
<1>4. \A part \in DOMAIN parts : parts[part] \in 0..100
  OBVIOUS
<1> HIDE DEF parts, sum
<1>5. ScoreIsSound(Score(parts))
  BY <1>1, <1>3, <1>4 DEF ScoreIsSound
<1> QED
  BY <1>5 DEF parts

(* Every score is sound.                                                   *)
LEMMA ComputeFact ==
  ASSUME NEW w, Sourced(w), NEW hour \in Int
  PROVE  ScoreIsSound(Compute(w, hour))
<1> DEFINE monthly == RoundDiv(CostOf(Recorded(w, hour)) * 30, 14)
           A == DetectModelCost(w, hour)
           B == DetectRepeatedRequest(w, hour)
           C == DetectTokenEfficiency(w, DayOfHour(hour))
           D == DetectTrafficAnomaly(w, hour)
           cur == Served(w, DaysBefore(hour, 14), hour)
           prior == Served(w, DaysBefore(hour, 28), DaysBefore(hour, 14))
           model == EfficiencyFromSavings(BestSavings(A), monthly)
           tokens == EfficiencyFromSavings(SumSavings(C), monthly)
           cache == EfficiencyFromSavings(SumSavings(B), monthly)
           stability == StabilityFromAnomalies(D)
           cost == CostTrend(cur, prior)
<1>1. AreHonest(w, A) /\ AreHonest(w, B) /\ AreHonest(w, C) /\ AreHonest(w, D)
  BY ModelCostIsHonest, RepeatedIsHonest, TokensAreHonest, AnomaliesAreHonest DEF Sourced
<1>2. Traffic(cur) /\ Traffic(prior) /\ Traffic(Recorded(w, hour))
  BY WindowTraffic DEF Recorded, Sourced
<1>3. monthly \in Int
  <2>1. CostOf(Recorded(w, hour)) * 30 \in Int /\ 14 \in Nat \ {0}
    BY <1>2, CostFact
  <2> QED
    BY <2>1, RoundIsInt
<1>4. Compute(w, hour) \in {[status |-> "insufficient_data"],
        Score([model |-> model, tokens |-> tokens, cache |-> cache, stability |-> stability, cost |-> cost])}
  BY DEF Compute
<1> HIDE DEF monthly, A, B, C, D, cur, prior
<1>5. BestSavings(A) \in Int /\ SumSavings(B) \in Int /\ SumSavings(C) \in Int /\ IsFiniteSet(D)
  BY <1>1, BestSavingsFact, SumSavingsFact DEF AreHonest
<1>6. /\ model \in 0..100 /\ tokens \in 0..100 /\ cache \in 0..100
      /\ stability \in 0..100 /\ cost \in 0..100
  BY <1>2, <1>3, <1>5, EfficiencyFact, StabilityFact, CostTrendFact
<1> HIDE DEF model, tokens, cache, stability, cost
<1>7. ScoreIsSound(Score([model |-> model, tokens |-> tokens, cache |-> cache, stability |-> stability, cost |-> cost]))
  BY <1>6, ScoreFact
<1>8. ScoreIsSound([status |-> "insufficient_data"])
  BY DEF ScoreIsSound
<1> QED
  BY <1>4, <1>7, <1>8

-----------------------------------------------------------------------------
(* The stored findings stay distinct, for any traffic and number of rows.  *)
(*                                                                         *)
(* The inductive invariant: the table holds rows.                          *)
IsRow(o) == o = [finding |-> o.finding, status |-> o.status, reviewed |-> o.reviewed, detected |-> o.detected]
RowsAreRows ==
  /\ DOMAIN opps \in SUBSET (1..MaxOpps) /\ opps = [i \in DOMAIN opps |-> opps[i]]
  /\ \A i \in DOMAIN opps : IsRow(opps[i])
DInv == RowsAreRows /\ LiveFindingsAreDistinct

(* A row that keeps its fingerprint and goes on living only if it lived    *)
(* keeps the others distinct from it.                                      *)
LEMMA RowsStep ==
  ASSUME DInv, DOMAIN opps' \in SUBSET DOMAIN opps, opps' = [i \in DOMAIN opps' |-> opps'[i]],
         \A i \in DOMAIN opps' :
           /\ IsRow(opps'[i]) /\ opps'[i].finding.fingerprint = opps[i].finding.fingerprint
           /\ opps'[i].status \in LiveStatus => opps[i].status \in LiveStatus
           /\ opps'[i].status = "open" => opps[i].status = "open" /\ opps'[i].reviewed = opps[i].reviewed
  PROVE  DInv'
<1>1. RowsAreRows'
  BY DEF DInv, RowsAreRows
<1>2. LiveFindingsAreDistinct'
  BY DEF DInv, LiveFindingsAreDistinct
<1> QED
  BY <1>1, <1>2 DEF DInv

(* A stored finding: at most one row of its fingerprint lives.             *)
LEMMA UpsertStep == ASSUME DInv, Persist PROVE DInv'
<1> DEFINE c == Head(pending)
           live == Conflicting(c.fingerprint)
<1>1. live # {} \/ DOMAIN opps # 1..MaxOpps
  BY DEF Persist
<1>2. opps' = IF live = {}
              THEN [i \in DOMAIN opps \cup {NewId} |->
                      IF i = NewId THEN [finding |-> c, status |-> "open", reviewed |-> FALSE, detected |-> now]
                      ELSE opps[i]]
              ELSE [i \in DOMAIN opps |-> IF i \in live THEN [opps[i] EXCEPT !.finding = c] ELSE opps[i]]
  BY DEF Persist, UpsertOpen
<1>3. live = {i \in DOMAIN opps : opps[i].finding.fingerprint = c.fingerprint /\ opps[i].status \in LiveStatus}
  BY DEF Conflicting
<1> HIDE DEF c, live
<1>4. CASE live # {}
  <2>1. opps' = [i \in DOMAIN opps |-> IF i \in live THEN [opps[i] EXCEPT !.finding = c] ELSE opps[i]]
    BY <1>2, <1>4
  <2>2. ASSUME NEW i \in DOMAIN opps
        PROVE  /\ IsRow(opps'[i]) /\ opps'[i].finding.fingerprint = opps[i].finding.fingerprint
               /\ opps'[i].status = opps[i].status /\ opps'[i].reviewed = opps[i].reviewed
    <3>1. IsRow(opps[i])
      BY DEF DInv, RowsAreRows
    <3>2. CASE i \notin live
      BY <2>1, <3>1, <3>2
    <3>3. CASE i \in live
      <4>1. opps'[i] = [finding |-> c, status |-> opps[i].status, reviewed |-> opps[i].reviewed,
                        detected |-> opps[i].detected]
        BY <2>1, <3>1, <3>3 DEF IsRow
      <4> QED
        BY <1>3, <3>3, <4>1 DEF IsRow
    <3> QED
      BY <3>2, <3>3
  <2> QED
    BY <2>1, <2>2, RowsStep
<1>5. CASE live = {}
  <2> DEFINE new == [finding |-> c, status |-> "open", reviewed |-> FALSE, detected |-> now]
  <2>1. NewId \in 1..MaxOpps /\ NewId \notin DOMAIN opps
    BY <1>1, <1>5 DEF DInv, RowsAreRows, NewId
  <2>2. /\ DOMAIN opps' = DOMAIN opps \cup {NewId} /\ opps' = [i \in DOMAIN opps' |-> opps'[i]]
        /\ opps'[NewId] = new /\ \A i \in DOMAIN opps : opps'[i] = opps[i]
    BY <1>2, <1>5, <2>1
  <2>3. RowsAreRows'
    BY <2>1, <2>2 DEF DInv, RowsAreRows, IsRow
  <2>4. LiveFindingsAreDistinct'
    <3>1. \A i \in DOMAIN opps : opps[i].status \in LiveStatus => opps[i].finding.fingerprint # c.fingerprint
      BY <1>3, <1>5
    <3>2. new.finding = c /\ new.status = "open" /\ new.reviewed = FALSE
      OBVIOUS
    <3> HIDE DEF new
    <3> QED
      BY <2>1, <2>2, <3>1, <3>2 DEF DInv, LiveFindingsAreDistinct
  <2> QED
    BY <2>3, <2>4 DEF DInv
<1> QED
  BY <1>4, <1>5

(* A review, or a dismissal.                                               *)
LEMMA ReviewStep ==
  ASSUME DInv, NEW i \in DOMAIN opps, MarkReviewed(i) \/ MarkDismissed(i)
  PROVE  DInv'
<1>1. IsRow(opps[i]) /\ opps = [k \in DOMAIN opps |-> opps[k]] /\ opps[i].status \in LiveStatus
  BY DEF DInv, RowsAreRows, MarkReviewed, MarkDismissed, LiveStatus
<1>2. \/ opps' = [opps EXCEPT ![i].status = "reviewed", ![i].reviewed = TRUE]
      \/ opps' = [opps EXCEPT ![i].status = "dismissed"]
  BY DEF MarkReviewed, MarkDismissed
<1>3. DOMAIN opps' = DOMAIN opps /\ opps' = [k \in DOMAIN opps' |-> opps'[k]]
      /\ \A k \in DOMAIN opps \ {i} : opps'[k] = opps[k]
  BY <1>1, <1>2
<1>4. \E status \in {"reviewed", "dismissed"} : \E reviewed \in {TRUE, opps[i].reviewed} :
        opps'[i] = [finding |-> opps[i].finding, status |-> status, reviewed |-> reviewed, detected |-> opps[i].detected]
  <2>1. CASE opps' = [opps EXCEPT ![i].status = "reviewed", ![i].reviewed = TRUE]
    <3>1. opps'[i] = [finding |-> opps[i].finding, status |-> "reviewed", reviewed |-> TRUE,
                      detected |-> opps[i].detected]
      BY <1>1, <2>1 DEF IsRow
    <3> QED
      BY <3>1
  <2>2. CASE opps' = [opps EXCEPT ![i].status = "dismissed"]
    <3>1. opps'[i] = [finding |-> opps[i].finding, status |-> "dismissed", reviewed |-> opps[i].reviewed,
                      detected |-> opps[i].detected]
      BY <1>1, <2>2 DEF IsRow
    <3> QED
      BY <3>1
  <2> QED
    BY <1>2, <2>1, <2>2
<1>5. /\ IsRow(opps'[i]) /\ opps'[i].finding.fingerprint = opps[i].finding.fingerprint
      /\ opps'[i].status # "open"
  BY <1>4 DEF IsRow
<1>6. \A k \in DOMAIN opps \ {i} : IsRow(opps'[k])
  BY <1>3 DEF DInv, RowsAreRows
<1> QED
  BY <1>1, <1>3, <1>5, <1>6, RowsStep

(* Retention only removes rows.                                            *)
LEMMA EnforceStep == ASSUME DInv, EnforceOpportunities PROVE DInv'
<1>1. PICK kept \in SUBSET DOMAIN opps : opps' = [i \in kept |-> opps[i]]
  BY DEF EnforceOpportunities
<1> QED
  BY <1>1, RowsStep DEF DInv, RowsAreRows

(* The invariant holds at first                                            *)
LEMMA DistinctStart == DetectionInit => DInv
  BY DEF DetectionInit, DInv, RowsAreRows, LiveFindingsAreDistinct

(* and after every step.                                                   *)
LEMMA DistinctStep == DInv /\ [DetectionNext]_detectionVars => DInv'
<1> SUFFICES ASSUME DInv, [DetectionNext]_detectionVars PROVE DInv'
  OBVIOUS
<1>1. ASSUME opps' = opps PROVE DInv'
  BY <1>1 DEF DInv, RowsAreRows, LiveFindingsAreDistinct
<1>2. CASE RunDetectors \/ PersistFails \/ ScoreDaily \/ HourPasses \/ UNCHANGED detectionVars
  BY <1>1, <1>2 DEF RunDetectors, PersistFails, ScoreDaily, HourPasses, detectionVars
<1> QED
  BY <1>2, UpsertStep, ReviewStep, EnforceStep DEF DetectionNext

(* For any traffic, hours and number of rows: detect.run never has two     *)
(* live rows of one fingerprint, and what someone has reviewed never turns *)
(* new again, however failing runs, reviews, dismissals and the retention  *)
(* job interleave.                                                         *)
THEOREM LiveFindingsAreDistinctCorrect == DetectionSpec => []LiveFindingsAreDistinct
<1>1. DInv => LiveFindingsAreDistinct
  BY DEF DInv
<1> QED
  BY <1>1, DistinctStart, DistinctStep, PTL DEF DetectionSpec

-----------------------------------------------------------------------------
(* The stored findings are within the spend, and the score is out of a     *)
(* hundred.                                                                *)

(* Every workload has traffic to prove about.                              *)
LEMMA WorkloadsAreSourced ==
  ASSUME NEW name \in DOMAIN Workloads PROVE Sourced(Workloads[name])
<1> DEFINE w == Workloads[name]
           facts == w.facts
           days == w.days
<1>1. /\ facts \in Seq(Range(facts))
      /\ \A f \in Range(facts) : f.at \in Int /\ {f.cost, f.usage, f.input, f.output} \subseteq Nat
      /\ days \in Seq(Range(days))
      /\ \A d \in Range(days) : {d.requests, d.input, d.output} \subseteq Nat
  BY WorkloadsAssumption
<1> HIDE DEF facts, days
<1>2. Len(facts) \in Nat /\ DOMAIN facts = 1..Len(facts) /\ \A i \in 1..Len(facts) : facts[i] \in Range(facts)
  BY <1>1
<1>3. Len(days) \in Nat /\ DOMAIN days = 1..Len(days) /\ \A i \in 1..Len(days) : days[i] \in Range(days)
  BY <1>1
<1>4. Traffic(facts)
  BY <1>1, <1>2 DEF Traffic, Readable
<1>5. Daily(days)
  BY <1>1, <1>3 DEF Daily
<1> QED
  BY <1>4, <1>5 DEF Sourced, facts, days

(* What is stored and what a run still has to store has been found in this *)
(* traffic and cleared the floors.                                         *)
AllKept(w, cs) == \A c \in cs : Kept(w, c)
FindingsAreKept ==
  /\ workload \in DOMAIN Workloads /\ now \in Nat
  /\ \A i \in DOMAIN opps : Kept(Workloads[workload], opps[i].finding)
  /\ \E S : pending \in Seq(S) /\ AllKept(Workloads[workload], S)
  /\ ScoreIsSound(score)

(* The invariant says what the property does.                              *)
LEMMA FindingsSuffice == FindingsAreKept => FindingsAreWithinSpend
<1> SUFFICES ASSUME FindingsAreKept PROVE FindingsAreWithinSpend
  OBVIOUS
<1>1. ASSUME NEW i \in DOMAIN opps, opps[i].finding.kind # "traffic_anomaly"
      PROVE  LET c == opps[i].finding
             IN /\ Floors.savings <= c.savings /\ c.savings <= c.current
                /\ c.kind = "model_cost" => c.savings <= RoundDiv(CostliestHalf(c.source, c.window) * 30, 14)
  <2> DEFINE c == opps[i].finding
             w == Workloads[workload]
  <2>1. Kept(w, c)
    BY DEF FindingsAreKept
  <2>2. CostliestHalf(c.source, c.window) = HalfOf(w, c)
    BY DEF CostliestHalf, HalfOf, DearestOf
  <2>3. c.kind # "traffic_anomaly"
    BY <1>1
  <2> HIDE DEF c, w
  <2>4. Clears(c) /\ c.savings \in Int /\ c.savings <= c.current
    BY <2>1, <2>3 DEF Kept, Honest, CandidateMeetsSavingsFloor
  <2>5. Floors.savings <= c.savings
    BY <2>4, FindingsAssumption DEF Clears
  <2>6. c.kind = "model_cost" => c.savings <= RoundDiv(CostliestHalf(c.source, c.window) * 30, 14)
    BY <2>1, <2>2 DEF Kept, Honest
  <2> QED
    BY <2>4, <2>5, <2>6 DEF c
<1>2. /\ score # NoScore /\ score.status = "ok" =>
          /\ \A part \in DOMAIN score.parts : score.parts[part] \in 0..100
          /\ score.overall \in 0..100
  BY DEF FindingsAreKept, ScoreIsSound
<1> QED
  BY <1>1, <1>2 DEF FindingsAreWithinSpend

(* It holds at first, when nothing has been found.                         *)
LEMMA FindingsStart == DetectionInit => FindingsAreKept
<1> SUFFICES ASSUME DetectionInit PROVE FindingsAreKept
  OBVIOUS
<1>1. pending \in Seq({}) /\ AllKept(Workloads[workload], {})
  BY DEF DetectionInit, AllKept
<1> QED
  BY <1>1, DetectionAssumption DEF DetectionInit, FindingsAreKept, ScoreIsSound

(* Steps that store nothing new.                                           *)
LEMMA FindingsStay ==
  ASSUME FindingsAreKept, workload' = workload, now' \in Nat, ScoreIsSound(score'),
         \A i \in DOMAIN opps' : i \in DOMAIN opps /\ opps'[i].finding = opps[i].finding,
         \E S : pending' \in Seq(S) /\ AllKept(Workloads[workload], S)
  PROVE  FindingsAreKept'
<1>1. \A i \in DOMAIN opps' : Kept(Workloads[workload], opps'[i].finding)
  BY DEF FindingsAreKept
<1> QED
  BY <1>1 DEF FindingsAreKept

(* A row gets the finding of a run, or keeps its own.                      *)
LEMMA FindingsStored == ASSUME RowsAreRows, FindingsAreKept, Persist PROVE FindingsAreKept'
<1> DEFINE c == Head(pending)
           live == Conflicting(c.fingerprint)
           w == Workloads[workload]
<1>1. opps' = IF live = {}
              THEN [i \in DOMAIN opps \cup {NewId} |->
                      IF i = NewId THEN [finding |-> c, status |-> "open", reviewed |-> FALSE, detected |-> now]
                      ELSE opps[i]]
              ELSE [i \in DOMAIN opps |-> IF i \in live THEN [opps[i] EXCEPT !.finding = c] ELSE opps[i]]
  BY DEF Persist, UpsertOpen
<1>2. PICK S : pending \in Seq(S) /\ AllKept(w, S)
  BY DEF FindingsAreKept
<1>3. c \in S /\ Tail(pending) \in Seq(S)
  BY <1>2 DEF Persist
<1>4. Kept(w, c)
  BY <1>2, <1>3 DEF AllKept
<1>5. \A i \in DOMAIN opps : IsRow(opps[i]) /\ Kept(w, opps[i].finding)
  BY DEF RowsAreRows, FindingsAreKept
<1> HIDE DEF live, c
<1>6. ASSUME NEW i \in DOMAIN opps' PROVE Kept(w, opps'[i].finding)
  <2>1. CASE live = {}
    <3>1. opps'[i].finding = c \/ (i \in DOMAIN opps /\ opps'[i] = opps[i])
      BY <1>1, <2>1
    <3> QED
      BY <1>4, <1>5, <3>1
  <2>2. CASE live # {}
    <3>1. i \in DOMAIN opps /\ opps'[i] = IF i \in live THEN [opps[i] EXCEPT !.finding = c] ELSE opps[i]
      BY <1>1, <2>2
    <3>2. [opps[i] EXCEPT !.finding = c].finding = c
      BY <1>5, <3>1 DEF IsRow
    <3>3. opps'[i].finding = c \/ opps'[i] = opps[i]
      BY <3>1, <3>2
    <3> QED
      BY <1>4, <1>5, <3>1, <3>3
  <2> QED
    BY <2>1, <2>2
<1>7. workload' = workload /\ now' = now /\ score' = score /\ pending' = Tail(pending)
  BY DEF Persist
<1>8. \E T : pending' \in Seq(T) /\ AllKept(w, T)
  BY <1>2, <1>3, <1>7
<1> QED
  BY <1>6, <1>7, <1>8 DEF FindingsAreKept

(* A review changes no finding.                                            *)
LEMMA FindingsReviewed ==
  ASSUME RowsAreRows, FindingsAreKept, NEW i \in DOMAIN opps, MarkReviewed(i) \/ MarkDismissed(i)
  PROVE  FindingsAreKept'
<1>1. \A k \in DOMAIN opps : IsRow(opps[k])
  BY DEF RowsAreRows
<1>2. \/ opps' = [opps EXCEPT ![i].status = "reviewed", ![i].reviewed = TRUE]
      \/ opps' = [opps EXCEPT ![i].status = "dismissed"]
  BY DEF MarkReviewed, MarkDismissed
<1>3. \A k \in DOMAIN opps' : k \in DOMAIN opps /\ opps'[k].finding = opps[k].finding
  BY <1>1, <1>2 DEF IsRow
<1>4. workload' = workload /\ now' = now /\ score' = score /\ pending' = pending
  BY DEF MarkReviewed, MarkDismissed
<1>5. now' \in Nat /\ ScoreIsSound(score') /\ \E S : pending' \in Seq(S) /\ AllKept(Workloads[workload], S)
  BY <1>4 DEF FindingsAreKept
<1> QED
  BY <1>3, <1>4, <1>5, FindingsStay

(* A run finds only what it may store, a score is sound.                   *)
LEMMA FindingsRun == ASSUME FindingsAreKept, RunDetectors \/ ScoreDaily PROVE FindingsAreKept'
<1>1. Sourced(Workloads[workload]) /\ now \in Int
  BY WorkloadsAreSourced DEF FindingsAreKept
<1>2. /\ workload' = workload /\ now' \in Nat
      /\ \A i \in DOMAIN opps' : i \in DOMAIN opps /\ opps'[i].finding = opps[i].finding
  BY DEF RunDetectors, ScoreDaily, FindingsAreKept
<1>3. CASE RunDetectors
  <2>1. pending' = Survivors(Workloads[workload], now) /\ score' = score
    BY <1>3 DEF RunDetectors
  <2>2. \E S : pending' \in Seq(S) /\ AllKept(Workloads[workload], S)
    BY <1>1, <2>1, SurvivorsFact DEF AllKept
  <2>3. ScoreIsSound(score')
    BY <2>1 DEF FindingsAreKept
  <2> QED
    BY <1>2, <2>2, <2>3, FindingsStay
<1>4. CASE ScoreDaily
  <2>1. pending' = pending /\ score' = Compute(Workloads[workload], now)
    BY <1>4 DEF ScoreDaily
  <2>2. \E S : pending' \in Seq(S) /\ AllKept(Workloads[workload], S)
    BY <2>1 DEF FindingsAreKept
  <2>3. ScoreIsSound(score')
    BY <1>1, <2>1, ComputeFact
  <2> QED
    BY <1>2, <2>2, <2>3, FindingsStay
<1> QED
  BY <1>3, <1>4

(* Every step keeps it.                                                    *)
LEMMA FindingsStep ==
  ASSUME RowsAreRows, FindingsAreKept, [DetectionNext]_detectionVars PROVE FindingsAreKept'
<1>1. CASE PersistFails \/ EnforceOpportunities \/ HourPasses \/ UNCHANGED detectionVars
  <2>1. workload' = workload /\ now' \in Nat /\ score' = score
    BY <1>1 DEF PersistFails, EnforceOpportunities, HourPasses, detectionVars, FindingsAreKept
  <2>2. \A i \in DOMAIN opps' : i \in DOMAIN opps /\ opps'[i].finding = opps[i].finding
    BY <1>1 DEF PersistFails, EnforceOpportunities, HourPasses, detectionVars
  <2>3. \E S : pending' \in Seq(S) /\ AllKept(Workloads[workload], S)
    <3>1. pending' = pending \/ pending' = <<>>
      BY <1>1 DEF PersistFails, EnforceOpportunities, HourPasses, detectionVars
    <3>2. \A S : <<>> \in Seq(S)
      OBVIOUS
    <3> QED
      BY <3>1, <3>2 DEF FindingsAreKept
  <2>4. ScoreIsSound(score')
    BY <2>1 DEF FindingsAreKept
  <2> QED
    BY <2>1, <2>2, <2>3, <2>4, FindingsStay
<1> QED
  BY <1>1, FindingsRun, FindingsStored, FindingsReviewed DEF DetectionNext

(* For any traffic, prices, catalog, floors and TTLs: no stored finding    *)
(* promises more than its part of the traffic costs, a cheaper model never *)
(* more than half of its requests cost, and a score is out of a hundred.   *)
THEOREM FindingsAreWithinSpendCorrect == DetectionSpec => []FindingsAreWithinSpend
<1>1. DetectionInit => DInv /\ FindingsAreKept
  BY DistinctStart, FindingsStart
<1>2. DInv /\ FindingsAreKept /\ [DetectionNext]_detectionVars => (DInv /\ FindingsAreKept)'
  BY DistinctStep, FindingsStep DEF DInv
<1> QED
  BY <1>1, <1>2, FindingsSuffice, PTL DEF DetectionSpec
=============================================================================
