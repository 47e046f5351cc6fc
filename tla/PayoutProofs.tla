---------------------------- MODULE PayoutProofs ----------------------------
(***************************************************************************)
(* Facts about sums, however they are written (Totals, SumFunction), and   *)
(* about the arithmetic of module Payouts, for every amount and any number *)
(* of players.  They are what the theorems about the escrow, the prizes    *)
(* and the settlement rest on.                                             *)
(***************************************************************************)
EXTENDS Payouts, Totals, FiniteSetTheorems, TLAPS

-----------------------------------------------------------------------------
(* What the proofs need to know of sums (Totals): they are natural numbers, a sum of zeros is 0,
   every summand is bounded by the sum, and changing one summand changes the sum by as much. *)

Column(x, n) == {x} \X (1..n)
Others(f, x) == UNION {Column(y, f[y]) : y \in (DOMAIN f) \ {x}}

LEMMA ColumnCardinality ==
  ASSUME NEW x, NEW n \in Nat
  PROVE  IsFiniteSet(Column(x, n)) /\ Cardinality(Column(x, n)) = n
<1>1. IsFiniteSet({x}) /\ Cardinality({x}) = 1
  BY FS_Singleton
<1>2. IsFiniteSet(1..n) /\ Cardinality(1..n) = n
  BY FS_Interval
<1>3. IsFiniteSet({x} \X (1..n))
      /\ Cardinality({x} \X (1..n)) = Cardinality({x}) * Cardinality(1..n)
  BY <1>1, <1>2, FS_Product
<1>4. QED
  BY <1>1, <1>2, <1>3 DEF Column

LEMMA OthersFinite ==
  ASSUME NEW S, IsFiniteSet(S), NEW f \in [S -> Nat], NEW x
  PROVE  IsFiniteSet(Others(f, x))
<1> DEFINE T == S \ {x}
           col == [y \in T |-> Column(y, f[y])]
           Cols == {Column(y, f[y]) : y \in T}
<1>1. IsFiniteSet(T)
  BY FS_Difference
<1>2. col \in Surjection(T, Cols)
  BY DEF Surjection
<1>3. IsFiniteSet(Cols)
  <2> HIDE DEF T, col, Cols
  <2> QED BY <1>1, <1>2, FS_Surjection
<1>4. \A C \in Cols : IsFiniteSet(C)
  BY ColumnCardinality
<1>5. IsFiniteSet(UNION Cols)
  <2> HIDE DEF Cols
  <2> QED BY <1>3, <1>4, FS_UNION
<1>6. DOMAIN f = S
  OBVIOUS
<1>7. QED
  BY <1>5, <1>6 DEF Others

(* A sum is one of its summands plus the sum of the others. *)
LEMMA TotalSplit ==
  ASSUME NEW S, IsFiniteSet(S), NEW f \in [S -> Nat], NEW x \in S
  PROVE  /\ IsFiniteSet(Others(f, x))
         /\ Total(f) = Cardinality(Others(f, x)) + f[x]
<1>1. IsFiniteSet(Others(f, x))
  BY OthersFinite
<1>2. IsFiniteSet(Column(x, f[x])) /\ Cardinality(Column(x, f[x])) = f[x]
  BY ColumnCardinality
<1>3. Units(f) = Others(f, x) \cup Column(x, f[x])
  BY DEF Units, Others, Column
<1>4. Others(f, x) \cap Column(x, f[x]) = {}
  BY DEF Others, Column
<1>5. Cardinality(Others(f, x) \cap Column(x, f[x])) = 0
  BY <1>4, FS_EmptySet
<1>6. Cardinality(Others(f, x)) \in Nat
  BY <1>1, FS_CardinalityType
<1>7. Cardinality(Others(f, x) \cup Column(x, f[x]))
        = Cardinality(Others(f, x)) + Cardinality(Column(x, f[x]))
          - Cardinality(Others(f, x) \cap Column(x, f[x]))
  BY <1>1, <1>2, FS_Union
<1>8. f[x] \in Nat
  OBVIOUS
<1>9. QED
  BY <1>1, <1>2, <1>3, <1>5, <1>6, <1>7, <1>8 DEF Total

LEMMA TotalType ==
  ASSUME NEW S, IsFiniteSet(S), NEW f \in [S -> Nat]
  PROVE  Total(f) \in Nat
<1>1. CASE S = {}
  <2>1. Units(f) = {}
    BY <1>1 DEF Units
  <2>2. QED
    BY <2>1, FS_EmptySet DEF Total
<1>2. CASE S # {}
  <2>1. PICK x \in S : TRUE
    BY <1>2
  <2>2. Cardinality(Others(f, x)) \in Nat
    BY TotalSplit, FS_CardinalityType
  <2>3. QED
    BY <2>2, TotalSplit
<1>3. QED
  BY <1>1, <1>2

LEMMA TotalZero ==
  ASSUME NEW S, NEW f \in [S -> Nat], \A x \in S : f[x] = 0
  PROVE  Total(f) = 0
<1>1. Units(f) = {}
  BY DEF Units
<1>2. QED
  BY <1>1, FS_EmptySet DEF Total

LEMMA SummandBound ==
  ASSUME NEW S, IsFiniteSet(S), NEW f \in [S -> Nat], NEW x \in S
  PROVE  f[x] <= Total(f)
<1>1. Cardinality(Others(f, x)) \in Nat
  BY TotalSplit, FS_CardinalityType
<1>2. QED
  BY <1>1, TotalSplit

LEMMA TotalUpdate ==
  ASSUME NEW S, IsFiniteSet(S), NEW f \in [S -> Nat], NEW x \in S, NEW n \in Nat,
         NEW g \in [S -> Nat], g[x] = n, \A y \in S \ {x} : g[y] = f[y]
  PROVE  Total(g) = Total(f) - f[x] + n
<1>1. Others(g, x) = Others(f, x)
  BY DEF Others
<1>2. Cardinality(Others(f, x)) \in Nat
  BY TotalSplit, FS_CardinalityType
<1>3. Total(f) = Cardinality(Others(f, x)) + f[x]
  BY TotalSplit
<1>4. Total(g) = Cardinality(Others(g, x)) + n
  BY TotalSplit
<1>5. QED
  BY <1>1, <1>2, <1>3, <1>4

-----------------------------------------------------------------------------
(* Induction over the subsets of a finite set, in the form of its least counterexample: G is the
   set of the subsets for which a fact holds. *)

LEMMA SubsetInduction ==
  ASSUME NEW D, IsFiniteSet(D), NEW G, {} \in G,
         \A s \in SUBSET D : s # {} => \E x \in s : s \ {x} \in G => s \in G
  PROVE  \A s \in SUBSET D : s \in G
<1> DEFINE T == (SUBSET D) \ G
<1>1. SUFFICES ASSUME T # {} PROVE FALSE
  OBVIOUS
<1>2. IsWellFoundedOn(StrictSubsetOrdering(D), FiniteSubsetsOf(D))
  BY FS_StrictSubsetOrderingWellFounded
<1>3. T \subseteq FiniteSubsetsOf(D)
  BY FS_FiniteSubsetsOfFinite
<1>4. PICK s \in T : \A t \in T : ~(<<t, s>> \in StrictSubsetOrdering(D))
  <2> HIDE DEF T
  <2> QED BY <1>1, <1>2, <1>3, WFMin
<1>5. PICK x \in s : s \ {x} \in G => s \in G
  OBVIOUS
<1>6. s \ {x} \in SUBSET D /\ s \in SUBSET D /\ s \ {x} # s
  OBVIOUS
<1>7. s \ {x} \in T
  BY <1>5, <1>6
<1>8. <<s \ {x}, s>> \in StrictSubsetOrdering(D)
  BY <1>6 DEF StrictSubsetOrdering
<1>9. QED
  BY <1>4, <1>7, <1>8

-----------------------------------------------------------------------------
(* SumFunctionOnSet is a fold, which the community modules define by recursion over the subsets
   of the set.  Folded is one step of it; Signed is a solution of its equation that is not
   recursive, the total of what is positive less the total of what is negative. *)

OneOf(s) == CHOOSE x \in s : TRUE

Folded(f, D, g) == [s \in SUBSET D |-> IF s = {} THEN 0 ELSE f[OneOf(s)] + g[s \ {OneOf(s)}]]

Gains(f, s) == [x \in s |-> IF f[x] > 0 THEN f[x] ELSE 0]
Losses(f, s) == [x \in s |-> IF f[x] < 0 THEN -f[x] ELSE 0]
Signed(f, s) == Total(Gains(f, s)) - Total(Losses(f, s))

LEMMA SumIsFold ==
  ASSUME NEW f, NEW D, NEW g, g = Folded(f, D, g)
  PROVE  \E h : h = Folded(f, D, h) /\ SumFunctionOnSet(f, D) = h[D]
<1> DEFINE iter == CHOOSE h : h = Folded(f, D, h)
<1>1. SumFunctionOnSet(f, D) = iter[D]
  BY DEF SumFunctionOnSet, FoldFunctionOnSet, MapThenFoldSet, Folded, OneOf
<1>2. iter = Folded(f, D, iter)
  <2> HIDE DEF Folded
  <2> QED OBVIOUS
<1> HIDE DEF iter
<1>3. QED
  BY <1>1, <1>2

LEMMA FoldUnique ==
  ASSUME NEW f, NEW D, IsFiniteSet(D), NEW g, NEW h, g = Folded(f, D, g), h = Folded(f, D, h)
  PROVE  g[D] = h[D]
<1> DEFINE G == {s \in SUBSET D : g[s] = h[s]}
<1>1. {} \in G
  BY DEF Folded
<1>2. ASSUME NEW s \in SUBSET D, s # {} PROVE \E x \in s : s \ {x} \in G => s \in G
  <2>1. OneOf(s) \in s
    BY <1>2 DEF OneOf
  <2>2. g[s] = f[OneOf(s)] + g[s \ {OneOf(s)}] /\ h[s] = f[OneOf(s)] + h[s \ {OneOf(s)}]
    BY <1>2 DEF Folded
  <2>3. s \ {OneOf(s)} \in G => s \in G
    BY <2>2
  <2>4. QED
    BY <2>1, <2>3
<1>3. \A s \in SUBSET D : s \in G
  <2> HIDE DEF G
  <2> QED BY <1>1, <1>2, SubsetInduction
<1>4. QED
  BY <1>3

LEMMA OthersAreTheRest ==
  ASSUME NEW s, IsFiniteSet(s), NEW x \in s, NEW f \in [s -> Nat], NEW g \in [s \ {x} -> Nat],
         \A y \in s \ {x} : g[y] = f[y]
  PROVE  Total(f) = f[x] + Total(g)
<1>1. Others(f, x) = Units(g)
  BY DEF Others, Units, Column
<1>2. IsFiniteSet(s \ {x})
  BY FS_Difference
<1>3. Total(f) = Cardinality(Others(f, x)) + f[x]
  BY TotalSplit
<1>4. Total(g) \in Nat
  BY <1>2, TotalType
<1>5. QED
  BY <1>1, <1>3, <1>4 DEF Total

LEMMA SignedStep ==
  ASSUME NEW f, NEW s, IsFiniteSet(s), NEW x \in s, \A y \in s : f[y] \in Int
  PROVE  /\ Signed(f, s) \in Int
         /\ Signed(f, s) = f[x] + Signed(f, s \ {x})
<1> DEFINE t == s \ {x}
<1>1. IsFiniteSet(t)
  BY FS_Difference
<1>2. /\ Gains(f, s) \in [s -> Nat] /\ Losses(f, s) \in [s -> Nat]
      /\ Gains(f, t) \in [t -> Nat] /\ Losses(f, t) \in [t -> Nat]
  BY DEF Gains, Losses
<1>3. /\ \A y \in t : Gains(f, t)[y] = Gains(f, s)[y]
      /\ \A y \in t : Losses(f, t)[y] = Losses(f, s)[y]
  BY DEF Gains, Losses
<1>4. Total(Gains(f, s)) = Gains(f, s)[x] + Total(Gains(f, t))
  <2> HIDE DEF t
  <2>1. t = s \ {x}
    BY DEF t
  <2>2. QED
    BY <1>2, <1>3, <2>1, OthersAreTheRest
<1>5. Total(Losses(f, s)) = Losses(f, s)[x] + Total(Losses(f, t))
  <2> HIDE DEF t
  <2>1. t = s \ {x}
    BY DEF t
  <2>2. QED
    BY <1>2, <1>3, <2>1, OthersAreTheRest
<1>6. /\ Total(Gains(f, s)) \in Nat /\ Total(Losses(f, s)) \in Nat
      /\ Total(Gains(f, t)) \in Nat /\ Total(Losses(f, t)) \in Nat
  BY <1>1, <1>2, TotalType
<1>7. Gains(f, s)[x] - Losses(f, s)[x] = f[x] /\ Gains(f, s)[x] \in Nat /\ Losses(f, s)[x] \in Nat
  BY DEF Gains, Losses
<1>8. QED
  BY <1>4, <1>5, <1>6, <1>7 DEF Signed

LEMMA SumIsSigned ==
  ASSUME NEW f, NEW D, IsFiniteSet(D), \A x \in D : f[x] \in Int
  PROVE  SumFunctionOnSet(f, D) = Signed(f, D)
<1> DEFINE g == [s \in SUBSET D |-> Signed(f, s)]
<1>1. Signed(f, {}) = 0
  <2>1. Gains(f, {}) \in [{} -> Nat] /\ Losses(f, {}) \in [{} -> Nat]
    BY DEF Gains, Losses
  <2>2. Total(Gains(f, {})) = 0 /\ Total(Losses(f, {})) = 0
    BY <2>1, TotalZero
  <2>3. QED
    BY <2>2 DEF Signed
<1>2. ASSUME NEW s \in SUBSET D, s # {}
      PROVE  Signed(f, s) = f[OneOf(s)] + g[s \ {OneOf(s)}]
  <2>1. OneOf(s) \in s /\ s \ {OneOf(s)} \in SUBSET D
    BY <1>2 DEF OneOf
  <2>2. IsFiniteSet(s)
    BY FS_Subset
  <2>3. Signed(f, s) = f[OneOf(s)] + Signed(f, s \ {OneOf(s)})
    BY <2>1, <2>2, SignedStep
  <2>4. QED
    BY <2>1, <2>3
<1>3. g = Folded(f, D, g)
  BY <1>1, <1>2 DEF Folded
<1>4. g[D] = Signed(f, D)
  OBVIOUS
<1> HIDE DEF g
<1>5. PICK h : h = Folded(f, D, h) /\ SumFunctionOnSet(f, D) = h[D]
  BY <1>3, SumIsFold
<1>6. QED
  BY <1>3, <1>4, <1>5, FoldUnique

-----------------------------------------------------------------------------
(* What the proofs need to know of SumFunctionOnSet. *)

LEMMA SumEmpty ==
  ASSUME NEW f
  PROVE  SumFunctionOnSet(f, {}) = 0
<1>1. Gains(f, {}) \in [{} -> Nat] /\ Losses(f, {}) \in [{} -> Nat]
  BY DEF Gains, Losses
<1>2. Total(Gains(f, {})) = 0 /\ Total(Losses(f, {})) = 0
  BY <1>1, TotalZero
<1>3. IsFiniteSet({})
  BY FS_EmptySet
<1>4. SumFunctionOnSet(f, {}) = Signed(f, {})
  BY <1>3, SumIsSigned
<1>5. QED
  BY <1>2, <1>4 DEF Signed

(* A sum is one of its summands plus the sum of the others. *)
LEMMA SumSplit ==
  ASSUME NEW f, NEW D, IsFiniteSet(D), NEW x \in D, \A y \in D : f[y] \in Int
  PROVE  SumFunctionOnSet(f, D) = f[x] + SumFunctionOnSet(f, D \ {x})
<1>1. IsFiniteSet(D \ {x})
  BY FS_Difference
<1>2. SumFunctionOnSet(f, D) = Signed(f, D)
  BY SumIsSigned
<1>3. SumFunctionOnSet(f, D \ {x}) = Signed(f, D \ {x})
  BY <1>1, SumIsSigned
<1>4. QED
  BY <1>2, <1>3, SignedStep

LEMMA SumInt ==
  ASSUME NEW f, NEW D, IsFiniteSet(D), \A y \in D : f[y] \in Int
  PROVE  SumFunctionOnSet(f, D) \in Int
<1>1. CASE D = {}
  BY <1>1, SumEmpty
<1>2. CASE D # {}
  <2>1. PICK x \in D : TRUE
    BY <1>2
  <2>2. Signed(f, D) \in Int
    BY <2>1, SignedStep
  <2>3. QED
    BY <2>2, SumIsSigned
<1>3. QED
  BY <1>1, <1>2

(* The same summands on the same set, whatever the functions are outside of it. *)
LEMMA SumCong ==
  ASSUME NEW f, NEW g, NEW D, IsFiniteSet(D), \A y \in D : f[y] \in Int /\ g[y] = f[y]
  PROVE  SumFunctionOnSet(g, D) = SumFunctionOnSet(f, D)
<1>1. Gains(f, D) = Gains(g, D) /\ Losses(f, D) = Losses(g, D)
  BY DEF Gains, Losses
<1>2. SumFunctionOnSet(g, D) = Signed(g, D) /\ SumFunctionOnSet(f, D) = Signed(f, D)
  BY SumIsSigned
<1>3. QED
  BY <1>1, <1>2 DEF Signed

LEMMA SumUnion ==
  ASSUME NEW f, NEW A, NEW B, IsFiniteSet(A), IsFiniteSet(B), A \cap B = {},
         \A y \in A \cup B : f[y] \in Int
  PROVE  SumFunctionOnSet(f, A \cup B) = SumFunctionOnSet(f, A) + SumFunctionOnSet(f, B)
<1> DEFINE Holds(s) == SumFunctionOnSet(f, A \cup s) = SumFunctionOnSet(f, A) + SumFunctionOnSet(f, s)
           G == {s \in SUBSET B : Holds(s)}
<1>1. {} \in G
  <2>1. SumFunctionOnSet(f, {}) = 0 /\ A \cup {} = A
    BY SumEmpty
  <2>2. SumFunctionOnSet(f, A) \in Int
    BY SumInt
  <2>3. QED
    BY <2>1, <2>2
<1>2. ASSUME NEW s \in SUBSET B, s # {} PROVE \E x \in s : s \ {x} \in G => s \in G
  <2>1. PICK x \in s : TRUE
    BY <1>2
  <2>2. IsFiniteSet(s) /\ IsFiniteSet(A \cup s) /\ IsFiniteSet(s \ {x})
    BY FS_Subset, FS_Union, FS_Difference
  <2>3. (A \cup s) \ {x} = A \cup (s \ {x}) /\ x \in A \cup s
    OBVIOUS
  <2>4. SumFunctionOnSet(f, A \cup s) = f[x] + SumFunctionOnSet(f, A \cup (s \ {x}))
    BY <2>2, <2>3, SumSplit
  <2>5. SumFunctionOnSet(f, s) = f[x] + SumFunctionOnSet(f, s \ {x})
    BY <2>2, SumSplit
  <2>6. f[x] \in Int /\ SumFunctionOnSet(f, A) \in Int /\ SumFunctionOnSet(f, s \ {x}) \in Int
    BY <2>2, SumInt
  <2>7. Holds(s \ {x}) => Holds(s)
    BY <2>4, <2>5, <2>6
  <2>8. QED
    BY <2>7
<1>3. \A s \in SUBSET B : s \in G
  <2> HIDE DEF G
  <2> QED BY <1>1, <1>2, SubsetInduction
<1>4. B \in G
  BY <1>3
<1>5. QED
  BY <1>4

LEMMA SumLeq ==
  ASSUME NEW f, NEW g, NEW D, IsFiniteSet(D),
         \A y \in D : f[y] \in Int /\ g[y] \in Int /\ f[y] <= g[y]
  PROVE  SumFunctionOnSet(f, D) <= SumFunctionOnSet(g, D)
<1> DEFINE Holds(s) == SumFunctionOnSet(f, s) <= SumFunctionOnSet(g, s)
           G == {s \in SUBSET D : Holds(s)}
<1>1. {} \in G
  BY SumEmpty
<1>2. ASSUME NEW s \in SUBSET D, s # {} PROVE \E x \in s : s \ {x} \in G => s \in G
  <2>1. PICK x \in s : TRUE
    BY <1>2
  <2>2. IsFiniteSet(s) /\ IsFiniteSet(s \ {x})
    BY FS_Subset, FS_Difference
  <2>3. SumFunctionOnSet(f, s) = f[x] + SumFunctionOnSet(f, s \ {x})
    BY <2>2, SumSplit
  <2>4. SumFunctionOnSet(g, s) = g[x] + SumFunctionOnSet(g, s \ {x})
    BY <2>2, SumSplit
  <2>5. SumFunctionOnSet(f, s \ {x}) \in Int /\ SumFunctionOnSet(g, s \ {x}) \in Int
    BY <2>2, SumInt
  <2>6. f[x] \in Int /\ g[x] \in Int /\ f[x] <= g[x]
    OBVIOUS
  <2>7. Holds(s \ {x}) => Holds(s)
    BY <2>3, <2>4, <2>5, <2>6
  <2>8. QED
    BY <2>7
<1>3. \A s \in SUBSET D : s \in G
  <2> HIDE DEF G
  <2> QED BY <1>1, <1>2, SubsetInduction
<1>4. D \in G
  BY <1>3
<1>5. QED
  BY <1>4

LEMMA SumAdd ==
  ASSUME NEW f, NEW g, NEW h, NEW D, IsFiniteSet(D),
         \A y \in D : f[y] \in Int /\ g[y] \in Int /\ h[y] = f[y] + g[y]
  PROVE  SumFunctionOnSet(h, D) = SumFunctionOnSet(f, D) + SumFunctionOnSet(g, D)
<1> DEFINE Holds(s) == SumFunctionOnSet(h, s) = SumFunctionOnSet(f, s) + SumFunctionOnSet(g, s)
           G == {s \in SUBSET D : Holds(s)}
<1>1. {} \in G
  BY SumEmpty
<1>2. ASSUME NEW s \in SUBSET D, s # {} PROVE \E x \in s : s \ {x} \in G => s \in G
  <2>1. PICK x \in s : TRUE
    BY <1>2
  <2>2. IsFiniteSet(s) /\ IsFiniteSet(s \ {x})
    BY FS_Subset, FS_Difference
  <2>3. SumFunctionOnSet(f, s) = f[x] + SumFunctionOnSet(f, s \ {x})
    BY <2>2, SumSplit
  <2>4. SumFunctionOnSet(g, s) = g[x] + SumFunctionOnSet(g, s \ {x})
    BY <2>2, SumSplit
  <2>5. \A y \in s : h[y] \in Int
    OBVIOUS
  <2>6. SumFunctionOnSet(h, s) = h[x] + SumFunctionOnSet(h, s \ {x})
    BY <2>2, <2>5, SumSplit
  <2>7. SumFunctionOnSet(f, s \ {x}) \in Int /\ SumFunctionOnSet(g, s \ {x}) \in Int
    BY <2>2, SumInt
  <2>8. f[x] \in Int /\ g[x] \in Int /\ h[x] = f[x] + g[x]
    OBVIOUS
  <2>9. Holds(s \ {x}) => Holds(s)
    BY <2>3, <2>4, <2>6, <2>7, <2>8
  <2>10. QED
    BY <2>9
<1>3. \A s \in SUBSET D : s \in G
  <2> HIDE DEF G
  <2> QED BY <1>1, <1>2, SubsetInduction
<1>4. D \in G
  BY <1>3
<1>5. QED
  BY <1>4

LEMMA SumScale ==
  ASSUME NEW f, NEW c \in Int, NEW h, NEW D, IsFiniteSet(D),
         \A y \in D : f[y] \in Int /\ h[y] = c * f[y]
  PROVE  SumFunctionOnSet(h, D) = c * SumFunctionOnSet(f, D)
<1> DEFINE Holds(s) == SumFunctionOnSet(h, s) = c * SumFunctionOnSet(f, s)
           G == {s \in SUBSET D : Holds(s)}
<1>1. {} \in G
  BY SumEmpty
<1>2. ASSUME NEW s \in SUBSET D, s # {} PROVE \E x \in s : s \ {x} \in G => s \in G
  <2>1. PICK x \in s : TRUE
    BY <1>2
  <2>2. IsFiniteSet(s) /\ IsFiniteSet(s \ {x})
    BY FS_Subset, FS_Difference
  <2>3. SumFunctionOnSet(f, s) = f[x] + SumFunctionOnSet(f, s \ {x})
    BY <2>2, SumSplit
  <2>4. \A y \in s : h[y] \in Int
    OBVIOUS
  <2>5. SumFunctionOnSet(h, s) = h[x] + SumFunctionOnSet(h, s \ {x})
    BY <2>2, <2>4, SumSplit
  <2>6. SumFunctionOnSet(f, s \ {x}) \in Int
    BY <2>2, SumInt
  <2>7. f[x] \in Int /\ h[x] = c * f[x]
    OBVIOUS
  <2>8. \A a, b \in Int : c * (a + b) = c * a + c * b
    OBVIOUS
  <2>9. Holds(s \ {x}) => Holds(s)
    BY <2>3, <2>5, <2>6, <2>7, <2>8
  <2>10. QED
    BY <2>9
<1>3. \A s \in SUBSET D : s \in G
  <2> HIDE DEF G
  <2> QED BY <1>1, <1>2, SubsetInduction
<1>4. D \in G
  BY <1>3
<1>5. QED
  BY <1>4

LEMMA SumConst ==
  ASSUME NEW f, NEW c \in Int, NEW D, IsFiniteSet(D), \A y \in D : f[y] = c
  PROVE  SumFunctionOnSet(f, D) = c * Cardinality(D)
<1> DEFINE Holds(s) == SumFunctionOnSet(f, s) = c * Cardinality(s)
           G == {s \in SUBSET D : Holds(s)}
<1>1. {} \in G
  BY SumEmpty, FS_EmptySet
<1>2. ASSUME NEW s \in SUBSET D, s # {} PROVE \E x \in s : s \ {x} \in G => s \in G
  <2>1. PICK x \in s : TRUE
    BY <1>2
  <2>2. IsFiniteSet(s) /\ IsFiniteSet(s \ {x})
    BY FS_Subset, FS_Difference
  <2>3. SumFunctionOnSet(f, s) = f[x] + SumFunctionOnSet(f, s \ {x})
    BY <2>2, SumSplit
  <2>4. Cardinality(s \ {x}) = Cardinality(s) - 1 /\ Cardinality(s) \in Nat
    BY <2>2, FS_RemoveElement, FS_CardinalityType
  <2>5. \A k \in Nat : c * k = c + c * (k - 1)
    OBVIOUS
  <2>6. Holds(s \ {x}) => Holds(s)
    BY <2>3, <2>4, <2>5
  <2>7. QED
    BY <2>6
<1>3. \A s \in SUBSET D : s \in G
  <2> HIDE DEF G
  <2> QED BY <1>1, <1>2, SubsetInduction
<1>4. D \in G
  BY <1>3
<1>5. QED
  BY <1>4

LEMMA SumSingleton ==
  ASSUME NEW f, NEW x, f[x] \in Int
  PROVE  SumFunctionOnSet(f, {x}) = f[x]
<1>1. IsFiniteSet({x}) /\ {x} \ {x} = {}
  BY FS_Singleton
<1>2. SumFunctionOnSet(f, {x}) = f[x] + SumFunctionOnSet(f, {x} \ {x})
  BY <1>1, SumSplit
<1>3. QED
  BY <1>1, <1>2, SumEmpty

(* Amounts that are not negative: their sum is not, and is at least that of any part of them. *)
LEMMA SumNat ==
  ASSUME NEW f, NEW D, IsFiniteSet(D), \A y \in D : f[y] \in Nat
  PROVE  SumFunctionOnSet(f, D) \in Nat
<1> DEFINE z == [y \in D |-> 0]
<1>1. \A y \in D : z[y] \in Int /\ f[y] \in Int /\ z[y] <= f[y]
  OBVIOUS
<1>2. \A y \in D : z[y] = 0
  OBVIOUS
<1> HIDE DEF z
<1>3. SumFunctionOnSet(z, D) <= SumFunctionOnSet(f, D)
  BY <1>1, SumLeq
<1>4. SumFunctionOnSet(z, D) = 0 * Cardinality(D)
  BY <1>2, SumConst
<1>5. Cardinality(D) \in Nat
  BY FS_CardinalityType
<1>6. SumFunctionOnSet(f, D) \in Int
  BY <1>1, SumInt
<1>7. QED
  BY <1>3, <1>4, <1>5, <1>6

LEMMA SumPart ==
  ASSUME NEW f, NEW D, IsFiniteSet(D), \A y \in D : f[y] \in Nat, NEW A \in SUBSET D
  PROVE  /\ SumFunctionOnSet(f, A) <= SumFunctionOnSet(f, D)
         /\ SumFunctionOnSet(f, D) = SumFunctionOnSet(f, A) + SumFunctionOnSet(f, D \ A)
<1>1. IsFiniteSet(A) /\ IsFiniteSet(D \ A)
  BY FS_Subset, FS_Difference
<1>2. A \cup (D \ A) = D /\ A \cap (D \ A) = {} /\ \A y \in D : f[y] \in Int
  OBVIOUS
<1>3. SumFunctionOnSet(f, A \cup (D \ A)) = SumFunctionOnSet(f, A) + SumFunctionOnSet(f, D \ A)
  BY <1>1, <1>2, SumUnion
<1>4. SumFunctionOnSet(f, A) \in Nat /\ SumFunctionOnSet(f, D \ A) \in Nat
  BY <1>1, SumNat
<1>5. SumFunctionOnSet(f, D) = SumFunctionOnSet(f, A) + SumFunctionOnSet(f, D \ A)
  BY <1>2, <1>3, Zenon
<1>6. QED
  BY <1>4, <1>5

(* Outside of A there is nothing to add. *)
LEMMA SumSupport ==
  ASSUME NEW f, NEW D, IsFiniteSet(D), \A y \in D : f[y] \in Int,
         NEW A \in SUBSET D, \A y \in D \ A : f[y] = 0
  PROVE  SumFunctionOnSet(f, D) = SumFunctionOnSet(f, A)
<1>1. IsFiniteSet(A) /\ IsFiniteSet(D \ A)
  BY FS_Subset, FS_Difference
<1>2. A \cup (D \ A) = D /\ A \cap (D \ A) = {}
  OBVIOUS
<1>3. SumFunctionOnSet(f, A \cup (D \ A)) = SumFunctionOnSet(f, A) + SumFunctionOnSet(f, D \ A)
  BY <1>1, <1>2, SumUnion
<1>4. SumFunctionOnSet(f, D \ A) = 0 * Cardinality(D \ A)
  BY <1>1, SumConst
<1>5. Cardinality(D \ A) \in Nat /\ SumFunctionOnSet(f, A) \in Int
  BY <1>1, FS_CardinalityType, SumInt
<1>6. SumFunctionOnSet(f, D) = SumFunctionOnSet(f, A) + SumFunctionOnSet(f, D \ A)
  BY <1>2, <1>3, Zenon
<1>7. QED
  BY <1>4, <1>5, <1>6

(* The two ways in which the modules add up amounts agree. *)
LEMMA SumIsTotal ==
  ASSUME NEW D, IsFiniteSet(D), NEW f \in [D -> Nat]
  PROVE  SumFunction(f) = Total(f)
<1>1. Gains(f, D) = f
  <2>1. \A y \in D : (IF f[y] > 0 THEN f[y] ELSE 0) = f[y]
    OBVIOUS
  <2>2. QED
    BY <2>1 DEF Gains
<1>2. Total(Losses(f, D)) = 0
  <2>1. Losses(f, D) \in [D -> Nat] /\ \A y \in D : Losses(f, D)[y] = 0
    BY DEF Losses
  <2>2. QED
    BY <2>1, TotalZero
<1>3. SumFunctionOnSet(f, D) = Signed(f, D)
  BY SumIsSigned
<1>4. Total(f) \in Nat /\ DOMAIN f = D
  BY TotalType
<1>5. QED
  BY <1>1, <1>2, <1>3, <1>4 DEF Signed, SumFunction

-----------------------------------------------------------------------------
(* The host's fee and the amounts of the paid places. *)

LEMMA DivFloor ==
  ASSUME NEW a \in Nat, NEW b \in Nat \ {0}
  PROVE  /\ a \div b \in Nat
         /\ b * (a \div b) <= a
         /\ a < b * (a \div b) + b
OBVIOUS

(* What is at most a quotient, and what is at least one. *)
LEMMA DivBounds ==
  ASSUME NEW a \in Nat, NEW b \in Nat \ {0}, NEW q \in Nat
  PROVE  /\ b * q <= a => q <= a \div b
         /\ a <= b * q => a \div b <= q
         /\ a < b * q => a \div b < q
<1> DEFINE d == a \div b
<1>1. d \in Nat /\ b * d <= a /\ a < b * d + b
  BY DivFloor
<1> HIDE DEF d
<1>2. ASSUME b * q <= a, d < q PROVE FALSE
  <2>1. b * (d + 1) <= b * q
    BY <1>1, <1>2
  <2>2. b * (d + 1) = b * d + b
    BY <1>1
  <2>3. b * d + b \in Nat /\ b * q \in Nat
    BY <1>1
  <2>4. QED
    BY <1>1, <1>2, <2>1, <2>2, <2>3
<1>3. ASSUME a <= b * q, d > q PROVE FALSE
  <2>1. b * (q + 1) <= b * d
    BY <1>1, <1>3
  <2>2. b * (q + 1) = b * q + b /\ b * q \in Nat /\ b * d \in Nat
    BY <1>1
  <2>3. QED
    BY <1>1, <1>3, <2>1, <2>2
<1>4. ASSUME a < b * q, d >= q PROVE FALSE
  <2>1. b * q <= b * d
    BY <1>1, <1>4
  <2>2. b * q \in Nat /\ b * d \in Nat
    BY <1>1
  <2>3. QED
    BY <1>1, <1>4, <2>1, <2>2
<1>5. (b * q <= a => q <= d) /\ (a <= b * q => d <= q) /\ (a < b * q => d < q)
  BY <1>1, <1>2, <1>3, <1>4
<1>6. QED
  BY <1>5 DEF d

(* The least and the greatest of two amounts, as Max and Min of the community modules give them. *)
LEMMA MaxOfTwo ==
  ASSUME NEW a \in Int, NEW b \in Int
  PROVE  Max({a, b}) \in {a, b} /\ Max({a, b}) >= a /\ Max({a, b}) >= b
<1>1. \E x \in {a, b} : \A y \in {a, b} : x >= y
  <2>1. CASE a >= b
    BY <2>1
  <2>2. CASE b >= a
    BY <2>2
  <2>3. QED
    BY <2>1, <2>2
<1>2. QED
  BY <1>1 DEF Max

LEMMA MinOfTwo ==
  ASSUME NEW a \in Int, NEW b \in Int
  PROVE  Min({a, b}) \in {a, b} /\ Min({a, b}) <= a /\ Min({a, b}) <= b
<1>1. \E x \in {a, b} : \A y \in {a, b} : x <= y
  <2>1. CASE a <= b
    BY <2>1
  <2>2. CASE b <= a
    BY <2>2
  <2>3. QED
    BY <2>1, <2>2
<1>2. QED
  BY <1>1 DEF Min

(* Whatever fee is asked for, the host's is at most the greatest one allowed. *)
LEMMA HostFeeBound ==
  ASSUME NEW pool \in Nat, NEW pct \in Int
  PROVE  /\ HostFeeOf(pool, pct) \in 0..pool
         /\ 100 * HostFeeOf(pool, pct) <= MaxHostFeePct * pool
<1> DEFINE n == NormalizeHostFeePct(pct)
           q == (pool * n) \div 100
<1>1. n \in Nat /\ n <= MaxHostFeePct
  <2>1. MaxHostFeePct \in Nat
    BY MaxHostFeeAssumption
  <2>2. Min({MaxHostFeePct, pct}) \in {MaxHostFeePct, pct} /\ Min({MaxHostFeePct, pct}) <= MaxHostFeePct
    BY <2>1, MinOfTwo
  <2>3. Min({MaxHostFeePct, pct}) \in Int
    BY <2>1, <2>2
  <2>4. \A z, m \in Int : Max({z, m}) \in {z, m} /\ Max({z, m}) >= z
    BY MaxOfTwo
  <2>5. /\ Max({0, Min({MaxHostFeePct, pct})}) \in {0, Min({MaxHostFeePct, pct})}
        /\ Max({0, Min({MaxHostFeePct, pct})}) >= 0
    BY <2>3, <2>4
  <2>6. QED
    BY <2>1, <2>2, <2>3, <2>5 DEF NormalizeHostFeePct
<1> HIDE DEF n
<1>2. pool * n \in Nat /\ pool * n <= MaxHostFeePct * pool
  <2>1. PICK d \in Nat : MaxHostFeePct = n + d
    <3>1. MaxHostFeePct - n \in Nat /\ MaxHostFeePct = n + (MaxHostFeePct - n)
      BY <1>1, MaxHostFeeAssumption
    <3>2. QED
      BY <3>1
  <2>2. (n + d) * pool = pool * n + d * pool /\ pool * n \in Nat /\ d * pool \in Nat
    BY <1>1
  <2>3. QED
    BY <2>1, <2>2
<1>3. q \in Nat /\ 100 * q <= pool * n
  BY <1>2, DivFloor
<1> HIDE DEF q
<1>4. 100 * q <= MaxHostFeePct * pool
  BY <1>2, <1>3, MaxHostFeeAssumption
<1>5. q <= pool
  <2>1. PICK d \in Nat : 100 = MaxHostFeePct + d
    <3>1. 100 - MaxHostFeePct \in Nat /\ 100 = MaxHostFeePct + (100 - MaxHostFeePct)
      BY MaxHostFeeAssumption
    <3>2. QED
      BY <3>1
  <2>2. (MaxHostFeePct + d) * pool = MaxHostFeePct * pool + d * pool
    BY MaxHostFeeAssumption
  <2>3. d * pool \in Nat /\ MaxHostFeePct * pool \in Nat
    BY MaxHostFeeAssumption
  <2>4. 100 * q <= 100 * pool
    BY <1>3, <1>4, <2>1, <2>2, <2>3
  <2>5. QED
    BY <1>3, <2>4
<1>6. HostFeeOf(pool, pct) = q
  BY DEF HostFeeOf, q, n
<1>7. QED
  BY <1>3, <1>4, <1>5, <1>6

LEMMA PlacesFinite == IsFiniteSet(1..3)
<1>1. 1 \in Int /\ 3 \in Int
  OBVIOUS
<1>2. QED
  BY ONLY <1>1, FS_Interval

At(f, T, k) == IF k \in T THEN f[k] ELSE 0

LEMMA SumPeel ==
  ASSUME NEW f, NEW T, IsFiniteSet(T), \A y \in T : f[y] \in Int, NEW k
  PROVE  SumFunctionOnSet(f, T) = At(f, T, k) + SumFunctionOnSet(f, T \ {k})
<1>1. CASE k \in T
  <2>1. SumFunctionOnSet(f, T) = f[k] + SumFunctionOnSet(f, T \ {k})
    BY <1>1, SumSplit
  <2>2. QED
    BY <1>1, <2>1 DEF At
<1>2. CASE k \notin T
  <2>1. T \ {k} = T
    BY <1>2
  <2>2. SumFunctionOnSet(f, T) \in Int
    BY SumInt
  <2>3. SumFunctionOnSet(f, T \ {k}) = SumFunctionOnSet(f, T)
    BY <2>1, Zenon
  <2>4. QED
    BY <1>2, <2>2, <2>3 DEF At
<1>3. QED
  BY <1>1, <1>2

LEMMA SumPeelThree ==
  ASSUME NEW f, NEW S, IsFiniteSet(S), \A y \in S : f[y] \in Int, NEW i, NEW j, NEW k
  PROVE  SumFunctionOnSet(f, S) = At(f, S, i) + (At(f, S \ {i}, j)
                + (At(f, (S \ {i}) \ {j}, k) + SumFunctionOnSet(f, ((S \ {i}) \ {j}) \ {k})))
<1> DEFINE S1 == S \ {i}
           S2 == S1 \ {j}
           S3 == S2 \ {k}
<1>1. IsFiniteSet(S1) /\ IsFiniteSet(S2)
  BY FS_Difference
<1>2. (\A y \in S1 : f[y] \in Int) /\ (\A y \in S2 : f[y] \in Int)
  OBVIOUS
<1>3. SumFunctionOnSet(f, S) = At(f, S, i) + SumFunctionOnSet(f, S1)
  BY SumPeel
<1>4. SumFunctionOnSet(f, S1) = At(f, S1, j) + SumFunctionOnSet(f, S2)
  <2> HIDE DEF S1
  <2> QED BY <1>1, <1>2, SumPeel
<1>5. SumFunctionOnSet(f, S2) = At(f, S2, k) + SumFunctionOnSet(f, S3)
  <2> HIDE DEF S2
  <2> QED BY <1>1, <1>2, SumPeel
<1>6. QED
  BY <1>3, <1>4, <1>5, Zenon

(* A sum over some of the first three places. *)
LEMMA SumOfPlaces ==
  ASSUME NEW f, NEW S, S \subseteq 1..3, \A k \in S : f[k] \in Int
  PROVE  SumFunctionOnSet(f, S) = At(f, S, 1) + At(f, S, 2) + At(f, S, 3)
<1> DEFINE S1 == S \ {1}
           S2 == S1 \ {2}
           S3 == S2 \ {3}
<1>1. IsFiniteSet(S)
  BY PlacesFinite, FS_Subset
<1>2. SumFunctionOnSet(f, S)
        = At(f, S, 1) + (At(f, S1, 2) + (At(f, S2, 3) + SumFunctionOnSet(f, S3)))
  BY ONLY <1>1, \A y \in S : f[y] \in Int, SumPeelThree
<1>3. S3 = {}
  OBVIOUS
<1>4. SumFunctionOnSet(f, S3) = 0
  BY <1>3, SumEmpty, Zenon
<1>5. At(f, S1, 2) = At(f, S, 2) /\ At(f, S2, 3) = At(f, S, 3)
  BY DEF At
<1>6. At(f, S, 1) \in Int /\ At(f, S, 2) \in Int /\ At(f, S, 3) \in Int
  BY DEF At
<1> HIDE DEF S1, S2, S3
<1>7. QED
  BY <1>2, <1>4, <1>5, <1>6

(* In an arena whose players are all funded, one or three places are paid. *)
LEMMA PaidPlacesAre ==
  ASSUME NEW n \in Nat
  PROVE  PaidPlaces(n, n) = IF n <= 2 THEN 1 ELSE 3
<1>1. \A a, b \in Int : Min({a, b}) \in {a, b} /\ Min({a, b}) <= a /\ Min({a, b}) <= b
  BY MinOfTwo
<1>2. Min({3, n}) \in {3, n} /\ Min({3, n}) <= 3 /\ Min({3, n}) <= n
  BY <1>1
<1>3. QED
  BY <1>2 DEF PaidPlaces

(* The amounts are worth the pool, the best place the most, and none is a unit away from its
   percentage, but for the first place, which gains what the others lose. *)
LEMMA AmountsAre ==
  ASSUME NEW pool \in Nat, NEW places \in {1, 3}
  PROVE  LET amounts == PlaceAmounts(pool, places) IN
         /\ amounts \in [1..places -> Nat]
         /\ SumFunctionOnSet(amounts, 1..places) = pool
         /\ places = 3 =>
              /\ amounts[1] >= amounts[2] + amounts[3] /\ amounts[2] >= amounts[3]
              /\ Parts * amounts[1] - pool * 40 \in 0..126
              /\ Parts * amounts[2] - pool * 15 \in -63..0
              /\ Parts * amounts[3] - pool * 9 \in -63..0
<1> DEFINE amounts == PlaceAmounts(pool, places)
           rest == [k \in 2..places |-> Part(pool, k)]
           second == (pool * 15) \div 64
           third == (pool * 9) \div 64
<1>1. SPLIT_3[1] = 40 /\ SPLIT_3[2] = 15 /\ SPLIT_3[3] = 9 /\ Parts = 64
  BY DEF SPLIT_3, Parts
<1>2. Part(pool, 2) = second /\ Part(pool, 3) = third
  BY <1>1 DEF Part
<1>3. /\ second \in Nat /\ 64 * second <= pool * 15 /\ pool * 15 < 64 * second + 64
      /\ third \in Nat /\ 64 * third <= pool * 9 /\ pool * 9 < 64 * third + 64
      /\ third <= second
  <2>1. pool * 15 \in Nat /\ pool * 9 \in Nat
    OBVIOUS
  <2>2. /\ second \in Nat /\ 64 * second <= pool * 15 /\ pool * 15 < 64 * second + 64
        /\ third \in Nat /\ 64 * third <= pool * 9 /\ pool * 9 < 64 * third + 64
    BY <2>1, DivFloor
  <2> HIDE DEF second, third
  <2>3. QED
    BY <2>1, <2>2
<1> HIDE DEF second, third
<1>4. DOMAIN rest = 2..places /\ SumFunction(rest) = IF places = 1 THEN 0 ELSE second + third
  <2>1. 2..places \subseteq 1..3
    OBVIOUS
  <2>2. \A k \in 2..places : rest[k] \in Int
    <3>1. \A k \in 2..places : k \in {2, 3} /\ rest[k] = Part(pool, k)
      OBVIOUS
    <3>2. QED
      BY <1>2, <1>3, <3>1
  <2>3. SumFunctionOnSet(rest, 2..places) =
           At(rest, 2..places, 1) + At(rest, 2..places, 2) + At(rest, 2..places, 3)
    <3> HIDE DEF rest
    <3> QED BY <2>1, <2>2, SumOfPlaces
  <2>4. 1 \notin 2..places
    OBVIOUS
  <2>5. CASE places = 1
    <3>1. 2 \notin 2..places /\ 3 \notin 2..places
      BY <2>5
    <3>2. QED
      BY <2>3, <2>4, <2>5, <3>1 DEF SumFunction, At
  <2>6. CASE places = 3
    <3>1. 2 \in 2..places /\ 3 \in 2..places
      BY <2>6
    <3>2. rest[2] = second /\ rest[3] = third
      BY <1>2, <3>1
    <3>3. QED
      BY <1>3, <2>3, <2>4, <2>6, <3>1, <3>2 DEF SumFunction, At
  <2>7. QED
    BY <2>5, <2>6
<1>5. amounts = [i \in 1..places |-> IF i = 1 THEN pool - SumFunction(rest) ELSE Part(pool, i)]
  BY DEF PlaceAmounts
<1> HIDE DEF amounts, rest
<1>6. CASE places = 1
  <2>1. amounts = [i \in 1..1 |-> pool]
    BY <1>4, <1>5, <1>6
  <2>2. amounts \in [1..1 -> Nat] /\ amounts[1] = pool
    BY <2>1
  <2>3. 1..1 = {1}
    OBVIOUS
  <2>4. SumFunctionOnSet(amounts, {1}) = pool
    BY <2>2, SumSingleton
  <2>5. SumFunctionOnSet(amounts, 1..1) = pool
    BY <2>3, <2>4, Zenon
  <2>6. QED
    BY <1>6, <2>2, <2>5 DEF amounts
<1>7. CASE places = 3
  <2>1. amounts[1] = pool - second - third /\ amounts[2] = second /\ amounts[3] = third
    BY <1>2, <1>3, <1>4, <1>5, <1>7
  <2>2. amounts[1] \in Nat
    BY <1>3, <2>1
  <2>3. amounts \in [1..3 -> Nat]
    <3>1. \A k \in 1..3 : k \in {1, 2, 3}
      OBVIOUS
    <3>2. \A k \in 1..3 : amounts[k] \in Nat
      BY <1>3, <2>1, <2>2, <3>1
    <3>3. amounts = [k \in 1..3 |-> amounts[k]]
      BY <1>5, <1>7
    <3>4. QED
      BY <3>2, <3>3
  <2>4. SumFunctionOnSet(amounts, 1..3) = amounts[1] + amounts[2] + amounts[3]
    <3>1. 1..3 \subseteq 1..3 /\ \A k \in 1..3 : amounts[k] \in Int
      BY <2>3
    <3>2. 1 \in 1..3 /\ 2 \in 1..3 /\ 3 \in 1..3
      OBVIOUS
    <3>3. QED
      BY <3>1, <3>2, SumOfPlaces DEF At
  <2>5. SumFunctionOnSet(amounts, 1..3) = pool
    BY <1>3, <2>1, <2>4
  <2>6. /\ amounts[1] >= amounts[2] + amounts[3] /\ amounts[2] >= amounts[3]
        /\ Parts * amounts[1] - pool * 40 \in 0..126
        /\ Parts * amounts[2] - pool * 15 \in -63..0
        /\ Parts * amounts[3] - pool * 9 \in -63..0
    BY <1>1, <1>3, <2>1
  <2>7. QED
    BY <1>7, <2>3, <2>5, <2>6 DEF amounts
<1>8. QED
  BY <1>6, <1>7

-----------------------------------------------------------------------------
(* Prizes. *)

LEMMA LeastNatural ==
  ASSUME NEW T, T \subseteq Nat, T # {}
  PROVE  Min(T) \in T /\ \A y \in T : Min(T) <= y
<1> DEFINE R == {ss \in Nat \X Nat : ss[1] < ss[2]}
<1>1. IsWellFoundedOn(R, Nat)
  BY NatLessThanWellFounded DEF OpToRel
<1>2. PICK x \in T : \A y \in T : ~(<<y, x>> \in R)
  <2> HIDE DEF R
  <2> QED BY <1>1, WFMin
<1>3. \A y \in T : x <= y
  <2>1. ASSUME NEW y \in T PROVE x <= y
    <3>1. x \in Nat /\ y \in Nat
      OBVIOUS
    <3>2. ~(<<y, x>> \in R)
      BY <1>2
    <3>3. QED
      BY <3>1, <3>2
  <2>2. QED
    BY <2>1
<1>4. QED
  BY <1>2, <1>3 DEF Min

LEMMA PayoutsAreThePool ==
  ASSUME NEW pool \in Nat, NEW n \in Nat \ {0}
  PROVE  LET prize == ComputePayouts(pool, n, n) IN
         /\ prize \in [1..n -> Nat]
         /\ SumFunction(prize) = pool
         /\ \A i, j \in 1..n : i < j => prize[i] >= prize[j]
         /\ \A i \in 1..n : n >= 3 =>
              Parts * prize[i] - pool * SumFunctionOnSet(SPLIT_3, {i} \cap 1..3) \in -126..126
<1> DEFINE places == PaidPlaces(n, n)
           amounts == PlaceAmounts(pool, places)
           prize == ComputePayouts(pool, n, n)
<1>1. places \in {1, 3} /\ places <= n /\ (n >= 3 => places = 3) /\ n \in Nat
  BY PaidPlacesAre
<1> HIDE DEF places
<1>2. /\ amounts \in [1..places -> Nat]
      /\ SumFunctionOnSet(amounts, 1..places) = pool
      /\ places = 3 =>
           /\ amounts[1] >= amounts[2] + amounts[3] /\ amounts[2] >= amounts[3]
           /\ Parts * amounts[1] - pool * 40 \in 0..126
           /\ Parts * amounts[2] - pool * 15 \in -63..0
           /\ Parts * amounts[3] - pool * 9 \in -63..0
  BY <1>1, AmountsAre
<1> HIDE DEF amounts
<1>3. prize = [i \in 1..n |-> IF i \in 1..places THEN amounts[i] ELSE 0]
  <2>1. DOMAIN amounts = 1..places
    BY <1>2
  <2>2. QED
    BY <2>1 DEF ComputePayouts, amounts, places
<1> HIDE DEF prize
<1>4. prize \in [1..n -> Nat]
  BY <1>2, <1>3
<1>5. SumFunction(prize) = pool
  <2>1. IsFiniteSet(1..n) /\ IsFiniteSet(1..places)
    <3>1. 1 \in Int /\ n \in Int /\ places \in Int
      BY <1>1
    <3>2. QED
      BY ONLY <3>1, FS_Interval
  <2>2. 1..places \in SUBSET (1..n)
    BY <1>1
  <2>3. (\A y \in 1..n : prize[y] \in Int) /\ (\A y \in (1..n) \ (1..places) : prize[y] = 0)
    BY <1>3, <1>4
  <2>4. SumFunctionOnSet(prize, 1..n) = SumFunctionOnSet(prize, 1..places)
    BY <2>1, <2>2, <2>3, SumSupport
  <2>5. \A y \in 1..places : amounts[y] \in Int /\ prize[y] = amounts[y]
    BY <1>1, <1>2, <1>3
  <2>6. SumFunctionOnSet(prize, 1..places) = SumFunctionOnSet(amounts, 1..places)
    BY <2>1, <2>5, SumCong
  <2>7. DOMAIN prize = 1..n
    BY <1>3
  <2>8. QED
    BY <1>2, <2>4, <2>6, <2>7 DEF SumFunction
<1>6. ASSUME NEW i \in 1..n, NEW j \in 1..n, i < j
      PROVE  prize[i] >= prize[j]
  <2>1. CASE places = 1
    <3>1. j \notin 1..places
      BY <1>6, <2>1
    <3>2. QED
      BY <1>3, <1>4, <3>1
  <2>2. CASE places = 3
    <3>1. amounts[1] \in Nat /\ amounts[2] \in Nat /\ amounts[3] \in Nat
      BY <1>2, <2>2
    <3>2. prize[j] = 0 \/ j \in {2, 3}
      BY <1>3, <1>6, <2>2
    <3>3. j \in {2, 3} => i \in {1, 2} /\ prize[i] = amounts[i] /\ prize[j] = amounts[j]
      BY <1>3, <1>6, <2>2
    <3>4. QED
      BY <1>2, <1>4, <1>6, <2>2, <3>1, <3>2, <3>3
  <2>3. QED
    BY <1>1, <2>1, <2>2
<1>7. ASSUME NEW i \in 1..n, n >= 3
      PROVE  Parts * prize[i] - pool * SumFunctionOnSet(SPLIT_3, {i} \cap 1..3) \in -126..126
  <2>1. places = 3
    BY <1>1, <1>7
  <2>2. SPLIT_3[1] = 40 /\ SPLIT_3[2] = 15 /\ SPLIT_3[3] = 9 /\ Parts = 64
    BY DEF SPLIT_3, Parts
  <2>3. CASE i \in 1..3
    <3>1. {i} \cap 1..3 = {i}
      BY <2>3
    <3>2. i \in {1, 2, 3}
      BY <2>3
    <3>3. SPLIT_3[i] \in Int
      BY <2>2, <3>2
    <3>4. SumFunctionOnSet(SPLIT_3, {i}) = SPLIT_3[i]
      BY <3>3, SumSingleton
    <3>5. SumFunctionOnSet(SPLIT_3, {i} \cap 1..3) = SPLIT_3[i]
      BY <3>1, <3>4, Zenon
    <3>6. prize[i] = amounts[i]
      BY <1>3, <2>1, <2>3
    <3>7. Parts * amounts[i] - pool * SPLIT_3[i] \in -126..126
      BY <1>2, <2>1, <2>2, <3>2
    <3>8. QED
      BY <3>5, <3>6, <3>7
  <2>4. CASE i \notin 1..3
    <3>1. {i} \cap 1..3 = {}
      BY <2>4
    <3>2. SumFunctionOnSet(SPLIT_3, {i} \cap 1..3) = 0
      BY <3>1, SumEmpty, Zenon
    <3>3. prize[i] = 0
      BY <1>3, <2>1, <2>4
    <3>4. QED
      BY <2>2, <3>2, <3>3
  <2>5. QED
    BY <2>3, <2>4
<1>8. QED
  BY <1>4, <1>5, <1>6, <1>7 DEF prize

(* A group that shares an amount alike, but for the odd units, which its first takes. *)
LEMMA SharedAlike ==
  ASSUME NEW g, IsFiniteSet(g), g \subseteq Nat, g # {}, NEW share \in Nat, NEW f,
         LET each == share \div Cardinality(g) IN
         \A i \in g : f[i] = IF i = Min(g) THEN share - each * (Cardinality(g) - 1) ELSE each
  PROVE  /\ SumFunctionOnSet(f, g) = share
         /\ \A i \in g : f[i] \in Nat /\ share \div Cardinality(g) <= f[i] /\ f[i] <= share
         /\ \A i, j \in g : f[i] - f[j] < Cardinality(g) /\ (i < j => f[i] >= f[j])
<1> DEFINE n == Cardinality(g)
           each == share \div n
           m == Min(g)
<1>1. n \in Nat \ {0}
  BY FS_CardinalityType, FS_EmptySet
<1>2. m \in g /\ \A y \in g : m <= y
  BY LeastNatural
<1>3. \A i \in g : f[i] = IF i = m THEN share - each * (n - 1) ELSE each
  OBVIOUS
<1> HIDE DEF n, m
<1>4. each \in Nat /\ n * each <= share /\ share < n * each + n
  BY <1>1, DivFloor
<1> HIDE DEF each
<1>5. each * (n - 1) = n * each - each /\ n * each \in Nat
  BY <1>1, <1>4
<1>6. f[m] = share - n * each + each
  BY <1>2, <1>3, <1>4, <1>5
<1>7. \A i \in g \ {m} : f[i] = each
  BY <1>3
<1>8. SumFunctionOnSet(f, g) = share
  <2>1. IsFiniteSet(g \ {m}) /\ Cardinality(g \ {m}) = n - 1
    BY <1>2, FS_RemoveElement DEF n
  <2>2. SumFunctionOnSet(f, g \ {m}) = each * Cardinality(g \ {m})
    <3>1. each \in Int
      BY <1>4
    <3>2. QED
      BY ONLY <1>7, <2>1, <3>1, SumConst
  <2>3. \A y \in g : f[y] \in Int
    BY <1>4, <1>5, <1>6, <1>7
  <2>4. SumFunctionOnSet(f, g) = f[m] + SumFunctionOnSet(f, g \ {m})
    <3>1. IsFiniteSet(g)
      OBVIOUS
    <3>2. QED
      BY ONLY <1>2, <2>3, <3>1, SumSplit
  <2>5. QED
    BY <1>4, <1>5, <1>6, <2>1, <2>2, <2>4
<1>9. each <= share
  <2>1. PICK k \in Nat : n = k + 1
    <3>1. n - 1 \in Nat /\ n = (n - 1) + 1
      BY <1>1
    <3>2. QED
      BY <3>1
  <2>2. n * each = k * each + each /\ k * each \in Nat
    BY <1>4, <2>1
  <2>3. QED
    BY <1>4, <2>2
<1>10. f[m] \in Nat /\ each <= f[m] /\ f[m] <= share /\ f[m] - each < n
  <2>1. each <= n * each
    <3>1. each * (n - 1) \in Nat
      BY <1>1, <1>4
    <3>2. QED
      BY <1>4, <1>5, <3>1
  <2>2. QED
    BY <1>1, <1>4, <1>5, <1>6, <2>1
<1>11. \A i \in g : f[i] \in Nat /\ each <= f[i] /\ f[i] <= share
  BY <1>4, <1>7, <1>9, <1>10
<1>12. ASSUME NEW i \in g, NEW j \in g
       PROVE  f[i] - f[j] < n /\ (i < j => f[i] >= f[j])
  <2>1. f[i] = each \/ i = m
    BY <1>7
  <2>2. i < j => j # m
    <3>1. i \in Nat /\ j \in Nat /\ m \in Nat
      BY <1>2
    <3>2. QED
      BY <1>2, <3>1
  <2>3. QED
    BY <1>1, <1>4, <1>7, <1>10, <1>11, <2>1, <2>2
<1>13. QED
  BY <1>8, <1>11, <1>12 DEF each, n

(* What a group of tied players is paid: the places it covers are worth Cover. *)
Cover(amounts, places, score, i) == SumFunctionOnSet(amounts, TiedWith(score, i) \cap 1..places)

LEMMA TiedGroup ==
  ASSUME NEW n \in Nat, NEW score \in [1..n -> Nat], NEW i \in 1..n
  PROVE  /\ TiedWith(score, i) \subseteq 1..n /\ i \in TiedWith(score, i)
         /\ IsFiniteSet(TiedWith(score, i))
         /\ \A k \in TiedWith(score, i) : TiedWith(score, k) = TiedWith(score, i)
         /\ \A k \in 1..n : k \notin TiedWith(score, i) <=> score[k] # score[i]
<1>1. IsFiniteSet(1..n)
  <2>1. 1 \in Int /\ n \in Int
    OBVIOUS
  <2>2. QED
    BY ONLY <2>1, FS_Interval
<1>2. TiedWith(score, i) \in SUBSET (1..n)
  BY DEF TiedWith
<1>3. IsFiniteSet(TiedWith(score, i))
  BY <1>1, <1>2, FS_Subset
<1>4. QED
  BY <1>2, <1>3 DEF TiedWith

LEMMA CoverBounds ==
  ASSUME NEW n \in Nat, NEW score \in [1..n -> Nat], NEW i \in 1..n,
         NEW places \in {1, 3}, NEW amounts \in [1..places -> Nat]
  PROVE  LET g == TiedWith(score, i) IN
         /\ Cover(amounts, places, score, i) \in Nat
         /\ Cover(amounts, places, score, i) = At(amounts, g \cap 1..places, 1)
                + At(amounts, g \cap 1..places, 2) + At(amounts, g \cap 1..places, 3)
<1> DEFINE g == TiedWith(score, i)
           c == g \cap 1..places
<1>1. c \subseteq 1..3 /\ \A k \in c : amounts[k] \in Nat
  OBVIOUS
<1>2. IsFiniteSet(c)
  <2>1. c \in SUBSET (1..3)
    BY <1>1
  <2> HIDE DEF c
  <2>2. QED
    BY <2>1, PlacesFinite, FS_Subset
<1> HIDE DEF c
<1>3. \A k \in c : amounts[k] \in Int
  BY <1>1
<1>4. SumFunctionOnSet(amounts, c) = At(amounts, c, 1) + At(amounts, c, 2) + At(amounts, c, 3)
  BY ONLY <1>1, <1>3, SumOfPlaces
<1>5. SumFunctionOnSet(amounts, c) \in Nat
  BY ONLY <1>1, <1>2, SumNat
<1>6. QED
  BY <1>4, <1>5 DEF Cover, c

LEMMA GroupPayoutsAre ==
  ASSUME NEW pool \in Nat, NEW n \in Nat \ {0}, NEW score \in [1..n -> Nat],
         NEW places, places = PaidPlaces(n, n), NEW amounts, amounts = PlaceAmounts(pool, places)
  PROVE  LET prize == ComputeGroupPayouts(pool, score, n) IN
         /\ DOMAIN prize = 1..n
         /\ \A i \in 1..n : LET g == TiedWith(score, i)
                                share == Cover(amounts, places, score, i)
                                each == share \div Cardinality(g)
                            IN prize[i] = IF i = Min(g) THEN share - each * (Cardinality(g) - 1)
                                          ELSE each
<1>1. places \in {1, 3} /\ places <= n
  BY PaidPlacesAre
<1>2. amounts \in [1..places -> Nat]
  BY <1>1, AmountsAre
<1>3. Len(score) = n /\ DOMAIN score = 1..n /\ DOMAIN amounts = 1..places
  BY <1>2
<1>4. QED
  BY <1>1, <1>3 DEF ComputeGroupPayouts, Cover

(* Each group is paid what its places are worth. *)
LEMMA GroupIsPaid ==
  ASSUME NEW pool \in Nat, NEW n \in Nat \ {0}, NEW score \in [1..n -> Nat],
         NEW places, places = PaidPlaces(n, n), NEW amounts, amounts = PlaceAmounts(pool, places),
         NEW prize, prize = ComputeGroupPayouts(pool, score, n), NEW i \in 1..n
  PROVE  LET g == TiedWith(score, i)
             share == Cover(amounts, places, score, i)
         IN /\ SumFunctionOnSet(prize, g) = share
            /\ \A k \in g : prize[k] \in Nat /\ share \div Cardinality(g) <= prize[k]
                            /\ prize[k] <= share
            /\ \A j, k \in g : prize[j] - prize[k] < Cardinality(g) /\ (j < k => prize[j] >= prize[k])
<1> DEFINE g == TiedWith(score, i)
           share == Cover(amounts, places, score, i)
<1>1. places \in {1, 3} /\ amounts \in [1..places -> Nat]
  BY PaidPlacesAre, AmountsAre
<1>2. share \in Nat
  BY <1>1, CoverBounds
<1>3. /\ g \subseteq 1..n /\ i \in g /\ IsFiniteSet(g)
      /\ \A k \in g : TiedWith(score, k) = g
  BY TiedGroup
<1>4. \A k \in g : Cover(amounts, places, score, k) = share
  BY <1>3 DEF Cover
<1>5. \A k \in g : prize[k] = IF k = Min(g)
                              THEN share - (share \div Cardinality(g)) * (Cardinality(g) - 1)
                              ELSE share \div Cardinality(g)
  <2> HIDE DEF g, share
  <2>1. \A k \in 1..n :
           LET gk == TiedWith(score, k)
               sk == Cover(amounts, places, score, k)
               ek == sk \div Cardinality(gk)
           IN prize[k] = IF k = Min(gk) THEN sk - ek * (Cardinality(gk) - 1) ELSE ek
    BY GroupPayoutsAre
  <2>2. QED
    BY <1>3, <1>4, <2>1
<1>6. g \subseteq Nat /\ g # {}
  BY <1>3
<1> HIDE DEF g, share
<1>7. /\ SumFunctionOnSet(prize, g) = share
      /\ \A k \in g : prize[k] \in Nat /\ share \div Cardinality(g) <= prize[k] /\ prize[k] <= share
      /\ \A j, k \in g : prize[j] - prize[k] < Cardinality(g) /\ (j < k => prize[j] >= prize[k])
  BY ONLY <1>2, <1>3, <1>5, <1>6, SharedAlike
<1>8. QED
  BY <1>7 DEF g, share

(* All groups together: the players tied with those of s. *)
TiedTo(s, score, n) == {i \in 1..n : \E j \in s : score[j] = score[i]}

LEMMA GroupPayoutsSum ==
  ASSUME NEW pool \in Nat, NEW n \in Nat \ {0}, NEW score \in [1..n -> Nat],
         NEW prize, prize = ComputeGroupPayouts(pool, score, n)
  PROVE  /\ prize \in [1..n -> Nat]
         /\ SumFunction(prize) = pool
<1> DEFINE places == PaidPlaces(n, n)
           amounts == PlaceAmounts(pool, places)
           P == 1..places
           Covered(s) == TiedTo(s, score, n)
           Holds(s) == SumFunctionOnSet(prize, Covered(s)) = SumFunctionOnSet(amounts, Covered(s) \cap P)
           G == {s \in SUBSET (1..n) : Holds(s)}
<1>1. places \in {1, 3} /\ places <= n
  BY PaidPlacesAre
<1>2. amounts \in [P -> Nat] /\ SumFunctionOnSet(amounts, P) = pool
  BY <1>1, AmountsAre
<1>3. DOMAIN prize = 1..n
  BY GroupPayoutsAre
<1>4. ASSUME NEW i \in 1..n
      PROVE  /\ prize[i] \in Nat
             /\ SumFunctionOnSet(prize, TiedWith(score, i))
                  = SumFunctionOnSet(amounts, TiedWith(score, i) \cap P)
             /\ i \in TiedWith(score, i) /\ TiedWith(score, i) \subseteq 1..n
  <2> HIDE DEF places, amounts
  <2>1. /\ SumFunctionOnSet(prize, TiedWith(score, i)) = Cover(amounts, places, score, i)
        /\ \A k \in TiedWith(score, i) : prize[k] \in Nat
    BY GroupIsPaid DEF places, amounts
  <2>2. i \in TiedWith(score, i) /\ TiedWith(score, i) \subseteq 1..n
    BY TiedGroup
  <2>3. QED
    BY <2>1, <2>2 DEF Cover
<1>5. prize \in [1..n -> Nat]
  <2>1. prize = [i \in 1..n |-> prize[i]]
    BY <1>3 DEF ComputeGroupPayouts
  <2>2. QED
    BY <1>4, <2>1
<1> HIDE DEF places, amounts
<1>6. IsFiniteSet(1..n) /\ IsFiniteSet(P)
  <2>1. 1 \in Int /\ n \in Int /\ places \in Int
    BY <1>1
  <2>2. QED
    BY ONLY <2>1, FS_Interval
<1>7. {} \in G
  <2>1. Covered({}) = {} /\ Covered({}) \cap P = {}
    BY DEF TiedTo
  <2>2. SumFunctionOnSet(prize, {}) = 0 /\ SumFunctionOnSet(amounts, {}) = 0
    BY SumEmpty
  <2>3. Holds({})
    BY <2>1, <2>2, Zenon
  <2>4. QED
    BY <2>3
<1>8. ASSUME NEW s \in SUBSET (1..n), s # {} PROVE \E x \in s : s \ {x} \in G => s \in G
  <2>1. PICK x \in s : TRUE
    BY <1>8
  <2>2. SUFFICES ASSUME Holds(s \ {x}) PROVE Holds(s)
    BY <2>1
  <2> DEFINE A == Covered(s \ {x})
             g == TiedWith(score, x)
  <2>3. CASE x \in A
    <3>1. Covered(s) = A
      BY <2>3 DEF TiedTo
    <3>2. QED
      BY <2>2, <3>1, Zenon
  <2>4. CASE x \notin A
    <3>1. Covered(s) = A \cup g /\ A \cap g = {} /\ A \subseteq 1..n /\ g \subseteq 1..n
      BY <2>4 DEF TiedTo, TiedWith
    <3>2. Covered(s) \cap P = (A \cap P) \cup (g \cap P) /\ (A \cap P) \cap (g \cap P) = {}
      BY <3>1
    <3> HIDE DEF A, g
    <3>3. IsFiniteSet(A) /\ IsFiniteSet(g) /\ IsFiniteSet(A \cap P) /\ IsFiniteSet(g \cap P)
      <4>1. A \in SUBSET (1..n) /\ g \in SUBSET (1..n) /\ A \cap P \in SUBSET P /\ g \cap P \in SUBSET P
        BY <3>1
      <4> HIDE DEF P
      <4>2. QED
        BY <1>6, <4>1, FS_Subset
    <3>4. \A y \in A \cup g : prize[y] \in Int
      <4>1. \A y \in 1..n : prize[y] \in Int
        BY <1>5
      <4>2. QED
        BY <3>1, <4>1
    <3>5. \A y \in (A \cap P) \cup (g \cap P) : amounts[y] \in Int
      BY <1>2
    <3>6. SumFunctionOnSet(prize, A \cup g) = SumFunctionOnSet(prize, A) + SumFunctionOnSet(prize, g)
      BY ONLY <3>1, <3>3, <3>4, SumUnion
    <3> HIDE DEF P
    <3>7. SumFunctionOnSet(amounts, (A \cap P) \cup (g \cap P))
            = SumFunctionOnSet(amounts, A \cap P) + SumFunctionOnSet(amounts, g \cap P)
      BY ONLY <3>2, <3>3, <3>5, SumUnion
    <3>8. SumFunctionOnSet(prize, g) = SumFunctionOnSet(amounts, g \cap P)
      BY <1>4, <2>1 DEF g
    <3>9. SumFunctionOnSet(prize, A) = SumFunctionOnSet(amounts, A \cap P)
      BY <2>2 DEF A
    <3>10. SumFunctionOnSet(prize, Covered(s)) = SumFunctionOnSet(prize, A \cup g)
      BY <3>1, Zenon
    <3>11. SumFunctionOnSet(amounts, Covered(s) \cap P)
             = SumFunctionOnSet(amounts, (A \cap P) \cup (g \cap P))
      BY <3>2, Zenon
    <3>12. QED
      BY <3>6, <3>7, <3>8, <3>9, <3>10, <3>11, Zenon
  <2>5. QED
    BY <2>3, <2>4
<1>9. \A s \in SUBSET (1..n) : s \in G
  <2> HIDE DEF G
  <2> QED BY <1>6, <1>7, <1>8, SubsetInduction
<1>10. Holds(1..n)
  <2>1. 1..n \in G
    BY <1>9
  <2>2. QED
    BY <2>1
<1>11. Covered(1..n) = 1..n /\ (1..n) \cap P = P
  BY <1>1 DEF TiedTo
<1>12. SumFunctionOnSet(prize, 1..n) = SumFunctionOnSet(amounts, P)
  BY <1>10, <1>11, Zenon
<1>13. QED
  BY <1>2, <1>3, <1>5, <1>12 DEF SumFunction

(* A better finish never earns less, ties and odd units included. *)
LEMMA GroupPayoutsFollowRank ==
  ASSUME NEW pool \in Nat, NEW n \in Nat \ {0}, NEW score \in [1..n -> Nat],
         \A i, j \in 1..n : i < j => score[i] >= score[j],
         NEW prize, prize = ComputeGroupPayouts(pool, score, n),
         NEW i \in 1..n, NEW j \in 1..n, i < j
  PROVE  prize[i] >= prize[j]
<1> DEFINE places == PaidPlaces(n, n)
           amounts == PlaceAmounts(pool, places)
           g == TiedWith(score, i)
           h == TiedWith(score, j)
           better == Cover(amounts, places, score, i)
           worse == Cover(amounts, places, score, j)
<1>1. places \in {1, 3} /\ places <= n
  BY PaidPlacesAre
<1>2. /\ amounts \in [1..places -> Nat]
      /\ places = 3 => amounts[1] >= amounts[2] + amounts[3] /\ amounts[2] >= amounts[3]
  BY <1>1, AmountsAre
<1>3. /\ \A k \in g : prize[k] \in Nat /\ better \div Cardinality(g) <= prize[k]
      /\ \A k, l \in g : k < l => prize[k] >= prize[l]
  BY GroupIsPaid
<1>4. \A k \in h : prize[k] \in Nat /\ prize[k] <= worse
  BY GroupIsPaid
<1> HIDE DEF places, amounts
<1>5. /\ g \subseteq 1..n /\ i \in g /\ IsFiniteSet(g)
      /\ h \subseteq 1..n /\ j \in h
      /\ \A k \in 1..n : k \notin g <=> score[k] # score[i]
  BY TiedGroup
<1>6. /\ better \in Nat
      /\ better = At(amounts, g \cap 1..places, 1) + At(amounts, g \cap 1..places, 2)
                    + At(amounts, g \cap 1..places, 3)
  <2>1. n \in Nat
    OBVIOUS
  <2>2. QED
    BY <1>1, <1>2, <2>1, CoverBounds
<1>7. /\ worse \in Nat
      /\ worse = At(amounts, h \cap 1..places, 1) + At(amounts, h \cap 1..places, 2)
                   + At(amounts, h \cap 1..places, 3)
  <2>1. n \in Nat
    OBVIOUS
  <2>2. QED
    BY <1>1, <1>2, <2>1, CoverBounds
<1>8. CASE j \in g
  BY <1>3, <1>5, <1>8
<1>9. CASE j \notin g
  <2>1. score[i] > score[j]
    BY <1>5, <1>9
  <2>2. \A k \in g, l \in h : k < l
    <3>1. ASSUME NEW k \in g, NEW l \in h, l <= k PROVE FALSE
      <4>1. score[k] = score[i] /\ score[l] = score[j] /\ k \in 1..n /\ l \in 1..n
        BY DEF TiedWith
      <4>2. l < k \/ l = k
        BY <3>1, <4>1
      <4>3. score[l] >= score[k]
        BY <4>1, <4>2
      <4>4. QED
        BY <2>1, <4>1, <4>3
    <3>2. \A k \in g, l \in h : k \in Nat /\ l \in Nat
      BY <1>5
    <3>3. QED
      BY <3>1, <3>2
  <2>3. 1 \notin h
    <3>1. \A k \in g : k >= 1
      BY <1>5
    <3>2. QED
      BY <1>5, <2>2, <3>1
  <2> HIDE DEF g, h, better, worse
  <2>4. CASE worse = 0
    BY <1>3, <1>4, <1>5, <2>4
  <2>5. CASE worse # 0
    <3>1. places = 3 /\ (2 \in h \/ 3 \in h)
      BY <1>1, <1>7, <2>3, <2>5 DEF At
    <3>2. amounts[1] \in Nat /\ amounts[2] \in Nat /\ amounts[3] \in Nat
      BY <1>2, <3>1
    <3>3. CASE 2 \in h
      <4>1. g = {1}
        <5>1. \A k \in g : k < 2 /\ k \in 1..n
          BY <1>5, <2>2, <3>3
        <5>2. \A k \in g : k = 1
          BY <5>1
        <5>3. QED
          BY <1>5, <5>2
      <4>2. 1 \in g \cap 1..places /\ 2 \notin g /\ 3 \notin g
        BY <3>1, <4>1
      <4>3. better = amounts[1]
        BY <1>6, <3>2, <4>2 DEF At
      <4>4. Cardinality(g) = 1
        BY <4>1, FS_Singleton
      <4>5. better \div 1 = better
        BY <1>6
      <4>6. prize[i] >= amounts[1]
        BY <1>3, <1>5, <4>3, <4>4, <4>5
      <4>7. worse <= amounts[2] + amounts[3]
        BY <1>7, <2>3, <3>2 DEF At
      <4>8. prize[i] \in Nat /\ prize[j] \in Nat /\ prize[j] <= worse /\ worse \in Nat
        BY <1>3, <1>4, <1>5, <1>7
      <4>9. amounts[2] + amounts[3] <= amounts[1]
        BY <1>2, <3>1, <3>2
      <4>10. worse <= amounts[1]
        BY ONLY <3>2, <4>7, <4>8, <4>9
      <4>11. worse <= prize[i]
        BY <3>2, <4>6, <4>8, <4>10
      <4>12. QED
        BY <4>8, <4>11
    <3>4. CASE 2 \notin h
      <4>1. worse <= amounts[3] /\ prize[j] <= amounts[3]
        <5>1. worse <= amounts[3]
          BY <1>7, <2>3, <3>2, <3>4 DEF At
        <5>2. prize[j] \in Nat /\ prize[j] <= worse /\ worse \in Nat
          BY <1>4, <1>5, <1>7
        <5>3. QED
          BY <3>2, <5>1, <5>2
      <4>2. \A k \in g : k \in {1, 2}
        <5>1. \A k \in g : k < 3 /\ k \in 1..n
          BY <1>5, <2>2, <3>1, <3>4
        <5>2. QED
          BY <5>1
      <4>3. Cardinality(g) \in {1, 2} /\ Cardinality(g) * amounts[3] <= better
        <5>1. CASE g = {1}
          <6>1. Cardinality(g) = 1
            BY <5>1, FS_Singleton
          <6>2. better = amounts[1]
            BY <1>6, <3>1, <3>2, <5>1 DEF At
          <6>3. QED
            BY <1>2, <3>1, <3>2, <6>1, <6>2
        <5>2. CASE g = {2}
          <6>1. Cardinality(g) = 1
            BY <5>2, FS_Singleton
          <6>2. better = amounts[2]
            BY <1>6, <3>1, <3>2, <5>2 DEF At
          <6>3. QED
            BY <1>2, <3>1, <3>2, <6>1, <6>2
        <5>3. CASE g = {1, 2}
          <6>1. Cardinality(g) = 2
            <7>1. IsFiniteSet({1}) /\ Cardinality({1}) = 1
              BY FS_Singleton
            <7>2. Cardinality({1} \cup {2}) = Cardinality({1}) + 1
              <8>1. 2 \notin {1}
                OBVIOUS
              <8>2. QED
                BY ONLY <7>1, <8>1, FS_AddElement
            <7>3. g = {1} \cup {2}
              BY <5>3
            <7>4. Cardinality(g) = 1 + 1
              BY ONLY <7>1, <7>2, <7>3, Zenon
            <7>5. 1 + 1 = 2
              OBVIOUS
            <7>6. QED
              BY ONLY <7>4, <7>5, Zenon
          <6>2. better = amounts[1] + amounts[2]
            BY <1>6, <3>1, <3>2, <5>3 DEF At
          <6>3. QED
            BY <1>2, <3>1, <3>2, <6>1, <6>2
        <5>4. QED
          BY <1>5, <4>2, <5>1, <5>2, <5>3
      <4>4. amounts[3] <= better \div Cardinality(g)
        BY <1>6, <3>2, <4>3, DivBounds
      <4>5. prize[i] \in Nat /\ better \div Cardinality(g) <= prize[i] /\ prize[j] \in Nat
        BY <1>3, <1>4, <1>5
      <4>6. better \div Cardinality(g) \in Nat
        BY <1>6, <4>3
      <4>7. QED
        BY <3>2, <4>1, <4>4, <4>5, <4>6
    <3>5. QED
      BY <3>3, <3>4
  <2>6. QED
    BY <2>4, <2>5
<1>10. QED
  BY <1>8, <1>9

(* A group earns the advertised percentages of the places it covers. *)
LEMMA GroupPayoutsAsAdvertised ==
  ASSUME NEW pool \in Nat, NEW n \in Nat, n >= 3, NEW score \in [1..n -> Nat],
         NEW prize, prize = ComputeGroupPayouts(pool, score, n), NEW i \in 1..n
  PROVE  LET g == TiedWith(score, i) IN
         Parts * SumFunctionOnSet(prize, g) - pool * SumFunctionOnSet(SPLIT_3, g \cap 1..3)
            \in -126..126
<1> DEFINE amounts == PlaceAmounts(pool, 3)
           g == TiedWith(score, i)
           c == g \cap 1..3
<1>1. PaidPlaces(n, n) = 3
  BY PaidPlacesAre
<1>2. /\ amounts \in [1..3 -> Nat]
      /\ Parts * amounts[1] - pool * 40 \in 0..126
      /\ Parts * amounts[2] - pool * 15 \in -63..0
      /\ Parts * amounts[3] - pool * 9 \in -63..0
  BY AmountsAre
<1>3. SumFunctionOnSet(prize, g) = Cover(amounts, 3, score, i)
  <2>1. n \in Nat \ {0}
    OBVIOUS
  <2>2. QED
    BY <1>1, <2>1, GroupIsPaid
<1> HIDE DEF amounts
<1>4. Cover(amounts, 3, score, i) = At(amounts, c, 1) + At(amounts, c, 2) + At(amounts, c, 3)
  BY <1>2, CoverBounds
<1>5. SPLIT_3[1] = 40 /\ SPLIT_3[2] = 15 /\ SPLIT_3[3] = 9 /\ Parts = 64
  BY DEF SPLIT_3, Parts
<1>6. SumFunctionOnSet(SPLIT_3, c) = At(SPLIT_3, c, 1) + At(SPLIT_3, c, 2) + At(SPLIT_3, c, 3)
  <2>1. c \subseteq 1..3
    OBVIOUS
  <2>2. \A k \in c : SPLIT_3[k] \in Int
    <3>1. \A k \in c : k \in {1, 2, 3}
      OBVIOUS
    <3>2. QED
      BY <1>5, <3>1
  <2> HIDE DEF c
  <2>3. QED
    BY ONLY <2>1, <2>2, SumOfPlaces
<1>7. amounts[1] \in Nat /\ amounts[2] \in Nat /\ amounts[3] \in Nat
  BY <1>2
<1> DEFINE a(k) == At(amounts, c, k)
           s(k) == At(SPLIT_3, c, k)
<1>8. /\ a(1) \in Nat /\ a(2) \in Nat /\ a(3) \in Nat
      /\ Parts * a(1) - pool * s(1) \in 0..126 /\ s(1) \in Nat
      /\ Parts * a(2) - pool * s(2) \in -63..0 /\ s(2) \in Nat
      /\ Parts * a(3) - pool * s(3) \in -63..0 /\ s(3) \in Nat
  BY <1>2, <1>5, <1>7 DEF At
<1> HIDE DEF a, s
<1>9. pool * (s(1) + s(2) + s(3)) = pool * s(1) + pool * s(2) + pool * s(3)
  BY <1>8
<1>10. Parts * (a(1) + a(2) + a(3)) - pool * (s(1) + s(2) + s(3)) \in -126..126
  <2>1. \A x, y \in Nat : x * y \in Int
    OBVIOUS
  <2>2. pool * s(1) \in Int /\ pool * s(2) \in Int /\ pool * s(3) \in Int
    BY <1>8, <2>1
  <2>3. /\ 64 * a(1) - pool * s(1) \in 0..126
        /\ 64 * a(2) - pool * s(2) \in -63..0
        /\ 64 * a(3) - pool * s(3) \in -63..0
    BY <1>5, <1>8
  <2>4. 64 * (a(1) + a(2) + a(3)) - (pool * s(1) + pool * s(2) + pool * s(3)) \in -126..126
    <3>1. PICK p1 \in Int, p2 \in Int, p3 \in Int :
             p1 = pool * s(1) /\ p2 = pool * s(2) /\ p3 = pool * s(3)
      BY <2>2
    <3>2. PICK a1 \in Nat, a2 \in Nat, a3 \in Nat : a1 = a(1) /\ a2 = a(2) /\ a3 = a(3)
      BY <1>8
    <3>3. 64 * a1 - p1 \in 0..126 /\ 64 * a2 - p2 \in -63..0 /\ 64 * a3 - p3 \in -63..0
      BY ONLY <2>3, <3>1, <3>2
    <3>4. 64 * (a1 + a2 + a3) - (p1 + p2 + p3) \in -126..126
      BY ONLY <3>3
    <3>5. QED
      BY ONLY <3>1, <3>2, <3>4
  <2>5. QED
    BY <1>5, <1>9, <2>4
<1>11. QED
  BY <1>3, <1>4, <1>6, <1>10 DEF a, s

-----------------------------------------------------------------------------
(* The division of the escrow. *)

LEMMA DivMonotone ==
  ASSUME NEW a \in Nat, NEW b \in Nat, a <= b, NEW s \in Nat \ {0}
  PROVE  a \div s <= b \div s
<1>1. a \div s \in Nat /\ s * (a \div s) <= a
  BY DivFloor
<1>2. PICK q \in Nat : q = a \div s
  BY <1>1
<1>3. s * q <= b
  <2>1. s * q \in Nat
    OBVIOUS
  <2>2. QED
    BY <1>1, <1>2, <2>1
<1>4. q <= b \div s
  BY <1>3, DivBounds
<1>5. QED
  BY <1>2, <1>4

(* Rounded down, the parts of an amount in proportion to the weights are at most the amount. *)
LEMMA PartsFit ==
  ASSUME NEW D, IsFiniteSet(D), NEW weight \in [D -> Nat], NEW amount \in Nat,
         NEW part \in [D -> Nat], SumFunctionOnSet(weight, D) # 0,
         \A i \in D : part[i] <= (amount * weight[i]) \div SumFunctionOnSet(weight, D)
  PROVE  SumFunctionOnSet(part, D) <= amount
<1> DEFINE sum == SumFunctionOnSet(weight, D)
           total == SumFunctionOnSet(part, D)
           scaled == [i \in D |-> sum * part[i]]
           whole == [i \in D |-> amount * weight[i]]
<1>1. (\A y \in D : weight[y] \in Nat) /\ (\A y \in D : part[y] \in Nat)
  OBVIOUS
<1>2. sum \in Nat \ {0} /\ total \in Nat
  <2>1. sum \in Nat /\ total \in Nat
    BY ONLY IsFiniteSet(D), <1>1, SumNat
  <2>2. QED
    BY <2>1
<1>3. \A i \in D : part[i] <= (amount * weight[i]) \div sum
  OBVIOUS
<1> HIDE DEF sum, total
<1>4. \A i \in D : scaled[i] \in Int /\ whole[i] \in Int /\ scaled[i] <= whole[i]
  <2>1. ASSUME NEW i \in D PROVE scaled[i] \in Int /\ whole[i] \in Int /\ scaled[i] <= whole[i]
    <3>1. PICK w \in Nat : w = amount * weight[i]
      <4>1. amount * weight[i] \in Nat
        BY <1>1
      <4>2. QED
        BY <4>1
    <3>2. PICK q \in Nat : q = w \div sum /\ sum * q <= w
      BY <1>2, <3>1, DivFloor
    <3>3. part[i] \in Nat /\ part[i] <= q
      BY <1>1, <1>3, <3>1, <3>2
    <3>4. \A a, b, c \in Nat : b <= c => a * b <= a * c /\ a * b \in Nat /\ a * c \in Nat
      OBVIOUS
    <3>5. sum * part[i] <= sum * q /\ sum * part[i] \in Nat /\ sum * q \in Nat
      BY <1>2, <3>3, <3>4
    <3>6. QED
      BY <3>1, <3>2, <3>5
  <2>2. QED
    BY <2>1
<1>5. \A y \in D : weight[y] \in Int /\ whole[y] = amount * weight[y]
  BY <1>1
<1>6. \A y \in D : part[y] \in Int /\ scaled[y] = sum * part[y]
  BY <1>1
<1> HIDE DEF scaled, whole
<1>7. SumFunctionOnSet(scaled, D) <= SumFunctionOnSet(whole, D)
  BY ONLY IsFiniteSet(D), <1>4, SumLeq
<1>8. SumFunctionOnSet(whole, D) = amount * sum
  <2>1. amount \in Int
    OBVIOUS
  <2>2. QED
    BY ONLY IsFiniteSet(D), <1>5, <2>1, SumScale DEF sum
<1>9. SumFunctionOnSet(scaled, D) = sum * total
  <2>1. sum \in Int
    BY <1>2
  <2>2. QED
    BY ONLY IsFiniteSet(D), <1>6, <2>1, SumScale DEF total
<1>10. ASSUME total > amount PROVE FALSE
  <2>1. \A a, b \in Nat, c \in Nat \ {0} : a > b => c * a > b * c
    OBVIOUS
  <2>2. sum * total > amount * sum /\ sum * total \in Nat /\ amount * sum \in Nat
    BY <1>2, <1>10, <2>1
  <2>3. QED
    BY <1>7, <1>8, <1>9, <2>2
<1>11. total <= amount
  BY <1>2, <1>10
<1>12. QED
  BY <1>11 DEF total

LEMMA FittedPrizesAre ==
  ASSUME NEW D, IsFiniteSet(D), NEW prize \in [D -> Nat], NEW pot \in Nat
  PROVE  LET fitted == FittedPrizes(prize, pot) IN
         /\ fitted \in [D -> Nat]
         /\ SumFunctionOnSet(fitted, D) <= pot
         /\ SumFunctionOnSet(prize, D) <= pot => fitted = prize
         /\ \A i, j \in D : prize[i] >= prize[j] => fitted[i] >= fitted[j]
<1> DEFINE sum == SumFunctionOnSet(prize, D)
           fitted == FittedPrizes(prize, pot)
<1>1. sum \in Nat
  <2>1. \A y \in D : prize[y] \in Nat
    OBVIOUS
  <2>2. QED
    BY ONLY IsFiniteSet(D), <2>1, SumNat
<1>2. DOMAIN prize = D
  OBVIOUS
<1>3. fitted = [i \in D |-> IF sum > pot THEN (prize[i] * pot) \div sum ELSE prize[i]]
  BY <1>2 DEF FittedPrizes, SumFunction
<1> HIDE DEF sum, fitted
<1>4. CASE sum <= pot
  <2>1. fitted = prize
    BY <1>1, <1>3, <1>4
  <2>2. QED
    BY <1>4, <2>1 DEF sum, fitted
<1>5. CASE sum > pot
  <2>1. sum \in Nat \ {0}
    BY <1>1, <1>5
  <2>2. \A i \in D : prize[i] * pot \in Nat /\ fitted[i] = (prize[i] * pot) \div sum
    BY <1>3, <1>5
  <2>3. fitted \in [D -> Nat]
    <3>1. \A i \in D : fitted[i] \in Nat
      BY <2>1, <2>2, DivFloor
    <3>2. fitted = [i \in D |-> fitted[i]]
      BY <1>3, <1>5
    <3>3. QED
      BY <3>1, <3>2
  <2>4. \A i \in D : fitted[i] <= (pot * prize[i]) \div sum
    <3>1. \A i \in D : pot * prize[i] = prize[i] * pot
      OBVIOUS
    <3>2. \A i \in D : fitted[i] \in Nat
      BY <2>3
    <3>3. QED
      BY <2>2, <3>1, <3>2
  <2>5. SumFunctionOnSet(fitted, D) <= pot
    BY <2>1, <2>3, <2>4, PartsFit DEF sum
  <2>6. ASSUME NEW i \in D, NEW j \in D, prize[i] >= prize[j]
        PROVE  fitted[i] >= fitted[j]
    <3>1. \A a, b, c \in Nat : b >= c => c * a <= b * a
      OBVIOUS
    <3>2. prize[j] * pot <= prize[i] * pot
      BY <2>6, <3>1
    <3>3. (prize[j] * pot) \div sum <= (prize[i] * pot) \div sum
      BY <2>1, <2>2, <3>2, DivMonotone
    <3>4. fitted[i] \in Nat /\ fitted[j] \in Nat
      BY <2>3
    <3>5. QED
      BY <2>2, <3>3, <3>4
  <2>7. ~(sum <= pot)
    BY <1>1, <1>5
  <2>8. QED
    BY <2>3, <2>5, <2>6, <2>7 DEF sum, fitted
<1>6. QED
  BY <1>1, <1>4, <1>5

LEMMA VaultSharesAre ==
  ASSUME NEW D, IsFiniteSet(D), D # {}, NEW weight \in [D -> Nat], NEW vaultPot \in Nat, NEW slip
  PROVE  LET shares == VaultShares(vaultPot, weight, slip) IN
         /\ shares \in [D -> Nat]
         /\ SumFunctionOnSet(shares, D) <= vaultPot
         /\ \A i, j \in D : weight[i] >= weight[j] => shares[i] >= shares[j]
         /\ SumFunctionOnSet(weight, D) = vaultPot =>
              \A i \in D : weight[i] - 1 <= shares[i] /\ shares[i] <= weight[i]
<1> DEFINE sum == SumFunctionOnSet(weight, D)
           shares == VaultShares(vaultPot, weight, slip)
           exact(i) == vaultPot * weight[i]
           slips(i) == weight[i] \in slip /\ exact(i) > 0 /\ exact(i) % sum = 0
           n == Cardinality(D)
<1>1. \A y \in D : weight[y] \in Nat /\ exact(y) \in Nat
  OBVIOUS
<1>2. sum \in Nat
  BY ONLY IsFiniteSet(D), <1>1, SumNat
<1>3. DOMAIN weight = D
  OBVIOUS
<1>4. shares = [i \in D |-> IF sum = 0 THEN vaultPot \div n
                            ELSE IF slips(i) THEN exact(i) \div sum - 1 ELSE exact(i) \div sum]
  BY <1>3 DEF VaultShares, SumFunction
<1>5. n \in Nat \ {0}
  BY FS_CardinalityType, FS_EmptySet
<1> HIDE DEF sum, shares, n
<1>6. CASE sum = 0
  <2>1. shares = [i \in D |-> vaultPot \div n]
    BY <1>4, <1>6
  <2>2. PICK q \in Nat : q = vaultPot \div n /\ n * q <= vaultPot
    BY <1>5, DivFloor
  <2>3. \A i \in D : shares[i] = q
    BY <2>1, <2>2
  <2>4. SumFunctionOnSet(shares, D) = q * n
    <3>1. q \in Int
      OBVIOUS
    <3>2. QED
      BY ONLY IsFiniteSet(D), <2>3, <3>1, SumConst DEF n
  <2>5. q * n = n * q
    BY <1>5
  <2>6. ASSUME sum = vaultPot, NEW i \in D PROVE weight[i] = 0 /\ q = 0
    <3>1. vaultPot = 0
      BY <1>6, <2>6
    <3>2. q = 0
      <4>1. n * q = 0 /\ n >= 1
        BY <1>5, <2>2, <3>1
      <4>2. q > 0 => n * q > 0
        BY <1>5
      <4>3. QED
        BY <4>1, <4>2
    <3>3. weight[i] <= SumFunctionOnSet(weight, D)
      <4>1. {i} \in SUBSET D /\ \A y \in D : weight[y] \in Nat
        OBVIOUS
      <4>2. SumFunctionOnSet(weight, {i}) <= SumFunctionOnSet(weight, D)
        BY ONLY IsFiniteSet(D), <4>1, SumPart
      <4>3. weight[i] \in Int
        OBVIOUS
      <4>4. SumFunctionOnSet(weight, {i}) = weight[i]
        BY ONLY <4>3, SumSingleton
      <4>5. QED
        BY <4>2, <4>4
    <3>4. QED
      BY <1>1, <1>6, <3>2, <3>3 DEF sum
  <2>7. shares \in [D -> Nat]
    BY <2>1, <2>2
  <2>8. SumFunctionOnSet(shares, D) <= vaultPot
    BY <2>2, <2>4, <2>5
  <2>9. \A i, j \in D : shares[i] >= shares[j]
    BY <2>3
  <2>10. sum = vaultPot => \A i \in D : weight[i] - 1 <= shares[i] /\ shares[i] <= weight[i]
    BY <2>3, <2>6
  <2>11. QED
    BY <2>7, <2>8, <2>9, <2>10 DEF sum, shares
<1>7. CASE sum # 0
  <2>1. sum \in Nat \ {0}
    BY <1>2, <1>7
  <2>2. shares = [i \in D |-> IF slips(i) THEN exact(i) \div sum - 1 ELSE exact(i) \div sum]
    BY <1>4, <1>7
  <2>3. ASSUME NEW i \in D
        PROVE  /\ shares[i] \in Nat /\ shares[i] <= exact(i) \div sum
               /\ exact(i) \div sum \in Nat
               /\ exact(i) \div sum - 1 <= shares[i]
               /\ slips(i) => /\ shares[i] = exact(i) \div sum - 1
                              /\ sum * (exact(i) \div sum) = exact(i)
               /\ ~slips(i) => shares[i] = exact(i) \div sum
    <3>1. PICK e \in Nat : e = exact(i)
      BY <1>1
    <3>2. e \div sum \in Nat /\ sum * (e \div sum) <= e
      BY <2>1, DivFloor
    <3>3. shares[i] = IF slips(i) THEN e \div sum - 1 ELSE e \div sum
      BY <2>2, <3>1
    <3>4. slips(i) => e > 0 /\ e % sum = 0
      BY <3>1
    <3> HIDE DEF exact, slips
    <3>5. e % sum = 0 => sum * (e \div sum) = e
      BY <2>1
    <3>6. slips(i) => e \div sum >= 1
      <4>1. PICK q \in Nat : q = e \div sum
        BY <3>2
      <4>2. q = 0 => sum * q = 0
        BY <2>1
      <4>3. QED
        BY <3>2, <3>4, <3>5, <4>1, <4>2
    <3>7. QED
      BY <3>1, <3>2, <3>3, <3>4, <3>5, <3>6
  <2>4. shares \in [D -> Nat]
    <3>1. shares = [i \in D |-> shares[i]]
      BY <2>2
    <3>2. QED
      BY <2>3, <3>1
  <2>5. SumFunctionOnSet(shares, D) <= vaultPot
    BY <2>1, <2>3, <2>4, PartsFit DEF sum
  <2>6. ASSUME NEW i \in D, NEW j \in D, weight[i] >= weight[j]
        PROVE  shares[i] >= shares[j]
    <3>1. exact(j) <= exact(i) /\ (weight[i] > weight[j] /\ vaultPot > 0 => exact(j) < exact(i))
      <4>1. \A a, b, c \in Nat : /\ b >= c => a * c <= a * b
                                 /\ b > c /\ a > 0 => a * c < a * b
        OBVIOUS
      <4>2. QED
        BY <1>1, <2>6, <4>1
    <3>2. exact(j) \div sum <= exact(i) \div sum
      BY <1>1, <2>1, <3>1, DivMonotone
    <3>3. CASE ~slips(i)
      BY <2>3, <3>2, <3>3
    <3>4. CASE slips(i) /\ weight[i] = weight[j]
      <4>1. slips(j) /\ exact(i) = exact(j)
        BY <3>4
      <4> HIDE DEF slips, exact
      <4>2. QED
        BY <2>3, <3>4, <4>1
    <3>5. CASE slips(i) /\ weight[i] # weight[j]
      <4>1. vaultPot > 0
        <5>1. exact(i) > 0
          BY <3>5
        <5>2. vaultPot = 0 => exact(i) = 0
          BY <1>1
        <5>3. QED
          BY <5>1, <5>2
      <4>2. exact(j) < exact(i)
        BY <1>1, <2>6, <3>1, <3>5, <4>1
      <4>3. PICK q \in Nat : q = exact(i) \div sum /\ sum * q = exact(i)
        BY <2>3, <3>5
      <4>4. exact(j) \div sum < q
        BY <1>1, <2>1, <4>2, <4>3, DivBounds
      <4> HIDE DEF slips, exact
      <4>5. shares[i] = q - 1 /\ shares[j] <= exact(j) \div sum
            /\ exact(j) \div sum \in Nat /\ shares[j] \in Nat
        BY <2>3, <3>5, <4>3
      <4>6. QED
        BY <4>4, <4>5
    <3>6. QED
      BY <3>3, <3>4, <3>5
  <2>7. ASSUME sum = vaultPot, NEW i \in D
        PROVE  weight[i] - 1 <= shares[i] /\ shares[i] <= weight[i]
    <3>1. exact(i) = sum * weight[i]
      BY <2>7
    <3>2. weight[i] <= exact(i) \div sum /\ exact(i) \div sum <= weight[i]
      BY <1>1, <2>1, <3>1, DivBounds
    <3> HIDE DEF slips, exact
    <3>3. QED
      BY <1>1, <2>3, <3>2
  <2>8. QED
    BY <2>4, <2>5, <2>6, <2>7 DEF sum, shares
<1>8. QED
  BY <1>6, <1>7

(* There is a first one of the best placed vaults. *)
LEMMA TopIs ==
  ASSUME NEW D, IsFiniteSet(D), D # {}, D \subseteq Nat, NEW weight \in [D -> Nat]
  PROVE  /\ Top(weight) \in D
         /\ \A j \in D : /\ weight[Top(weight)] >= weight[j]
                         /\ weight[j] = weight[Top(weight)] => Top(weight) <= j
<1> DEFINE best(s) == {i \in s : \A j \in s : weight[i] >= weight[j]}
           G == {s \in SUBSET D : s = {} \/ best(s) # {}}
<1>1. \A i \in D : weight[i] \in Nat
  OBVIOUS
<1>2. {} \in G
  OBVIOUS
<1>3. ASSUME NEW s \in SUBSET D, s # {} PROVE \E x \in s : s \ {x} \in G => s \in G
  <2>1. PICK x \in s : TRUE
    BY <1>3
  <2>2. SUFFICES ASSUME s \ {x} \in G PROVE best(s) # {}
    BY <2>1
  <2>3. CASE s = {x}
    <3>1. x \in best(s)
      BY <1>1, <2>1, <2>3
    <3>2. QED
      BY <3>1
  <2>4. CASE s # {x}
    <3>1. PICK m \in s \ {x} : \A j \in s \ {x} : weight[m] >= weight[j]
      BY <2>1, <2>2, <2>4
    <3>2. weight[m] >= weight[x] => m \in best(s)
      BY <3>1
    <3>3. weight[x] >= weight[m] => x \in best(s)
      <4>1. ASSUME weight[x] >= weight[m], NEW j \in s PROVE weight[x] >= weight[j]
        <5>1. weight[x] \in Nat /\ weight[m] \in Nat /\ weight[j] \in Nat
          BY <1>1, <2>1
        <5>2. CASE j = x
          BY <5>1, <5>2
        <5>3. CASE j # x
          <6>1. weight[m] >= weight[j]
            BY <3>1, <5>3
          <6>2. QED
            BY <4>1, <5>1, <6>1
        <5>4. QED
          BY <5>2, <5>3
      <4>2. QED
        BY <2>1, <4>1
    <3>4. weight[m] \in Nat /\ weight[x] \in Nat
      BY <1>1, <2>1
    <3>5. QED
      BY <3>2, <3>3, <3>4
  <2>5. QED
    BY <2>3, <2>4
<1>4. \A s \in SUBSET D : s \in G
  <2> HIDE DEF G
  <2> QED BY ONLY IsFiniteSet(D), <1>2, <1>3, SubsetInduction
<1>5. best(D) # {} /\ best(D) \subseteq Nat
  <2>1. D \in G
    BY <1>4
  <2>2. QED
    BY <2>1
<1> DEFINE m == Min(best(D))
<1>6. m \in best(D) /\ \A y \in best(D) : m <= y
  <2> HIDE DEF best
  <2> QED BY ONLY <1>5, LeastNatural
<1> HIDE DEF m
<1>7. m \in D /\ \A j \in D : weight[m] >= weight[j] /\ (weight[j] = weight[m] => m <= j)
  BY <1>6
<1>8. DOMAIN weight = D
  OBVIOUS
<1>9. QED
  BY <1>7, <1>8 DEF Top

(* What payoutShares promises: the parts are worth the pot, and each is the prize, scaled down if
   the pot is too small, and the part of the vault money, but for the dust of the best placed. *)
LEMMA PayoutSharesAre ==
  ASSUME NEW D, IsFiniteSet(D), D # {}, \A i \in D : i \in Nat, NEW cash \in [D -> Nat],
         NEW prize \in [D -> Nat], NEW pot \in Nat, NEW slip,
         NEW fitted, fitted = FittedPrizes(prize, pot),
         NEW vaultPot, vaultPot = pot - SumFunctionOnSet(fitted, D),
         NEW shares, shares = VaultShares(vaultPot, cash, slip),
         NEW dust, dust = vaultPot - SumFunctionOnSet(shares, D),
         NEW all, all = PayoutShares(cash, prize, pot, slip)
  PROVE  /\ all \in [D -> Nat]
         /\ SumFunctionOnSet(all, D) = pot
         /\ vaultPot \in Nat /\ dust \in Nat
         /\ \A i \in D : all[i] = fitted[i] + shares[i] + (IF i = Top(cash) THEN dust ELSE 0)
<1> DEFINE top == [i \in D |-> IF i = Top(cash) THEN dust ELSE 0]
           both == [i \in D |-> fitted[i] + shares[i]]
<1>1. fitted \in [D -> Nat] /\ SumFunctionOnSet(fitted, D) <= pot
  BY FittedPrizesAre
<1>2. SumFunctionOnSet(fitted, D) \in Nat
  <2>1. \A y \in D : fitted[y] \in Nat
    BY <1>1
  <2>2. QED
    BY ONLY IsFiniteSet(D), <2>1, SumNat
<1>3. vaultPot \in Nat
  BY <1>1, <1>2
<1>4. DOMAIN cash = D /\ DOMAIN fitted = D
  BY <1>1
<1>5. Top(cash) \in D
  BY TopIs
<1>6. shares \in [D -> Nat] /\ SumFunctionOnSet(shares, D) <= vaultPot
  BY <1>3, VaultSharesAre
<1>7. SumFunctionOnSet(shares, D) \in Nat
  <2>1. \A y \in D : shares[y] \in Nat
    BY <1>6
  <2>2. QED
    BY ONLY IsFiniteSet(D), <2>1, SumNat
<1>8. dust \in Nat
  BY <1>3, <1>6, <1>7
<1>9. all = [i \in D |-> fitted[i] + shares[i] + (IF i = Top(cash) THEN dust ELSE 0)]
  <2>1. DOMAIN shares = D
    BY <1>6
  <2>2. SumFunction(fitted) = SumFunctionOnSet(fitted, D) /\ SumFunction(shares) = SumFunctionOnSet(shares, D)
    BY <1>4, <2>1 DEF SumFunction
  <2>3. all = [i \in DOMAIN cash |-> fitted[i] + shares[i] + (IF i = Top(cash) THEN dust ELSE 0)]
    BY <2>2 DEF PayoutShares
  <2>4. QED
    BY <1>4, <2>3
<1>10. \A y \in D : fitted[y] \in Nat /\ shares[y] \in Nat /\ both[y] = fitted[y] + shares[y]
  BY <1>1, <1>6
<1>11. \A y \in D : both[y] \in Int /\ top[y] \in Int /\ all[y] = both[y] + top[y]
  BY <1>8, <1>9, <1>10
<1>12. all \in [D -> Nat]
  BY <1>8, <1>9, <1>10
<1>13. SumFunctionOnSet(top, D) = dust
  <2>1. \A y \in D \ {Top(cash)} : top[y] = 0
    OBVIOUS
  <2>2. {Top(cash)} \in SUBSET D /\ top[Top(cash)] = dust
    BY <1>5
  <2>3. \A y \in D : top[y] \in Int
    BY <1>11
  <2> HIDE DEF top
  <2>4. SumFunctionOnSet(top, D) = SumFunctionOnSet(top, {Top(cash)})
    BY ONLY IsFiniteSet(D), <2>1, <2>2, <2>3, SumSupport
  <2>5. top[Top(cash)] \in Int
    BY <1>8, <2>2
  <2>6. SumFunctionOnSet(top, {Top(cash)}) = top[Top(cash)]
    BY ONLY <2>5, SumSingleton
  <2>7. QED
    BY <2>2, <2>4, <2>6
<1> HIDE DEF top, both
<1>14. SumFunctionOnSet(all, D) = SumFunctionOnSet(both, D) + SumFunctionOnSet(top, D)
  BY ONLY IsFiniteSet(D), <1>11, SumAdd
<1>15. SumFunctionOnSet(both, D) = SumFunctionOnSet(fitted, D) + SumFunctionOnSet(shares, D)
  <2>1. \A y \in D : fitted[y] \in Int /\ shares[y] \in Int /\ both[y] = fitted[y] + shares[y]
    BY <1>10
  <2>2. QED
    BY ONLY IsFiniteSet(D), <2>1, SumAdd
<1>16. SumFunctionOnSet(all, D) = pot
  BY <1>2, <1>7, <1>13, <1>14, <1>15
<1>17. \A i \in D : all[i] = fitted[i] + shares[i] + (IF i = Top(cash) THEN dust ELSE 0)
  BY <1>9
<1>18. QED
  BY <1>3, <1>8, <1>12, <1>16, <1>17

=============================================================================
