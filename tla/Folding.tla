-------------------------------- MODULE Folding --------------------------------
(***************************************************************************)
(* FoldLeft and FoldRight of a step, one element at a time.  An induction  *)
(* theorem that takes the step as a parameter is of no use to the provers; *)
(* a module that takes it as a constant is: for each step there is an      *)
(* INSTANCE of this one.  The same for an induction over a predicate: the  *)
(* predicate is a set of numbers (Induct), and the induction follows from  *)
(* the order of the naturals being well-founded.                           *)
(***************************************************************************)
EXTENDS SequencesExt, Integers, FiniteSetTheorems, WellFoundedInduction, TLAPS

CONSTANT Step(_, _)

-----------------------------------------------------------------------------
\* Induction.

\* A set of naturals that is not empty has a least element.
LEMMA LeastElement ==
  ASSUME NEW T, T \subseteq Nat, T # {}
  PROVE  \E x \in T : \A y \in T : x <= y
<1> DEFINE R == {ss \in Nat \X Nat : ss[1] < ss[2]}
<1>1. IsWellFoundedOn(R, Nat)
  BY NatLessThanWellFounded DEF OpToRel
<1>2. \E x \in T : \A y \in T : ~(<<y, x>> \in R)
  <2> HIDE DEF R
  <2> QED BY <1>1, WFMin
<1>3. PICK x \in T : \A y \in T : ~(<<y, x>> \in R)
  BY <1>2
<1>4. ASSUME NEW y \in T
      PROVE  x <= y
  <2>1. <<y, x>> \in Nat \X Nat /\ <<y, x>>[1] = y /\ <<y, x>>[2] = x
    OBVIOUS
  <2>2. ~(y < x)
    BY <1>3, <2>1
  <2> QED BY <2>2
<1> QED BY <1>4

\* A set that has 0 and the successor of each of its naturals has them all.
LEMMA Induct ==
  ASSUME NEW S, 0 \in S, \A n \in Nat : n \in S => n + 1 \in S
  PROVE  Nat \subseteq S
<1> DEFINE T == {n \in Nat : n \notin S}
<1> SUFFICES ASSUME T # {} PROVE FALSE
  OBVIOUS
<1>1. PICK x \in T : \A y \in T : x <= y
  <2> HIDE DEF T
  <2>1. T \subseteq Nat BY DEF T
  <2> QED BY <2>1, LeastElement
<1>2. x # 0 OBVIOUS
<1>3. x - 1 \in Nat /\ x - 1 \notin T
  BY <1>1, <1>2
<1> QED BY <1>3

\* What holds of 0 and goes on from each number below n to the next holds of n.
LEMMA InductUpTo ==
  ASSUME NEW n \in Nat, NEW N, 0 \in N, \A k \in 1 .. n : k - 1 \in N => k \in N
  PROVE  n \in N
<1> DEFINE S == {k \in Nat : k <= n => k \in N}
<1>1. 0 \in S
  OBVIOUS
<1>2. \A k \in Nat : k \in S => k + 1 \in S
  <2> SUFFICES ASSUME NEW k \in Nat, k \in S, k + 1 <= n
               PROVE  k + 1 \in N
    OBVIOUS
  <2>1. k + 1 \in 1 .. n /\ (k + 1) - 1 = k /\ k \in N
    OBVIOUS
  <2> QED BY <2>1
<1>3. Nat \subseteq S
  <2> HIDE DEF S
  <2> QED BY <1>1, <1>2, Induct
<1> QED BY <1>3

\* The same downwards.
LEMMA InductDownTo ==
  ASSUME NEW n \in Nat, NEW N, n \in N, \A k \in 1 .. n : k \in N => k - 1 \in N
  PROVE  0 \in N
<1> DEFINE S == {k \in Nat : k <= n => n - k \in N}
<1>1. 0 \in S
  OBVIOUS
<1>2. \A k \in Nat : k \in S => k + 1 \in S
  <2> SUFFICES ASSUME NEW k \in Nat, k \in S, k + 1 <= n
               PROVE  n - (k + 1) \in N
    OBVIOUS
  <2>1. n - k \in 1 .. n /\ (n - k) - 1 = n - (k + 1) /\ n - k \in N
    OBVIOUS
  <2> QED BY <2>1
<1>3. Nat \subseteq S
  <2> HIDE DEF S
  <2> QED BY <1>1, <1>2, Induct
<1>4. n \in S
  BY <1>3
<1> QED BY <1>4

-----------------------------------------------------------------------------
\* Folding from the left: g[k] is what the first k elements lead to.

LeftFolds(seq, base, T, g) ==
  g = [s \in T |-> IF s = {} THEN base ELSE Step(g[s \ {Max(s)}], seq[Max(s)])]

\* The fold, with the recursive function that it stands for named.
LEMMA FoldLeftIs ==
  ASSUME NEW seq, NEW base
  PROVE  FoldLeft(Step, base, seq)
           = (CHOOSE g : LeftFolds(seq, base, SUBSET DOMAIN seq, g))[DOMAIN seq]
BY DEF FoldLeft, MapThenFoldSet, LeftFolds

\* The greatest of the first k numbers.
LEMMA GreatestIs ==
  ASSUME NEW k \in Nat, k # 0
  PROVE  Max(1 .. k) = k /\ (1 .. k) \ {k} = 1 .. (k - 1)
<1>1. k \in 1 .. k /\ \A y \in 1 .. k : k >= y
  OBVIOUS
<1>2. \A x \in 1 .. k : (\A y \in 1 .. k : x >= y) => x = k
  OBVIOUS
<1> QED BY <1>1, <1>2 DEF Max

\* The greatest of a set of them.
LEMMA GreatestOf ==
  ASSUME NEW n \in Nat, NEW s \in SUBSET (1 .. n), s # {}
  PROVE  Max(s) \in s
<1> DEFINE T == {n - x : x \in s}
<1>1. T \subseteq Nat /\ T # {}
  <2>1. \A x \in s : n - x \in Nat
    OBVIOUS
  <2> QED BY <2>1
<1>2. PICK t \in T : \A y \in T : t <= y
  <2> HIDE DEF T
  <2> QED BY <1>1, LeastElement
<1>3. PICK x \in s : t = n - x
  BY <1>2
<1>4. \A y \in s : x >= y
  <2> SUFFICES ASSUME NEW y \in s PROVE x >= y
    OBVIOUS
  <2>1. n - x <= n - y
    BY <1>2, <1>3
  <2> QED BY <2>1
<1> QED BY <1>4 DEF Max

\* The function exists: it does for subsets of any size.
LEMMA LeftExists ==
  ASSUME NEW S, NEW seq \in Seq(S), NEW base
  PROVE  \E g : LeftFolds(seq, base, SUBSET DOMAIN seq, g)
<1> DEFINE D == DOMAIN seq
           Small(n) == {s \in SUBSET D : Cardinality(s) <= n}
           N == {n \in Nat : \E g : LeftFolds(seq, base, Small(n), g)}
<1>0. D = 1 .. Len(seq) /\ Len(seq) \in Nat /\ IsFiniteSet(D)
  BY FS_Interval
<1>1. \A s \in SUBSET D : IsFiniteSet(s) /\ Cardinality(s) \in Nat /\ Cardinality(s) <= Cardinality(D)
  BY <1>0, FS_Subset, FS_CardinalityType
<1> HIDE DEF D
<1>2. \A s \in SUBSET D : s # {} => Max(s) \in s
  BY <1>0, GreatestOf
<1>3. 0 \in N
  <2> DEFINE g == [s \in Small(0) |-> base]
  <2>1. \A s \in Small(0) : s = {}
    BY <1>1, FS_EmptySet
  <2>2. LeftFolds(seq, base, Small(0), g)
    BY <2>1 DEF LeftFolds
  <2> QED BY <2>2
<1>4. ASSUME NEW n \in Nat, n \in N
      PROVE  n + 1 \in N
  <2>1. PICK g : LeftFolds(seq, base, Small(n), g)
    BY <1>4
  <2> DEFINE h == [s \in Small(n + 1) |->
                     IF s = {} THEN base ELSE Step(g[s \ {Max(s)}], seq[Max(s)])]
  <2>2. ASSUME NEW s \in Small(n + 1), s # {}
        PROVE  s \ {Max(s)} \in Small(n)
    <3>1. Cardinality(s \ {Max(s)}) = Cardinality(s) - 1
      BY <1>1, <1>2, <2>2, FS_RemoveElement
    <3> QED BY <1>1, <3>1
  <2>3. ASSUME NEW s \in Small(n)
        PROVE  h[s] = g[s]
    <3>1. s \in Small(n + 1)
      BY <1>1
    <3>2. g[s] = IF s = {} THEN base ELSE Step(g[s \ {Max(s)}], seq[Max(s)])
      BY <2>1 DEF LeftFolds
    <3> QED BY <3>1, <3>2
  <2>4. LeftFolds(seq, base, Small(n + 1), h)
    <3> HIDE DEF Small
    <3> QED BY <2>2, <2>3 DEF LeftFolds
  <2>5. \E k : LeftFolds(seq, base, Small(n + 1), k)
    <3> HIDE DEF h, Small
    <3> QED BY <2>4
  <2> HIDE DEF h, Small
  <2> QED BY <2>5
<1>5. Nat \subseteq N
  <2> HIDE DEF N
  <2> QED BY <1>3, <1>4, Induct
<1>6. Small(Cardinality(D)) = SUBSET D
  BY <1>1
<1>7. \E g : LeftFolds(seq, base, Small(Cardinality(D)), g)
  BY <1>0, <1>5, FS_CardinalityType
<1> QED BY <1>6, <1>7 DEF D

\* g[k] is reached from base with the first k elements.
LeftSteps(seq, base, g) ==
  /\ g[0] = base
  /\ \A k \in 1 .. Len(seq) : g[k] = Step(g[k - 1], seq[k])

\* A fold from the left goes one step for each element.
LEMMA FoldLeftSteps ==
  ASSUME NEW S, NEW seq \in Seq(S), NEW base
  PROVE  \E g : LeftSteps(seq, base, g) /\ FoldLeft(Step, base, seq) = g[Len(seq)]
<1>1. PICK f : LeftFolds(seq, base, SUBSET DOMAIN seq, f) /\ FoldLeft(Step, base, seq) = f[DOMAIN seq]
  BY LeftExists, FoldLeftIs
<1> DEFINE g == [k \in 0 .. Len(seq) |-> f[1 .. k]]
<1>2. g[0] = base
  <2>1. 1 .. 0 = {}
    OBVIOUS
  <2>2. f[{}] = base
    BY <1>1 DEF LeftFolds
  <2> QED BY <2>1, <2>2
<1>3. ASSUME NEW k \in 1 .. Len(seq)
      PROVE  g[k] = Step(g[k - 1], seq[k])
  <2>1. Max(1 .. k) = k /\ (1 .. k) \ {k} = 1 .. (k - 1)
    BY GreatestIs
  <2>2. 1 .. k \in SUBSET DOMAIN seq /\ 1 .. k # {}
    <3>1. DOMAIN seq = 1 .. Len(seq) /\ Len(seq) \in Nat
      OBVIOUS
    <3>2. k \in 1 .. k /\ \A j \in 1 .. k : j \in 1 .. Len(seq)
      BY <3>1
    <3> HIDE DEF g
    <3> QED BY <3>1, <3>2
  <2>3. f[1 .. k] = Step(f[(1 .. k) \ {Max(1 .. k)}], seq[Max(1 .. k)])
    BY <1>1, <2>2 DEF LeftFolds
  <2>4. g[k] = f[1 .. k] /\ g[k - 1] = f[1 .. (k - 1)]
    OBVIOUS
  <2> QED BY <2>1, <2>3, <2>4
<1>4. FoldLeft(Step, base, seq) = g[Len(seq)]
  BY <1>1
<1> HIDE DEF g
<1> QED BY <1>2, <1>3, <1>4 DEF LeftSteps

-----------------------------------------------------------------------------
\* Folding from the right: g[k] is what the elements after the first k lead to.

RightFolds(seq, base, T, g) ==
  g = [s \in T |-> IF s = {} THEN base ELSE Step(seq[Min(s)], g[s \ {Min(s)}])]

\* The fold, with the recursive function that it stands for named.
LEMMA FoldRightIs ==
  ASSUME NEW seq, NEW base
  PROVE  FoldRight(Step, seq, base)
           = (CHOOSE g : RightFolds(seq, base, SUBSET DOMAIN seq, g))[DOMAIN seq]
BY DEF FoldRight, MapThenFoldSet, RightFolds

\* The least of the numbers after k.
LEMMA LeastIs ==
  ASSUME NEW n \in Nat, NEW k \in 1 .. n
  PROVE  Min(k .. n) = k /\ (k .. n) \ {k} = (k + 1) .. n
<1>1. k \in k .. n /\ \A y \in k .. n : k =< y
  OBVIOUS
<1>2. \A x \in k .. n : (\A y \in k .. n : x =< y) => x = k
  OBVIOUS
<1> QED BY <1>1, <1>2 DEF Min

\* The function exists: it does for subsets of any size.
LEMMA RightExists ==
  ASSUME NEW S, NEW seq \in Seq(S), NEW base
  PROVE  \E g : RightFolds(seq, base, SUBSET DOMAIN seq, g)
<1> DEFINE D == DOMAIN seq
           Small(n) == {s \in SUBSET D : Cardinality(s) <= n}
           N == {n \in Nat : \E g : RightFolds(seq, base, Small(n), g)}
<1>0. D = 1 .. Len(seq) /\ Len(seq) \in Nat /\ IsFiniteSet(D)
  BY FS_Interval
<1>1. \A s \in SUBSET D : IsFiniteSet(s) /\ Cardinality(s) \in Nat /\ Cardinality(s) <= Cardinality(D)
  BY <1>0, FS_Subset, FS_CardinalityType
<1> HIDE DEF D
<1>2. \A s \in SUBSET D : s # {} => Min(s) \in s
  <2> SUFFICES ASSUME NEW s \in SUBSET D, s # {} PROVE Min(s) \in s
    OBVIOUS
  <2>1. s \subseteq Nat
    BY <1>0
  <2> QED BY <2>1, LeastElement DEF Min
<1>3. 0 \in N
  <2> DEFINE g == [s \in Small(0) |-> base]
  <2>1. \A s \in Small(0) : s = {}
    BY <1>1, FS_EmptySet
  <2>2. RightFolds(seq, base, Small(0), g)
    BY <2>1 DEF RightFolds
  <2> QED BY <2>2
<1>4. ASSUME NEW n \in Nat, n \in N
      PROVE  n + 1 \in N
  <2>1. PICK g : RightFolds(seq, base, Small(n), g)
    BY <1>4
  <2> DEFINE h == [s \in Small(n + 1) |->
                     IF s = {} THEN base ELSE Step(seq[Min(s)], g[s \ {Min(s)}])]
  <2>2. ASSUME NEW s \in Small(n + 1), s # {}
        PROVE  s \ {Min(s)} \in Small(n)
    <3>1. Cardinality(s \ {Min(s)}) = Cardinality(s) - 1
      BY <1>1, <1>2, <2>2, FS_RemoveElement
    <3> QED BY <1>1, <3>1
  <2>3. ASSUME NEW s \in Small(n)
        PROVE  h[s] = g[s]
    <3>1. s \in Small(n + 1)
      BY <1>1
    <3>2. g[s] = IF s = {} THEN base ELSE Step(seq[Min(s)], g[s \ {Min(s)}])
      BY <2>1 DEF RightFolds
    <3> QED BY <3>1, <3>2
  <2>4. RightFolds(seq, base, Small(n + 1), h)
    <3> HIDE DEF Small
    <3> QED BY <2>2, <2>3 DEF RightFolds
  <2>5. \E k : RightFolds(seq, base, Small(n + 1), k)
    <3> HIDE DEF h, Small
    <3> QED BY <2>4
  <2> HIDE DEF h, Small
  <2> QED BY <2>5
<1>5. Nat \subseteq N
  <2> HIDE DEF N
  <2> QED BY <1>3, <1>4, Induct
<1>6. Small(Cardinality(D)) = SUBSET D
  BY <1>1
<1>7. \E g : RightFolds(seq, base, Small(Cardinality(D)), g)
  BY <1>0, <1>5, FS_CardinalityType
<1> QED BY <1>6, <1>7 DEF D

\* g[k] is reached from base with the elements after the first k, from the last on.
RightSteps(seq, base, g) ==
  /\ g[Len(seq)] = base
  /\ \A k \in 1 .. Len(seq) : g[k - 1] = Step(seq[k], g[k])

\* A fold from the right goes one step for each element, the last one first.
LEMMA FoldRightSteps ==
  ASSUME NEW S, NEW seq \in Seq(S), NEW base
  PROVE  \E g : RightSteps(seq, base, g) /\ FoldRight(Step, seq, base) = g[0]
<1>1. PICK f : RightFolds(seq, base, SUBSET DOMAIN seq, f)
               /\ FoldRight(Step, seq, base) = f[DOMAIN seq]
  BY RightExists, FoldRightIs
<1> DEFINE n == Len(seq)
           g == [k \in 0 .. n |-> f[(k + 1) .. n]]
<1>2. g[n] = base
  <2>1. (n + 1) .. n = {}
    OBVIOUS
  <2>2. f[{}] = base
    BY <1>1 DEF RightFolds
  <2> QED BY <2>1, <2>2
<1>3. ASSUME NEW k \in 1 .. n
      PROVE  g[k - 1] = Step(seq[k], g[k])
  <2>1. Min(k .. n) = k /\ (k .. n) \ {k} = (k + 1) .. n
    BY LeastIs
  <2>2. k .. n \in SUBSET DOMAIN seq /\ k .. n # {}
    OBVIOUS
  <2>3. f[k .. n] = Step(seq[Min(k .. n)], f[(k .. n) \ {Min(k .. n)}])
    BY <1>1, <2>2 DEF RightFolds
  <2>4. g[k - 1] = f[k .. n] /\ g[k] = f[(k + 1) .. n]
    OBVIOUS
  <2> QED BY <2>1, <2>3, <2>4
<1>4. FoldRight(Step, seq, base) = g[0]
  BY <1>1
<1> HIDE DEF g
<1> QED BY <1>2, <1>3, <1>4 DEF RightSteps

\* One element more is the first one that a fold from the right takes.
LEMMA FoldRightAppend ==
  ASSUME NEW S, NEW seq \in Seq(S), NEW x \in S, NEW base
  PROVE  FoldRight(Step, Append(seq, x), base) = FoldRight(Step, seq, Step(x, base))
<1> DEFINE n == Len(seq)
           more == Append(seq, x)
<1>1. n \in Nat /\ more \in Seq(S) /\ Len(more) = n + 1 /\ more[n + 1] = x
      /\ \A k \in 1 .. n : more[k] = seq[k]
  OBVIOUS
<1>2. PICK g : RightSteps(more, base, g) /\ FoldRight(Step, more, base) = g[0]
  <2> HIDE DEF more
  <2> QED BY <1>1, FoldRightSteps
<1>3. PICK h : RightSteps(seq, Step(x, base), h)
               /\ FoldRight(Step, seq, Step(x, base)) = h[0]
  BY FoldRightSteps
<1> HIDE DEF more
<1>4. /\ g[n + 1] = base /\ \A k \in 1 .. n + 1 : g[k - 1] = Step(more[k], g[k])
      /\ h[n] = Step(x, base) /\ \A k \in 1 .. n : h[k - 1] = Step(seq[k], h[k])
  BY <1>1, <1>2, <1>3 DEF RightSteps
<1> HIDE DEF n
<1> DEFINE N == {k \in 0 .. n : g[k] = h[k]}
<1>5. n \in N
  <2>1. g[(n + 1) - 1] = Step(more[n + 1], g[n + 1])
    BY <1>1, <1>4
  <2> QED BY <1>1, <1>4, <2>1
<1>6. ASSUME NEW k \in 1 .. n, k \in N
      PROVE  k - 1 \in N
  <2>1. g[k - 1] = Step(more[k], g[k]) /\ h[k - 1] = Step(seq[k], h[k]) /\ more[k] = seq[k]
    BY <1>1, <1>4
  <2>2. g[k] = h[k] /\ k - 1 \in 0 .. n
    BY <1>1, <1>6
  <2> QED BY <2>1, <2>2
<1>7. 0 \in N
  <2> HIDE DEF N
  <2> QED BY <1>1, <1>5, <1>6, InductDownTo
<1> QED BY <1>2, <1>3, <1>7 DEF more

=============================================================================
