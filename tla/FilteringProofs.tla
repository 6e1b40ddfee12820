---------------------------- MODULE FilteringProofs ----------------------------
(* The filterers (ProjectionFilterer), the filters and bad pixels (Calls),  *)
(* for any number of workers, any widths and any module: the mutex of       *)
(* fftw_mt keeps the workers apart in the planner of FFTW, whoever is       *)
(* deleted has destroyed his plans, and what is transformed is the padded   *)
(* row, with the right filter. The steps that a worker takes are told apart *)
(* by their place in its call. In any image, a bad pixel is replaced by the *)
(* average of the nearest four good ones.                                   *)
EXTENDS ProjectionFilterer, Calls, SequenceTheorems, FiniteSetTheorems,
        WellFoundedInduction, TLAPS

-----------------------------------------------------------------------------
(* The mutex                                                                *)

(* Who is inside the planner holds its mutex.                               *)
HoldsMutex ==
  /\ inside \in [Workers -> BOOLEAN]
  /\ \A w \in Workers : inside[w] => mutex = w

LEMMA HoldsMutexInit == FiltererInit => HoldsMutex
BY DEF FiltererInit, HoldsMutex

(* Only entering and leaving the planner touch the mutex.                   *)
LEMMA HoldsMutexStep ==
  ASSUME HoldsMutex, [FiltererNext]_filtererVars
  PROVE  HoldsMutex'
<1> USE DEF HoldsMutex
<1>1. ASSUME UNCHANGED <<inside, mutex>>
      PROVE  HoldsMutex'
  BY <1>1
<1>2. ASSUME NEW w \in Workers, EnterPlanner(w)
      PROVE  HoldsMutex'
  <2>1. mutex = NoWorker /\ mutex' = w
    BY <1>2 DEF EnterPlanner, LocksPlanner
  <2>2. \A v \in Workers : ~inside[v]
    BY <2>1, FiltererAssumption
  <2>3. inside' = [inside EXCEPT ![w] = TRUE]
    BY <1>2 DEF EnterPlanner
  <2> QED
    BY <2>1, <2>2, <2>3
<1>3. ASSUME NEW w \in Workers, LeavePlanner(w)
      PROVE  HoldsMutex'
  <2>1. inside[w] /\ inside' = [inside EXCEPT ![w] = FALSE]
    BY <1>3 DEF LeavePlanner
  <2>2. \A v \in Workers : v # w => ~inside[v]
    BY <2>1
  <2> QED
    BY <2>1, <2>2
<1>4. CASE UNCHANGED filtererVars
  BY <1>1, <1>4 DEF filtererVars
<1>5. CASE FiltererNext
  <2>1. PICK w \in Workers :
          \/ Initialize(w) \/ RefuseSmoothing(w) \/ Allocate(w)
          \/ EnterPlanner(w) \/ LeavePlanner(w)
          \/ MakeRamp(w) \/ TransformRamp(w)
          \/ SetLength(w) \/ ConstructTransferFunction(w) \/ FinishInitialize(w)
          \/ LoadRow(w) \/ FilterRow(w)
          \/ Destroy(w) \/ Free(w)
    BY <1>5 DEF FiltererNext
  <2>2. CASE EnterPlanner(w)
    BY <1>2, <2>2
  <2>3. CASE LeavePlanner(w)
    BY <1>3, <2>3
  <2>4. CASE Initialize(w) \/ RefuseSmoothing(w) \/ Allocate(w)
    BY <1>1, <2>4 DEF Initialize, RefuseSmoothing, Allocate
  <2>5. CASE MakeRamp(w) \/ TransformRamp(w) \/ SetLength(w)
    BY <1>1, <2>5 DEF MakeRamp, TransformRamp, SetLength
  <2>6. CASE ConstructTransferFunction(w) \/ FinishInitialize(w) \/ LoadRow(w)
    BY <1>1, <2>6 DEF ConstructTransferFunction, FinishInitialize, LoadRow
  <2>7. CASE FilterRow(w) \/ Destroy(w) \/ Free(w)
    BY <1>1, <2>7 DEF FilterRow, Destroy, Free
  <2> QED
    BY <2>1, <2>2, <2>3, <2>4, <2>5, <2>6, <2>7
<1> QED
  BY <1>4, <1>5

(* No two workers are inside the planner, whenever they make and delete     *)
(* their filterers.                                                         *)
THEOREM PlannerIsExclusive == FiltererSpec => []PlannerExcludes
<1>1. HoldsMutex => PlannerExcludes
  BY DEF HoldsMutex, PlannerExcludes
<1> QED
  BY <1>1, HoldsMutexInit, HoldsMutexStep, PTL DEF FiltererSpec

-----------------------------------------------------------------------------
(* The lengths of the transforms                                            *)

(* A set of natural numbers has a least one: what stands for induction.     *)
LEMMA LeastNatural ==
  ASSUME NEW T \in SUBSET Nat, T # {}
  PROVE  \E x \in T : \A y \in T : x <= y
<1> DEFINE R == OpToRel(<, Nat)
<1>1. \A x \in Nat, y \in Nat : x < y => <<x, y>> \in R
  BY DEF OpToRel
<1>2. PICK x \in T : \A y \in T : <<y, x>> \notin R
  BY NatLessThanWellFounded, WFMin
<1> HIDE DEF R
<1>3. ASSUME NEW y \in T PROVE x <= y
  <2>1. x \in Nat /\ y \in Nat /\ ~(y < x)
    BY <1>1, <1>2
  <2> QED
    BY <2>1
<1> QED
  BY <1>3

LEMMA MinIsIn ==
  ASSUME NEW T \in SUBSET Nat, T # {}
  PROVE  Min(T) \in T
BY LeastNatural DEF Min

LEMMA MinIsLeast ==
  ASSUME NEW T \in SUBSET Nat, T # {}
  PROVE  \A t \in T : Min(T) <= t
BY LeastNatural DEF Min

LEMMA PowersAreNatural == \A p \in Exponents : 2^p \in Nat /\ 2^(p + 1) = 2 * 2^p
<1> SUFFICES ASSUME NEW p \in 0..16 PROVE 2^p \in Nat /\ 2^(p + 1) = 2 * 2^p
  BY DEF Exponents
<1>1. CASE p = 0
  BY <1>1
<1>2. CASE p = 1
  BY <1>2
<1>3. CASE p = 2
  BY <1>3
<1>4. CASE p = 3
  BY <1>4
<1>5. CASE p = 4
  BY <1>5
<1>6. CASE p = 5
  BY <1>6
<1>7. CASE p = 6
  BY <1>7
<1>8. CASE p = 7
  BY <1>8
<1>9. CASE p = 8
  BY <1>9
<1>10. CASE p = 9
  BY <1>10
<1>11. CASE p = 10
  BY <1>11
<1>12. CASE p = 11
  BY <1>12
<1>13. CASE p = 12
  BY <1>13
<1>14. CASE p = 13
  BY <1>14
<1>15. CASE p = 14
  BY <1>15
<1>16. CASE p = 15
  BY <1>16
<1>17. CASE p = 16
  BY <1>17
<1> QED
  BY <1>1, <1>2, <1>3, <1>4, <1>5, <1>6, <1>7, <1>8, <1>9, <1>10, <1>11, <1>12, <1>13, <1>14, <1>15, <1>16, <1>17

LEMMA PowersOfTwo ==
  ASSUME NEW p \in Exponents
  PROVE  
         \/ p = 0 /\ 2^p = 1
         \/ p = 1 /\ 2^p = 2
         \/ p = 2 /\ 2^p = 4
         \/ p = 3 /\ 2^p = 8
         \/ p = 4 /\ 2^p = 16
         \/ p = 5 /\ 2^p = 32
         \/ p = 6 /\ 2^p = 64
         \/ p = 7 /\ 2^p = 128
         \/ p = 8 /\ 2^p = 256
         \/ p = 9 /\ 2^p = 512
         \/ p = 10 /\ 2^p = 1024
         \/ p = 11 /\ 2^p = 2048
         \/ p = 12 /\ 2^p = 4096
         \/ p = 13 /\ 2^p = 8192
         \/ p = 14 /\ 2^p = 16384
         \/ p = 15 /\ 2^p = 32768
         \/ p = 16 /\ 2^p = 65536
<1>1. CASE p = 0
  BY <1>1
<1>2. CASE p = 1
  BY <1>2
<1>3. CASE p = 2
  BY <1>3
<1>4. CASE p = 3
  BY <1>4
<1>5. CASE p = 4
  BY <1>5
<1>6. CASE p = 5
  BY <1>6
<1>7. CASE p = 6
  BY <1>7
<1>8. CASE p = 7
  BY <1>8
<1>9. CASE p = 8
  BY <1>9
<1>10. CASE p = 9
  BY <1>10
<1>11. CASE p = 10
  BY <1>11
<1>12. CASE p = 11
  BY <1>12
<1>13. CASE p = 12
  BY <1>13
<1>14. CASE p = 13
  BY <1>14
<1>15. CASE p = 14
  BY <1>15
<1>16. CASE p = 15
  BY <1>16
<1>17. CASE p = 16
  BY <1>17
<1> QED
  BY <1>1, <1>2, <1>3, <1>4, <1>5, <1>6, <1>7, <1>8, <1>9, <1>10, <1>11, <1>12, <1>13, <1>14, <1>15, <1>16, <1>17 DEF Exponents

LEMMA PowersGrow ==
  ASSUME NEW a \in Exponents, NEW b \in Exponents, a <= b
  PROVE  2^a \in Nat \ {0} /\ 2^a <= 2^b
BY PowersOfTwo

LEMMA PowersArePositive == \A p \in Exponents : 2^p \in Nat \ {0}
BY PowersOfTwo

(* What the powers of two considered (Exponents) reach.                     *)
Reached(n) == n <= 65536

LEMMA NextPowerSuffices ==
  ASSUME NEW n \in Nat, n <= 65536
  PROVE  NextPowerOfTwo(n) \in Exponents /\ 2^NextPowerOfTwo(n) >= n
<1> DEFINE T == {p \in Exponents : 2^p >= n}
<1>1. T \in SUBSET Nat
  BY DEF Exponents
<1>2. 16 \in T
  <2>1. 2^16 = 65536
    OBVIOUS
  <2> QED
    BY <2>1 DEF Exponents
<1>3. Min(T) = NextPowerOfTwo(n)
  BY DEF NextPowerOfTwo
<1>4. Min(T) \in T
  <2> HIDE DEF T
  <2> QED
    BY <1>1, <1>2, MinIsIn
<1> QED
  BY <1>3, <1>4

(* The numbers that are tested, from a power of 2 that suffices downwards.  *)
NextTested(n, before) ==
  LET half == before \div 2 IN IF half < n THEN 3 * half ELSE half

Tests(g, n, top, first) ==
  g = [f \in 0..top |-> IF f = top THEN first ELSE NextTested(n, g[f + 1])]

LEMMA TestedExists ==
  ASSUME NEW n, NEW top \in Nat, NEW first
  PROVE  \E g : Tests(g, n, top, first)
<1> DEFINE From(j) ==
      \E g : g = [f \in (top - j)..top |->
                    IF f = top THEN first ELSE NextTested(n, g[f + 1])]
           Bad == {j \in 0..top : ~From(j)}
<1>1. Bad = {}
  <2> SUFFICES ASSUME Bad # {} PROVE FALSE
    OBVIOUS
  <2>1. Bad \in SUBSET Nat
    OBVIOUS
  <2>2. PICK j \in Bad : \A i \in Bad : j <= i
    <3> HIDE DEF Bad
    <3> QED
      BY <2>1, LeastNatural
  <2>3. j \in 0..top /\ ~From(j)
    OBVIOUS
  <2>4. CASE j = 0
    <3> DEFINE g == [f \in (top - 0)..top |-> first]
    <3>1. g = [f \in (top - 0)..top |->
                 IF f = top THEN first ELSE NextTested(n, g[f + 1])]
      OBVIOUS
    <3> QED
      BY <2>3, <2>4, <3>1
  <2>5. CASE j # 0
    <3>1. j - 1 \in 0..top /\ j - 1 \notin Bad
      <4> HIDE DEF Bad
      <4>1. j - 1 \in 0..top /\ ~(j <= j - 1)
        BY <2>3, <2>5
      <4> QED
        BY <2>2, <4>1
    <3>2. PICK g : g = [f \in (top - (j - 1))..top |->
                         IF f = top THEN first ELSE NextTested(n, g[f + 1])]
      BY <3>1
    <3> DEFINE h == [f \in (top - j)..top |->
                       IF f = top - j THEN NextTested(n, g[f + 1]) ELSE g[f]]
    <3>3. ASSUME NEW f \in (top - j)..top
          PROVE  h[f] = IF f = top THEN first ELSE NextTested(n, h[f + 1])
      <4>1. CASE f = top - j
        <5>1. f # top /\ f + 1 \in (top - j)..top /\ f + 1 # top - j
          BY <2>3, <2>5, <4>1
        <5>2. h[f] = NextTested(n, g[f + 1]) /\ h[f + 1] = g[f + 1]
          BY <4>1, <5>1
        <5> QED
          BY <5>1, <5>2
      <4>2. CASE f # top - j
        <5>1. f \in (top - (j - 1))..top /\ h[f] = g[f]
          BY <2>3, <4>2
        <5>2. f # top => f + 1 \in (top - j)..top /\ f + 1 # top - j
          BY <2>3, <4>2
        <5>3. f # top => h[f + 1] = g[f + 1]
          BY <5>2
        <5> HIDE DEF h
        <5> QED
          BY <3>2, <5>1, <5>3
      <4> QED
        BY <4>1, <4>2
    <3>4. DOMAIN h = (top - j)..top /\ h = [f \in (top - j)..top |-> h[f]]
      OBVIOUS
    <3> HIDE DEF h
    <3>5. h = [f \in (top - j)..top |->
                 IF f = top THEN first ELSE NextTested(n, h[f + 1])]
      BY <3>3, <3>4
    <3> QED
      BY <2>3, <3>5
  <2> QED
    BY <2>4, <2>5
<1>2. top \in 0..top /\ top - top = 0
  OBVIOUS
<1>3. From(top)
  BY <1>1, <1>2
<1> HIDE DEF Bad
<1> QED
  BY <1>2, <1>3 DEF Tests

(* The powers of 3 that Smooth admits.                                      *)
Threes == {3^b : b \in 0..11}

LEMMA ThreesAre ==
  Threes = {1, 3, 9, 27, 81, 243, 729, 2187, 6561, 19683, 59049, 177147}
<1> DEFINE All == {1, 3, 9, 27, 81, 243, 729, 2187, 6561, 19683, 59049, 177147}
<1>1. ASSUME NEW b \in 0..11
      PROVE  3^b \in All
  <2>1. CASE b = 0
    BY <2>1
  <2>2. CASE b = 1
    BY <2>2
  <2>3. CASE b = 2
    BY <2>3
  <2>4. CASE b = 3
    BY <2>4
  <2>5. CASE b = 4
    BY <2>5
  <2>6. CASE b = 5
    BY <2>6
  <2>7. CASE b = 6
    BY <2>7
  <2>8. CASE b = 7
    BY <2>8
  <2>9. CASE b = 8
    BY <2>9
  <2>10. CASE b = 9
    BY <2>10
  <2>11. CASE b = 10
    BY <2>11
  <2>12. CASE b = 11
    BY <2>12
  <2> QED
    BY <2>1, <2>2, <2>3, <2>4, <2>5, <2>6, <2>7, <2>8, <2>9, <2>10, <2>11, <2>12
<1>2. /\ 3^0 = 1 /\ 3^1 = 3 /\ 3^2 = 9 /\ 3^3 = 27 /\ 3^4 = 81 /\ 3^5 = 243
      /\ 3^6 = 729 /\ 3^7 = 2187 /\ 3^8 = 6561 /\ 3^9 = 19683 /\ 3^10 = 59049
      /\ 3^11 = 177147
  OBVIOUS
<1>3. \A t \in All : \E b \in 0..11 : t = 3^b
  BY <1>2
<1> QED
  BY <1>1, <1>3 DEF Threes

LEMMA ThreesAreApart ==
  /\ \A t \in Threes : t \in Nat \ {0}
  /\ \A t \in Threes : t <= 65535 => 3 * t \in Threes
  /\ \A s \in Threes, t \in Threes : s < 3 * t => s <= t
BY ThreesAre

(* Multiples of a power of two, for each of the few exponents.              *)
LEMMA MultiplesOfPowers ==
  ASSUME NEW p \in Exponents, NEW k \in Nat, NEW t \in Nat
  PROVE  k = 2^p * t <=> k % 2^p = 0 /\ k \div 2^p = t
<1>1. CASE p = 0
  BY <1>1
<1>2. CASE p = 1
  BY <1>2
<1>3. CASE p = 2
  BY <1>3
<1>4. CASE p = 3
  BY <1>4
<1>5. CASE p = 4
  BY <1>5
<1>6. CASE p = 5
  BY <1>6
<1>7. CASE p = 6
  BY <1>7
<1>8. CASE p = 7
  BY <1>8
<1>9. CASE p = 8
  BY <1>9
<1>10. CASE p = 9
  BY <1>10
<1>11. CASE p = 10
  BY <1>11
<1>12. CASE p = 11
  BY <1>12
<1>13. CASE p = 12
  BY <1>13
<1>14. CASE p = 13
  BY <1>14
<1>15. CASE p = 14
  BY <1>15
<1>16. CASE p = 15
  BY <1>16
<1>17. CASE p = 16
  BY <1>17
<1> QED
  BY <1>1, <1>2, <1>3, <1>4, <1>5, <1>6, <1>7, <1>8, <1>9, <1>10, <1>11, <1>12, <1>13, <1>14, <1>15, <1>16, <1>17 DEF Exponents

LEMMA ProductsGrow ==
  ASSUME NEW x \in Nat, NEW s \in Nat, NEW t \in Nat, s <= t
  PROVE  x * s <= x * t
<1>1. PICK d \in Nat : t = s + d
  <2>1. t - s \in Nat /\ t = s + (t - s)
    OBVIOUS
  <2> QED
    BY <2>1
<1>2. x * t = x * s + x * d /\ x * d \in Nat /\ x * s \in Nat
  BY <1>1
<1> QED
  BY <1>2

(* What is tested with f halvings left is the least number that suffices    *)
(* among those with exactly f factors of 2.                                 *)
Fits(n, f, k) ==
  \E t \in Threes : /\ k = 2^f * t /\ k >= n
                    /\ \A s \in Threes : 2^f * s >= n => t <= s

LEMMA NextTestedFits ==
  ASSUME NEW n \in Nat \ {0}, Reached(n), NEW f \in Exponents, f + 1 \in Exponents,
         NEW k, Fits(n, f + 1, k)
  PROVE  Fits(n, f, NextTested(n, k))
<1>1. PICK t \in Threes : /\ k = 2^(f + 1) * t /\ k >= n
                          /\ \A s \in Threes : 2^(f + 1) * s >= n => t <= s
  BY DEF Fits
<1>2. PICK x \in Nat \ {0} : x = 2^f /\ 2^(f + 1) = 2 * x
  <2>1. 2^f \in Nat \ {0}
    BY PowersArePositive
  <2>2. 2^(f + 1) = 2 * 2^f
    BY PowersAreNatural
  <2> QED
    BY <2>1, <2>2
<1>3. t \in Nat \ {0} /\ \A s \in Threes : s \in Nat \ {0}
  BY ThreesAreApart
<1>4. PICK half \in Nat : half = x * t
  BY <1>3
<1>5. \A s \in Nat : (2 * x) * s = 2 * (x * s)
  OBVIOUS
<1>6. k = 2 * half /\ k \div 2 = half
  BY <1>1, <1>2, <1>3, <1>4, <1>5
<1>7. t <= half
  BY <1>2, <1>3, <1>4, ProductsGrow
<1>8. CASE half < n
  <2>1. 3 * t \in Threes
    <3>1. t <= 65535
      BY <1>3, <1>7, <1>8 DEF Reached
    <3> QED
      BY <3>1, ThreesAreApart
  <2>2. 3 * half = x * (3 * t) /\ 3 * half >= n
    BY <1>1, <1>3, <1>4, <1>6
  <2>3. ASSUME NEW s \in Threes, x * s >= n
        PROVE  3 * t <= s
    <3>1. s <= t => x * s <= half
      BY <1>2, <1>3, <1>4, ProductsGrow
    <3>2. x * s \in Nat
      BY <1>2, <1>3
    <3>3. ~(s <= t)
      BY <1>8, <2>3, <3>1, <3>2
    <3>4. ~(s < 3 * t)
      BY <3>3, ThreesAreApart
    <3> QED
      BY <1>3, <3>4
  <2>4. NextTested(n, k) = 3 * half
    BY <1>6, <1>8 DEF NextTested
  <2> QED
    BY <1>2, <2>1, <2>2, <2>3, <2>4 DEF Fits
<1>9. CASE ~(half < n)
  <2>1. NextTested(n, k) = half /\ half >= n
    BY <1>6, <1>9 DEF NextTested
  <2>2. ASSUME NEW s \in Threes, x * s >= n
        PROVE  t <= s
    <3>1. x * s \in Nat
      BY <1>2, <1>3
    <3>2. 2^(f + 1) * s >= n
      BY <1>2, <1>3, <1>5, <2>2, <3>1
    <3> QED
      BY <1>1, <3>2
  <2> QED
    BY <1>2, <1>4, <2>1, <2>2 DEF Fits
<1> QED
  BY <1>8, <1>9

LEMMA TestedNext ==
  ASSUME NEW n, NEW top \in Nat, NEW first, NEW g, Tests(g, n, top, first)
  PROVE  /\ g[top] = first
         /\ \A f \in 0..top : f # top => g[f] = NextTested(n, g[f + 1])
BY DEF Tests

LEMMA SmoothIs ==
  ASSUME NEW k
  PROVE  Smooth(k) <=>
           \E a \in Exponents, s \in Threes : k % 2^a = 0 /\ k \div 2^a = s
BY DEF Smooth, Threes

LEMMA TestedFit ==
  ASSUME NEW n \in Nat \ {0}, Reached(n), NEW top \in Exponents, 2^top >= n,
         NEW g, Tests(g, n, top, 2^top)
  PROVE  \A f \in 0..top : Fits(n, f, g[f])
<1>1. top \in Nat /\ \A f \in 0..top : f \in Exponents
  BY DEF Exponents
<1> DEFINE Bad == {j \in 0..top : ~Fits(n, top - j, g[top - j])}
<1>2. Bad = {}
  <2> SUFFICES ASSUME Bad # {} PROVE FALSE
    OBVIOUS
  <2>1. Bad \in SUBSET Nat
    BY <1>1
  <2>2. PICK j \in Bad : \A i \in Bad : j <= i
    <3> HIDE DEF Bad
    <3> QED
      BY <2>1, LeastNatural
  <2>3. j \in 0..top /\ ~Fits(n, top - j, g[top - j])
    OBVIOUS
  <2>4. CASE j = 0
    <3>1. top - j = top /\ g[top] = 2^top
      BY <1>1, <2>4 DEF Tests
    <3>2. 2^top \in Nat
      BY PowersGrow, <1>1
    <3>3. 1 \in Threes /\ \A s \in Threes : 1 <= s
      BY ThreesAre, ThreesAreApart
    <3>4. 2^top * 1 = 2^top
      BY <3>2
    <3> QED
      BY <2>3, <3>1, <3>3, <3>4 DEF Fits
  <2>5. CASE j # 0
    <3>1. j - 1 \in 0..top /\ j - 1 \notin Bad
      <4> HIDE DEF Bad
      <4>1. j - 1 \in 0..top /\ ~(j <= j - 1)
        BY <1>1, <2>3, <2>5
      <4> QED
        BY <2>2, <4>1
    <3>2. Fits(n, top - (j - 1), g[top - (j - 1)])
      BY <3>1
    <3>3. top - j \in 0..top /\ top - j # top /\ (top - j) + 1 = top - (j - 1)
      BY <1>1, <2>3, <2>5
    <3>4. g[top - j] = NextTested(n, g[(top - j) + 1])
      <4> HIDE DEF Bad
      <4>1. PICK i \in 0..top : i = top - j /\ i # top
        BY <3>3
      <4>3. \A f \in 0..top : f # top => g[f] = NextTested(n, g[f + 1])
        BY <1>1, TestedNext
      <4>2. g[i] = NextTested(n, g[i + 1])
        BY <4>1, <4>3
      <4> QED
        BY <4>1, <4>2
    <3>5. top - j \in Exponents /\ (top - j) + 1 \in Exponents
      BY <1>1, <2>3, <2>5 DEF Exponents
    <3> QED
      BY <2>3, <3>2, <3>3, <3>4, <3>5, NextTestedFits
  <2> QED
    BY <2>4, <2>5
<1>3. ASSUME NEW f \in 0..top PROVE Fits(n, f, g[f])
  <2>1. top - f \in 0..top /\ top - (top - f) = f
    BY <1>1
  <2> QED
    BY <1>2, <2>1
<1> QED
  BY <1>3

LEMMA LeastTestedIsLeast ==
  ASSUME NEW n \in Nat \ {0}, Reached(n), NEW top \in Exponents, 2^top >= n,
         NEW g, Tests(g, n, top, 2^top), NEW r, r = Min({g[f] : f \in 0..top})
  PROVE  /\ r \in Nat /\ r >= n /\ Smooth(r)
         /\ \A k \in n .. r - 1 : ~Smooth(k)
<1> DEFINE T == {g[f] : f \in 0..top}
<1> HIDE DEF T
<1>1. top \in Nat /\ top \in 0..top /\ \A f \in 0..top : f \in Exponents /\ f <= top
  BY DEF Exponents
<1>2. \A f \in 0..top : Fits(n, f, g[f])
  BY TestedFit
<1>3. \A p \in Exponents : 2^p \in Nat \ {0}
  BY PowersArePositive
<1>4. \A t \in Threes : t \in Nat \ {0}
  BY ThreesAreApart
<1>5. \A f \in 0..top : g[f] \in Nat /\ g[f] >= n
  <2> SUFFICES ASSUME NEW f \in 0..top PROVE g[f] \in Nat /\ g[f] >= n
    OBVIOUS
  <2>1. PICK t \in Threes : g[f] = 2^f * t /\ g[f] >= n
    BY <1>2 DEF Fits
  <2>2. 2^f \in Nat /\ t \in Nat
    BY <1>1, <1>3, <1>4
  <2> QED
    BY <2>1, <2>2
<1>6. T \in SUBSET Nat /\ T # {}
  BY <1>1, <1>5 DEF T
<1>7. r \in T /\ \A t \in T : r <= t
  <2>1. r = Min(T)
    BY DEF T
  <2>2. Min(T) \in T
    BY <1>6, MinIsIn
  <2>3. \A t \in T : Min(T) <= t
    BY <1>6, MinIsLeast
  <2> QED
    BY <2>1, <2>2, <2>3
<1>8. r \in Nat /\ r >= n
  BY <1>5, <1>7 DEF T
<1>9. g[top] = 2^top /\ r <= 2^top
  <2>1. g[top] = 2^top /\ g[top] \in T
    BY <1>1, TestedNext DEF T
  <2> QED
    BY <1>7, <2>1
<1>10. Smooth(r)
  <2>1. PICK f \in 0..top : r = g[f]
    BY <1>7 DEF T
  <2>5. Fits(n, f, r)
    BY <1>2, <2>1
  <2>2. PICK t \in Threes : r = 2^f * t
    BY <2>5 DEF Fits
  <2>3. f \in Exponents /\ t \in Nat
    BY <1>1, <1>4
  <2>4. r % 2^f = 0 /\ r \div 2^f = t
    BY <1>8, <2>2, <2>3, MultiplesOfPowers
  <2> QED
    BY <2>3, <2>4, SmoothIs
<1>11. ASSUME NEW k \in n .. r - 1, Smooth(k)
       PROVE  FALSE
  <2>1. k \in Nat /\ k >= n /\ k < r
    BY <1>8
  <2>2. PICK a \in Exponents, s \in Threes : k % 2^a = 0 /\ k \div 2^a = s
    BY <1>11, SmoothIs
  <2>3. PICK x \in Nat \ {0} : x = 2^a
    BY <1>3
  <2>4. s \in Nat \ {0}
    BY <1>4
  <2>5. k = x * s
    BY <2>1, <2>2, <2>3, <2>4, MultiplesOfPowers
  <2>6. CASE a \in 0..top
    <3>1. PICK t \in Threes : g[a] = x * t /\ (x * s >= n => t <= s)
      BY <1>2, <2>3, <2>6 DEF Fits
    <3>2. g[a] <= k
      BY <1>4, <2>1, <2>4, <2>5, <3>1, ProductsGrow
    <3>3. r <= g[a] /\ g[a] \in Nat
      BY <1>5, <1>7, <2>6 DEF T
    <3> QED
      BY <1>8, <2>1, <3>2, <3>3
  <2>7. CASE a \notin 0..top
    <3>1. top <= a
      BY <1>1, <2>7 DEF Exponents
    <3>2. 2^top <= x /\ 2^top \in Nat
      BY <1>3, <2>3, <3>1, PowersGrow
    <3>3. x <= k
      <4>1. x * 1 <= x * s /\ x * 1 = x
        BY <2>4, ProductsGrow
      <4> QED
        BY <2>5, <4>1
    <3> QED
      BY <1>8, <1>9, <2>1, <3>2, <3>3
  <2> QED
    BY <2>6, <2>7
<1> QED
  BY <1>8, <1>10, <1>11

LEMMA LengthIs ==
  ASSUME NEW n \in Nat \ {0}, Reached(n)
  PROVE  \E top \in Exponents : \E g :
           /\ 2^top >= n /\ Tests(g, n, top, 2^top)
           /\ NextNumberWithFactors2And3(n) = Min({g[f] : f \in 0..top})
<1>1. PICK top \in Exponents : top = NextPowerOfTwo(n) /\ 2^top >= n
  BY NextPowerSuffices DEF Reached
<1>2. top \in Nat
  BY DEF Exponents
<1> DEFINE tested[f \in 0..top] ==
             IF f = top THEN 2^top
             ELSE LET half == tested[f + 1] \div 2
                  IN  IF half < n THEN 3 * half ELSE half
           Def(g) == [f \in 0..top |->
                        IF f = top THEN 2^top
                        ELSE LET half == g[f + 1] \div 2
                             IN  IF half < n THEN 3 * half ELSE half]
<1>3. ASSUME NEW g PROVE g = Def(g) <=> Tests(g, n, top, 2^top)
  BY DEF Tests, NextTested
<1>4. \E g : Tests(g, n, top, 2^top)
  BY <1>2, TestedExists
<1>5. \E g : g = Def(g)
  <2> HIDE DEF Def
  <2> QED
    BY <1>3, <1>4
<1>6. tested = CHOOSE g : g = Def(g)
  OBVIOUS
<1>7. tested = Def(tested)
  <2> HIDE DEF Def, tested
  <2> QED
    BY <1>5, <1>6
<1>8. NextNumberWithFactors2And3(n) = Min({tested[f] : f \in 0..top})
  BY <1>1 DEF NextNumberWithFactors2And3
<1> HIDE DEF Def, tested
<1>9. Tests(tested, n, top, 2^top)
  BY <1>3, <1>7
<1> QED
  BY <1>1, <1>8, <1>9

(* The length is as its comment promises.                                   *)
LEMMA LengthIsLeast ==
  ASSUME NEW n \in Nat \ {0}, Reached(n)
  PROVE  /\ NextNumberWithFactors2And3(n) \in Nat
         /\ NextNumberWithFactors2And3(n) >= n
         /\ Smooth(NextNumberWithFactors2And3(n))
         /\ \A k \in n .. NextNumberWithFactors2And3(n) - 1 : ~Smooth(k)
<1>1. PICK top \in Exponents :
         \E g : /\ 2^top >= n /\ Tests(g, n, top, 2^top)
                /\ NextNumberWithFactors2And3(n) = Min({g[f] : f \in 0..top})
  BY LengthIs
<1>2. PICK g : /\ 2^top >= n /\ Tests(g, n, top, 2^top)
               /\ NextNumberWithFactors2And3(n) = Min({g[f] : f \in 0..top})
  BY <1>1
<1> QED
  BY <1>2, LeastTestedIsLeast

(* Both kinds of Fourier transform are at least twice as long as a row.     *)
LEMMA TransformsAreLong ==
  ASSUME NEW width \in Nat \ {0}, width <= 32768
  PROVE  /\ FilterLength("fftw", width) \in Nat
         /\ FilterLength("fftw", width) >= 2 * width
         /\ \E half \in Nat : FilterLength("vdsp", width) = 2 * half /\ half >= width
<1>1. PICK n \in Nat \ {0} : n = 2 * width
  OBVIOUS
<1>2. Reached(n)
  BY <1>1 DEF Reached
<1>3. FilterLength("fftw", width) = NextNumberWithFactors2And3(n)
  BY <1>1 DEF FilterLength
<1>8. /\ FilterLength("fftw", width) \in Nat
      /\ FilterLength("fftw", width) >= n
  BY <1>2, <1>3, LengthIsLeast
<1>9. \E half \in Nat : FilterLength("vdsp", width) = 2 * half /\ half >= width
  <2>1. NextPowerOfTwo(width) \in Exponents /\ 2^NextPowerOfTwo(width) >= width
    BY NextPowerSuffices
  <2>2. /\ 2^NextPowerOfTwo(width) \in Nat
        /\ 2^(NextPowerOfTwo(width) + 1) = 2 * 2^NextPowerOfTwo(width)
    BY <2>1, PowersAreNatural
  <2> QED
    BY <2>1, <2>2 DEF FilterLength
<1> QED
  BY <1>1, <1>8, <1>9

-----------------------------------------------------------------------------
(* The steps that a worker takes, by their numbers                          *)

Names == {"allocate", "plan forward", "plan backward", "make ramp", "plan ramp",
          "transform", "destroy ramp", "set length", "transfer", "store",
          "refuse smoothing", "destroy forward", "destroy backward", "free",
          "filter"}

LEMMA AllNames ==
  /\ "allocate" \in Names /\ "plan forward" \in Names /\ "plan backward" \in Names
  /\ "make ramp" \in Names /\ "plan ramp" \in Names /\ "transform" \in Names
  /\ "destroy ramp" \in Names /\ "set length" \in Names /\ "transfer" \in Names
  /\ "store" \in Names /\ "refuse smoothing" \in Names
  /\ "destroy forward" \in Names /\ "destroy backward" \in Names
  /\ "free" \in Names /\ "filter" \in Names
BY DEF Names

LEMMA FFTWStepsAre ==
  ASSUME setup.smoothing \in BOOLEAN
  PROVE
  /\ FFTWSteps \in Seq(Names)
  /\ FFTWSteps[1] = "allocate" /\ FFTWSteps[2] = "plan forward"
  /\ FFTWSteps[3] = "plan backward" /\ FFTWSteps[4] = "allocate"
  /\ FFTWSteps[5] = "make ramp" /\ FFTWSteps[6] = "plan ramp"
  /\ FFTWSteps[7] = "transform" /\ FFTWSteps[8] = "destroy ramp"
  /\ setup.smoothing => Len(FFTWSteps) = 11 /\ FFTWSteps[9] = "set length"
                          /\ FFTWSteps[10] = "transfer" /\ FFTWSteps[11] = "store"
  /\ ~setup.smoothing => Len(FFTWSteps) = 9 /\ FFTWSteps[9] = "store"
<1>1. PICK a \in Names, b \in Names, c \in Names, e \in Names, f \in Names,
             g \in Names, h \in Names, x \in Names, y \in Names, z \in Names :
        /\ a = "allocate" /\ b = "plan forward" /\ c = "plan backward"
        /\ e = "make ramp" /\ f = "plan ramp" /\ g = "transform"
        /\ h = "destroy ramp" /\ x = "set length" /\ y = "transfer" /\ z = "store"
  BY AllNames
<1>2. /\ setup.smoothing => Smoothing = <<x, y>>
      /\ ~setup.smoothing => Smoothing = <<>>
  BY <1>1 DEF Smoothing
<1>3. FFTWSteps = <<a, b, c, a, e, f, g, h>> \o Smoothing \o <<z>>
  BY <1>1 DEF FFTWSteps
<1>4. CASE setup.smoothing
  <2>1. FFTWSteps = <<a, b, c, a, e, f, g, h>> \o <<x, y>> \o <<z>>
    BY <1>2, <1>3, <1>4
  <2>2. FFTWSteps \in Seq(Names)
    BY <2>1
  <2>3. /\ FFTWSteps[1] = a /\ FFTWSteps[2] = b /\ FFTWSteps[3] = c
        /\ FFTWSteps[4] = a /\ FFTWSteps[5] = e /\ FFTWSteps[6] = f
        /\ FFTWSteps[7] = g /\ FFTWSteps[8] = h
    BY <2>1
  <2>4. Len(FFTWSteps) = 11 /\ FFTWSteps[9] = x /\ FFTWSteps[10] = y /\ FFTWSteps[11] = z
    BY <2>1
  <2> QED
    BY <1>1, <1>4, <2>2, <2>3, <2>4
<1>5. CASE ~setup.smoothing
  <2>1. FFTWSteps = <<a, b, c, a, e, f, g, h>> \o <<>> \o <<z>>
    BY <1>2, <1>3, <1>5
  <2>2. FFTWSteps \in Seq(Names)
    BY <2>1
  <2>3. /\ FFTWSteps[1] = a /\ FFTWSteps[2] = b /\ FFTWSteps[3] = c
        /\ FFTWSteps[4] = a /\ FFTWSteps[5] = e /\ FFTWSteps[6] = f
        /\ FFTWSteps[7] = g /\ FFTWSteps[8] = h
    BY <2>1
  <2>4. Len(FFTWSteps) = 9 /\ FFTWSteps[9] = z
    BY <2>1
  <2> QED
    BY <1>1, <1>5, <2>2, <2>3, <2>4
<1> QED
  BY <1>4, <1>5

LEMMA VDSPStepsAre ==
  ASSUME setup.smoothing \in BOOLEAN
  PROVE
  /\ VDSPSteps \in Seq(Names)
  /\ VDSPSteps[1] = "allocate" /\ VDSPSteps[2] = "make ramp" /\ VDSPSteps[3] = "transform"
  /\ setup.smoothing => Len(VDSPSteps) = 6 /\ VDSPSteps[4] = "set length"
                          /\ VDSPSteps[5] = "transfer" /\ VDSPSteps[6] = "store"
  /\ ~setup.smoothing => Len(VDSPSteps) = 4 /\ VDSPSteps[4] = "store"
<1>1. PICK a \in Names, e \in Names, g \in Names, x \in Names, y \in Names, z \in Names :
        /\ a = "allocate" /\ e = "make ramp" /\ g = "transform"
        /\ x = "set length" /\ y = "transfer" /\ z = "store"
  BY AllNames
<1>2. /\ setup.smoothing => Smoothing = <<x, y>>
      /\ ~setup.smoothing => Smoothing = <<>>
  BY <1>1 DEF Smoothing
<1>3. VDSPSteps = <<a, e, g>> \o Smoothing \o <<z>>
  BY <1>1 DEF VDSPSteps
<1>4. CASE setup.smoothing
  <2>1. VDSPSteps = <<a, e, g>> \o <<x, y>> \o <<z>>
    BY <1>2, <1>3, <1>4
  <2>2. VDSPSteps \in Seq(Names)
    BY <2>1
  <2>3. /\ Len(VDSPSteps) = 6
        /\ VDSPSteps[1] = a /\ VDSPSteps[2] = e /\ VDSPSteps[3] = g
        /\ VDSPSteps[4] = x /\ VDSPSteps[5] = y /\ VDSPSteps[6] = z
    BY <2>1
  <2> QED
    BY <1>1, <1>4, <2>2, <2>3
<1>5. CASE ~setup.smoothing
  <2>1. VDSPSteps = <<a, e, g>> \o <<>> \o <<z>>
    BY <1>2, <1>3, <1>5
  <2>2. VDSPSteps \in Seq(Names)
    BY <2>1
  <2>3. /\ Len(VDSPSteps) = 4
        /\ VDSPSteps[1] = a /\ VDSPSteps[2] = e /\ VDSPSteps[3] = g /\ VDSPSteps[4] = z
    BY <2>1
  <2> QED
    BY <1>1, <1>5, <2>2, <2>3
<1> QED
  BY <1>4, <1>5

LEMMA ConvolutionStepsAre ==
  /\ ConvolutionSteps \in Seq(Names) /\ Len(ConvolutionSteps) = 4
  /\ ConvolutionSteps[1] = "refuse smoothing" /\ ConvolutionSteps[2] = "allocate"
  /\ ConvolutionSteps[3] = "make ramp" /\ ConvolutionSteps[4] = "store"
<1>1. PICK a \in Names, b \in Names, c \in Names, z \in Names :
        a = "refuse smoothing" /\ b = "allocate" /\ c = "make ramp" /\ z = "store"
  BY AllNames
<1>2. ConvolutionSteps = <<a, b, c, z>>
  BY <1>1 DEF ConvolutionSteps
<1>3. ConvolutionSteps \in Seq(Names)
  BY <1>2
<1>4. /\ Len(ConvolutionSteps) = 4
      /\ ConvolutionSteps[1] = a /\ ConvolutionSteps[2] = b
      /\ ConvolutionSteps[3] = c /\ ConvolutionSteps[4] = z
  BY <1>2
<1> QED
  BY <1>1, <1>3, <1>4

LEMMA DestroyStepsAre ==
  /\ DestroySteps \in Seq(Names)
  /\ setup.module = "fftw" =>
       /\ Len(DestroySteps) = 3 /\ DestroySteps[1] = "destroy forward"
       /\ DestroySteps[2] = "destroy backward" /\ DestroySteps[3] = "free"
  /\ setup.module # "fftw" => Len(DestroySteps) = 1 /\ DestroySteps[1] = "free"
<1>1. PICK a \in Names, b \in Names, c \in Names :
        a = "destroy forward" /\ b = "destroy backward" /\ c = "free"
  BY AllNames
<1>2. CASE setup.module = "fftw"
  <2>1. DestroySteps = <<a, b, c>>
    BY <1>1, <1>2 DEF DestroySteps
  <2>2. DestroySteps \in Seq(Names)
    BY <2>1
  <2>3. /\ Len(DestroySteps) = 3 /\ DestroySteps[1] = a
        /\ DestroySteps[2] = b /\ DestroySteps[3] = c
    BY <2>1
  <2> QED
    BY <1>1, <1>2, <2>2, <2>3
<1>3. CASE setup.module # "fftw"
  <2>1. DestroySteps = <<c>>
    BY <1>1, <1>3 DEF DestroySteps
  <2>2. DestroySteps \in Seq(Names)
    BY <2>1
  <2>3. Len(DestroySteps) = 1 /\ DestroySteps[1] = c
    BY <2>1
  <2> QED
    BY <1>1, <1>3, <2>2, <2>3
<1> QED
  BY <1>2, <1>3

LEMMA PlannerCallsAre ==
  /\ DOMAIN Creates = {"plan forward", "plan backward", "plan ramp"}
  /\ DOMAIN Destroys = {"destroy forward", "destroy backward", "destroy ramp"}
  /\ Creates["plan forward"] = "forward" /\ Creates["plan backward"] = "backward"
  /\ Creates["plan ramp"] = "ramp"
  /\ Destroys["destroy forward"] = "forward" /\ Destroys["destroy backward"] = "backward"
  /\ Destroys["destroy ramp"] = "ramp"
BY DEF Creates, Destroys

-----------------------------------------------------------------------------
(* What has been done when a step comes                                     *)

PlanNames == {"forward", "backward", "ramp"}

PlansOf(w) == {p \in PlanNames : <<w, p>> \in plans}

FinalPlans == IF setup.module = "fftw" THEN {"forward", "backward"} ELSE {}

FinalRamp ==
  IF setup.module = "convolution" THEN "kernel"
  ELSE IF setup.smoothing THEN "smoothed" ELSE "spectrum"

(* The plans at the k-th step of Initialize, and at that of the destructor. *)
PlansBefore(k) ==
  IF setup.module = "fftw"
    THEN {p \in PlanNames : \/ p = "forward" /\ k > 2
                            \/ p = "backward" /\ k > 3
                            \/ p = "ramp" /\ (k = 7 \/ k = 8)}
    ELSE {}

PlansLeft(k) ==
  IF setup.module = "fftw"
    THEN {p \in PlanNames : \/ p = "forward" /\ k = 1
                            \/ p = "backward" /\ k < 3}
    ELSE {}

(* The ramp filter before a step, and after it.                             *)
RampBefore(s) ==
  IF s \in {"refuse smoothing", "allocate", "plan forward", "plan backward", "make ramp"}
    THEN "none"
  ELSE IF s \in {"plan ramp", "transform"} THEN "kernel"
  ELSE IF s \in {"destroy ramp", "set length", "transfer"} THEN "spectrum"
  ELSE FinalRamp

RampAfter(s) ==
  CASE s = "make ramp" -> "kernel"
    [] s = "transform" -> "spectrum"
    [] s = "transfer" -> "smoothed"
    [] OTHER -> RampBefore(s)

PlansAfter(s, before) ==
  IF s \in DOMAIN Creates THEN before \cup {Creates[s]}
  ELSE IF s \in DOMAIN Destroys THEN before \ {Destroys[s]}
  ELSE before

(* Each step of Initialize leaves what the next one takes.                  *)
StepsFit(s, k) ==
  /\ s[k] \in Names \ {"filter", "free", "destroy forward", "destroy backward"}
  /\ s[k] = "store" <=> k = Len(s)
  /\ s[k] \in DOMAIN Destroys => Destroys[s[k]] \in PlansBefore(k)
  /\ k < Len(s) =>
       /\ RampBefore(s[k + 1]) = RampAfter(s[k])
       /\ PlansBefore(k + 1) = PlansAfter(s[k], PlansBefore(k))
       /\ s[k + 1] = "transfer" => s[k] = "set length"
  /\ k = Len(s) => PlansBefore(k) = FinalPlans
  /\ s[k] = "refuse smoothing" => setup.module = "convolution"

LEMMA RampsAre ==
  /\ RampBefore("refuse smoothing") = "none" /\ RampAfter("refuse smoothing") = "none"
  /\ RampBefore("allocate") = "none" /\ RampAfter("allocate") = "none"
  /\ RampBefore("plan forward") = "none" /\ RampAfter("plan forward") = "none"
  /\ RampBefore("plan backward") = "none" /\ RampAfter("plan backward") = "none"
  /\ RampBefore("make ramp") = "none" /\ RampAfter("make ramp") = "kernel"
  /\ RampBefore("plan ramp") = "kernel" /\ RampAfter("plan ramp") = "kernel"
  /\ RampBefore("transform") = "kernel" /\ RampAfter("transform") = "spectrum"
  /\ RampBefore("destroy ramp") = "spectrum" /\ RampAfter("destroy ramp") = "spectrum"
  /\ RampBefore("set length") = "spectrum" /\ RampAfter("set length") = "spectrum"
  /\ RampBefore("transfer") = "spectrum" /\ RampAfter("transfer") = "smoothed"
  /\ RampBefore("store") = FinalRamp
BY DEF RampBefore, RampAfter

LEMMA PlansAre ==
  ASSUME NEW before
  PROVE  /\ PlansAfter("plan forward", before) = before \cup {"forward"}
         /\ PlansAfter("plan backward", before) = before \cup {"backward"}
         /\ PlansAfter("plan ramp", before) = before \cup {"ramp"}
         /\ PlansAfter("destroy forward", before) = before \ {"forward"}
         /\ PlansAfter("destroy backward", before) = before \ {"backward"}
         /\ PlansAfter("destroy ramp", before) = before \ {"ramp"}
         /\ PlansAfter("allocate", before) = before
         /\ PlansAfter("make ramp", before) = before
         /\ PlansAfter("transform", before) = before
         /\ PlansAfter("set length", before) = before
         /\ PlansAfter("transfer", before) = before
         /\ PlansAfter("refuse smoothing", before) = before
BY PlannerCallsAre DEF PlansAfter

LEMMA FFTWStepsFit ==
  ASSUME setup.module = "fftw", setup.smoothing \in BOOLEAN,
         NEW k \in 1..Len(FFTWSteps)
  PROVE  StepsFit(FFTWSteps, k)
<1>0. /\ FFTWSteps[1] = "allocate" /\ FFTWSteps[2] = "plan forward"
      /\ FFTWSteps[3] = "plan backward" /\ FFTWSteps[4] = "allocate"
      /\ FFTWSteps[5] = "make ramp" /\ FFTWSteps[6] = "plan ramp"
      /\ FFTWSteps[7] = "transform" /\ FFTWSteps[8] = "destroy ramp"
  BY FFTWStepsAre
<1>1. Len(FFTWSteps) \in {9, 11}
  BY FFTWStepsAre
<1>13. \A n \in {9, 11} : /\ 1 < n /\ 2 < n /\ 3 < n /\ 4 < n /\ 5 < n /\ 6 < n /\ 7 < n
                         /\ 1 # n /\ 2 # n /\ 3 # n /\ 4 # n /\ 5 # n /\ 6 # n /\ 7 # n
  OBVIOUS
<1>2. /\ PlansBefore(1) = {} /\ PlansBefore(2) = {} /\ PlansBefore(3) = {"forward"}
      /\ PlansBefore(4) = {"forward", "backward"} /\ PlansBefore(5) = {"forward", "backward"}
      /\ PlansBefore(6) = {"forward", "backward"} /\ PlansBefore(7) = PlanNames
      /\ PlansBefore(8) = PlanNames /\ PlansBefore(9) = {"forward", "backward"}
      /\ PlansBefore(10) = {"forward", "backward"} /\ PlansBefore(11) = {"forward", "backward"}
      /\ FinalPlans = {"forward", "backward"}
      /\ {"forward"} = {} \cup {"forward"}
      /\ {"forward", "backward"} = {"forward"} \cup {"backward"}
      /\ PlanNames = {"forward", "backward"} \cup {"ramp"}
      /\ {"forward", "backward"} = PlanNames \ {"ramp"}
  BY DEF PlansBefore, PlanNames, FinalPlans
<1>3. CASE k = 1
  <2>1. k + 1 = 2 /\ k < Len(FFTWSteps) /\ k # Len(FFTWSteps)
    <3>1. k < Len(FFTWSteps) /\ k # Len(FFTWSteps)
      BY <1>1, <1>13, <1>3
    <3>2. k + 1 = 2
      BY <1>3
    <3> QED
      BY <3>1, <3>2
  <2>2. FFTWSteps[k] = "allocate" /\ FFTWSteps[k + 1] = "plan forward"
    BY <1>0, <1>3, <2>1
  <2>6. PlansBefore(k) = {} /\ PlansBefore(k + 1) = {}
    BY <1>2, <1>3, <2>1
  <2>3. PlansBefore(k + 1) = PlansAfter(FFTWSteps[k], PlansBefore(k))
    BY <1>2, <2>2, <2>6, PlansAre
  <2>4. FFTWSteps[k] \in DOMAIN Destroys => Destroys[FFTWSteps[k]] \in PlansBefore(k)
    BY <1>2, <1>3, <2>2, PlannerCallsAre DEF PlanNames
  <2>5. RampBefore(FFTWSteps[k + 1]) = RampAfter(FFTWSteps[k])
    BY <1>1, <2>2, RampsAre
  <2> QED
    BY <2>1, <2>2, <2>3, <2>4, <2>5, AllNames DEF StepsFit
<1>4. CASE k = 2
  <2>1. k + 1 = 3 /\ k < Len(FFTWSteps) /\ k # Len(FFTWSteps)
    <3>1. k < Len(FFTWSteps) /\ k # Len(FFTWSteps)
      BY <1>1, <1>13, <1>4
    <3>2. k + 1 = 3
      BY <1>4
    <3> QED
      BY <3>1, <3>2
  <2>2. FFTWSteps[k] = "plan forward" /\ FFTWSteps[k + 1] = "plan backward"
    BY <1>0, <1>4, <2>1
  <2>6. PlansBefore(k) = {} /\ PlansBefore(k + 1) = {"forward"}
    BY <1>2, <1>4, <2>1
  <2>3. PlansBefore(k + 1) = PlansAfter(FFTWSteps[k], PlansBefore(k))
    BY <1>2, <2>2, <2>6, PlansAre
  <2>4. FFTWSteps[k] \in DOMAIN Destroys => Destroys[FFTWSteps[k]] \in PlansBefore(k)
    BY <1>2, <1>4, <2>2, PlannerCallsAre DEF PlanNames
  <2>5. RampBefore(FFTWSteps[k + 1]) = RampAfter(FFTWSteps[k])
    BY <1>1, <2>2, RampsAre
  <2> QED
    BY <2>1, <2>2, <2>3, <2>4, <2>5, AllNames DEF StepsFit
<1>5. CASE k = 3
  <2>1. k + 1 = 4 /\ k < Len(FFTWSteps) /\ k # Len(FFTWSteps)
    <3>1. k < Len(FFTWSteps) /\ k # Len(FFTWSteps)
      BY <1>1, <1>13, <1>5
    <3>2. k + 1 = 4
      BY <1>5
    <3> QED
      BY <3>1, <3>2
  <2>2. FFTWSteps[k] = "plan backward" /\ FFTWSteps[k + 1] = "allocate"
    BY <1>0, <1>5, <2>1
  <2>6. PlansBefore(k) = {"forward"} /\ PlansBefore(k + 1) = {"forward", "backward"}
    BY <1>2, <1>5, <2>1
  <2>3. PlansBefore(k + 1) = PlansAfter(FFTWSteps[k], PlansBefore(k))
    BY <1>2, <2>2, <2>6, PlansAre
  <2>4. FFTWSteps[k] \in DOMAIN Destroys => Destroys[FFTWSteps[k]] \in PlansBefore(k)
    BY <1>2, <1>5, <2>2, PlannerCallsAre DEF PlanNames
  <2>5. RampBefore(FFTWSteps[k + 1]) = RampAfter(FFTWSteps[k])
    BY <1>1, <2>2, RampsAre
  <2> QED
    BY <2>1, <2>2, <2>3, <2>4, <2>5, AllNames DEF StepsFit
<1>6. CASE k = 4
  <2>1. k + 1 = 5 /\ k < Len(FFTWSteps) /\ k # Len(FFTWSteps)
    <3>1. k < Len(FFTWSteps) /\ k # Len(FFTWSteps)
      BY <1>1, <1>13, <1>6
    <3>2. k + 1 = 5
      BY <1>6
    <3> QED
      BY <3>1, <3>2
  <2>2. FFTWSteps[k] = "allocate" /\ FFTWSteps[k + 1] = "make ramp"
    BY <1>0, <1>6, <2>1
  <2>6. PlansBefore(k) = {"forward", "backward"} /\ PlansBefore(k + 1) = {"forward", "backward"}
    BY <1>2, <1>6, <2>1
  <2>3. PlansBefore(k + 1) = PlansAfter(FFTWSteps[k], PlansBefore(k))
    BY <1>2, <2>2, <2>6, PlansAre
  <2>4. FFTWSteps[k] \in DOMAIN Destroys => Destroys[FFTWSteps[k]] \in PlansBefore(k)
    BY <1>2, <1>6, <2>2, PlannerCallsAre DEF PlanNames
  <2>5. RampBefore(FFTWSteps[k + 1]) = RampAfter(FFTWSteps[k])
    BY <1>1, <2>2, RampsAre
  <2> QED
    BY <2>1, <2>2, <2>3, <2>4, <2>5, AllNames DEF StepsFit
<1>7. CASE k = 5
  <2>1. k + 1 = 6 /\ k < Len(FFTWSteps) /\ k # Len(FFTWSteps)
    <3>1. k < Len(FFTWSteps) /\ k # Len(FFTWSteps)
      BY <1>1, <1>13, <1>7
    <3>2. k + 1 = 6
      BY <1>7
    <3> QED
      BY <3>1, <3>2
  <2>2. FFTWSteps[k] = "make ramp" /\ FFTWSteps[k + 1] = "plan ramp"
    BY <1>0, <1>7, <2>1
  <2>6. PlansBefore(k) = {"forward", "backward"} /\ PlansBefore(k + 1) = {"forward", "backward"}
    BY <1>2, <1>7, <2>1
  <2>3. PlansBefore(k + 1) = PlansAfter(FFTWSteps[k], PlansBefore(k))
    BY <1>2, <2>2, <2>6, PlansAre
  <2>4. FFTWSteps[k] \in DOMAIN Destroys => Destroys[FFTWSteps[k]] \in PlansBefore(k)
    BY <1>2, <1>7, <2>2, PlannerCallsAre DEF PlanNames
  <2>5. RampBefore(FFTWSteps[k + 1]) = RampAfter(FFTWSteps[k])
    BY <1>1, <2>2, RampsAre
  <2> QED
    BY <2>1, <2>2, <2>3, <2>4, <2>5, AllNames DEF StepsFit
<1>8. CASE k = 6
  <2>1. k + 1 = 7 /\ k < Len(FFTWSteps) /\ k # Len(FFTWSteps)
    <3>1. k < Len(FFTWSteps) /\ k # Len(FFTWSteps)
      BY <1>1, <1>13, <1>8
    <3>2. k + 1 = 7
      BY <1>8
    <3> QED
      BY <3>1, <3>2
  <2>2. FFTWSteps[k] = "plan ramp" /\ FFTWSteps[k + 1] = "transform"
    BY <1>0, <1>8, <2>1
  <2>6. PlansBefore(k) = {"forward", "backward"} /\ PlansBefore(k + 1) = PlanNames
    BY <1>2, <1>8, <2>1
  <2>3. PlansBefore(k + 1) = PlansAfter(FFTWSteps[k], PlansBefore(k))
    BY <1>2, <2>2, <2>6, PlansAre
  <2>4. FFTWSteps[k] \in DOMAIN Destroys => Destroys[FFTWSteps[k]] \in PlansBefore(k)
    BY <1>2, <1>8, <2>2, PlannerCallsAre DEF PlanNames
  <2>5. RampBefore(FFTWSteps[k + 1]) = RampAfter(FFTWSteps[k])
    BY <1>1, <2>2, RampsAre
  <2> QED
    BY <2>1, <2>2, <2>3, <2>4, <2>5, AllNames DEF StepsFit
<1>9. CASE k = 7
  <2>1. k + 1 = 8 /\ k < Len(FFTWSteps) /\ k # Len(FFTWSteps)
    <3>1. k < Len(FFTWSteps) /\ k # Len(FFTWSteps)
      BY <1>1, <1>13, <1>9
    <3>2. k + 1 = 8
      BY <1>9
    <3> QED
      BY <3>1, <3>2
  <2>2. FFTWSteps[k] = "transform" /\ FFTWSteps[k + 1] = "destroy ramp"
    BY <1>0, <1>9, <2>1
  <2>6. PlansBefore(k) = PlanNames /\ PlansBefore(k + 1) = PlanNames
    BY <1>2, <1>9, <2>1
  <2>3. PlansBefore(k + 1) = PlansAfter(FFTWSteps[k], PlansBefore(k))
    BY <1>2, <2>2, <2>6, PlansAre
  <2>4. FFTWSteps[k] \in DOMAIN Destroys => Destroys[FFTWSteps[k]] \in PlansBefore(k)
    BY <1>2, <1>9, <2>2, PlannerCallsAre DEF PlanNames
  <2>5. RampBefore(FFTWSteps[k + 1]) = RampAfter(FFTWSteps[k])
    BY <1>1, <2>2, RampsAre
  <2> QED
    BY <2>1, <2>2, <2>3, <2>4, <2>5, AllNames DEF StepsFit
<1>10. CASE setup.smoothing /\ k > 7
  <2>0. FFTWSteps[9] = "set length" /\ FFTWSteps[10] = "transfer" /\ FFTWSteps[11] = "store"
    BY <1>10, FFTWStepsAre
  <2>1. Len(FFTWSteps) = 11 /\ (k = 8 \/ k = 9 \/ k = 10 \/ k = 11)
    <3>1. Len(FFTWSteps) = 11
      BY <1>10, FFTWStepsAre
    <3> QED
      BY <1>10, <3>1
  <2>2. FinalRamp = "smoothed"
    BY <1>10 DEF FinalRamp
  <2>3. CASE k = 8
    <3>1. k + 1 = 9 /\ k < Len(FFTWSteps) /\ k # Len(FFTWSteps)
      BY <2>1, <2>3
    <3>2. FFTWSteps[k] = "destroy ramp" /\ FFTWSteps[k + 1] = "set length"
      BY <1>0, <2>0, <2>3, <3>1
    <3>6. PlansBefore(k) = PlanNames /\ PlansBefore(k + 1) = {"forward", "backward"}
      BY <1>2, <2>3, <3>1
    <3>3. PlansBefore(k + 1) = PlansAfter(FFTWSteps[k], PlansBefore(k))
      BY <1>2, <3>2, <3>6, PlansAre
    <3>4. FFTWSteps[k] \in DOMAIN Destroys => Destroys[FFTWSteps[k]] \in PlansBefore(k)
      BY <1>2, <2>3, <3>2, PlannerCallsAre DEF PlanNames
    <3>5. RampBefore(FFTWSteps[k + 1]) = RampAfter(FFTWSteps[k])
      BY <1>1, <2>2, <3>2, RampsAre
    <3> QED
      BY <3>1, <3>2, <3>3, <3>4, <3>5, AllNames DEF StepsFit
  <2>4. CASE k = 9
    <3>1. k + 1 = 10 /\ k < Len(FFTWSteps) /\ k # Len(FFTWSteps)
      BY <2>1, <2>4
    <3>2. FFTWSteps[k] = "set length" /\ FFTWSteps[k + 1] = "transfer"
      BY <1>0, <2>0, <2>4, <3>1
    <3>6. PlansBefore(k) = {"forward", "backward"} /\ PlansBefore(k + 1) = {"forward", "backward"}
      BY <1>2, <2>4, <3>1
    <3>3. PlansBefore(k + 1) = PlansAfter(FFTWSteps[k], PlansBefore(k))
      BY <1>2, <3>2, <3>6, PlansAre
    <3>4. FFTWSteps[k] \in DOMAIN Destroys => Destroys[FFTWSteps[k]] \in PlansBefore(k)
      BY <1>2, <2>4, <3>2, PlannerCallsAre DEF PlanNames
    <3>5. RampBefore(FFTWSteps[k + 1]) = RampAfter(FFTWSteps[k])
      BY <1>1, <2>2, <3>2, RampsAre
    <3> QED
      BY <3>1, <3>2, <3>3, <3>4, <3>5, AllNames DEF StepsFit
  <2>5. CASE k = 10
    <3>1. k + 1 = 11 /\ k < Len(FFTWSteps) /\ k # Len(FFTWSteps)
      BY <2>1, <2>5
    <3>2. FFTWSteps[k] = "transfer" /\ FFTWSteps[k + 1] = "store"
      BY <1>0, <2>0, <2>5, <3>1
    <3>6. PlansBefore(k) = {"forward", "backward"} /\ PlansBefore(k + 1) = {"forward", "backward"}
      BY <1>2, <2>5, <3>1
    <3>3. PlansBefore(k + 1) = PlansAfter(FFTWSteps[k], PlansBefore(k))
      BY <1>2, <3>2, <3>6, PlansAre
    <3>4. FFTWSteps[k] \in DOMAIN Destroys => Destroys[FFTWSteps[k]] \in PlansBefore(k)
      BY <1>2, <2>5, <3>2, PlannerCallsAre DEF PlanNames
    <3>5. RampBefore(FFTWSteps[k + 1]) = RampAfter(FFTWSteps[k])
      BY <1>1, <2>2, <3>2, RampsAre
    <3> QED
      BY <3>1, <3>2, <3>3, <3>4, <3>5, AllNames DEF StepsFit
  <2>6. CASE k = 11
    <3>1. FFTWSteps[k] = "store"
      BY <1>0, <2>0, <2>6
    <3>3. k = Len(FFTWSteps) /\ ~(k < Len(FFTWSteps))
      BY <2>1, <2>6
    <3>2. PlansBefore(k) = FinalPlans /\ FFTWSteps[k] \notin DOMAIN Destroys
      BY <1>2, <2>6, <3>1, PlannerCallsAre
    <3> QED
      BY <3>1, <3>2, <3>3, AllNames DEF StepsFit
  <2> QED
    BY <2>1, <2>3, <2>4, <2>5, <2>6
<1>11. CASE ~setup.smoothing /\ k > 7
  <2>0. FFTWSteps[9] = "store"
    BY <1>11, FFTWStepsAre
  <2>1. Len(FFTWSteps) = 9 /\ (k = 8 \/ k = 9)
    <3>1. Len(FFTWSteps) = 9
      BY <1>11, FFTWStepsAre
    <3> QED
      BY <1>11, <3>1
  <2>2. FinalRamp = "spectrum"
    BY <1>11 DEF FinalRamp
  <2>3. CASE k = 8
    <3>1. k + 1 = 9 /\ k < Len(FFTWSteps) /\ k # Len(FFTWSteps)
      BY <2>1, <2>3
    <3>2. FFTWSteps[k] = "destroy ramp" /\ FFTWSteps[k + 1] = "store"
      BY <1>0, <2>0, <2>3, <3>1
    <3>6. PlansBefore(k) = PlanNames /\ PlansBefore(k + 1) = {"forward", "backward"}
      BY <1>2, <2>3, <3>1
    <3>3. PlansBefore(k + 1) = PlansAfter(FFTWSteps[k], PlansBefore(k))
      BY <1>2, <3>2, <3>6, PlansAre
    <3>4. FFTWSteps[k] \in DOMAIN Destroys => Destroys[FFTWSteps[k]] \in PlansBefore(k)
      BY <1>2, <2>3, <3>2, PlannerCallsAre DEF PlanNames
    <3>5. RampBefore(FFTWSteps[k + 1]) = RampAfter(FFTWSteps[k])
      BY <1>1, <2>2, <3>2, RampsAre
    <3> QED
      BY <3>1, <3>2, <3>3, <3>4, <3>5, AllNames DEF StepsFit
  <2>4. CASE k = 9
    <3>1. FFTWSteps[k] = "store"
      BY <1>0, <2>0, <2>4
    <3>3. k = Len(FFTWSteps) /\ ~(k < Len(FFTWSteps))
      BY <2>1, <2>4
    <3>2. PlansBefore(k) = FinalPlans /\ FFTWSteps[k] \notin DOMAIN Destroys
      BY <1>2, <2>4, <3>1, PlannerCallsAre
    <3> QED
      BY <3>1, <3>2, <3>3, AllNames DEF StepsFit
  <2> QED
    BY <2>1, <2>3, <2>4
<1>12. k > 7 \/ k = 1 \/ k = 2 \/ k = 3 \/ k = 4 \/ k = 5 \/ k = 6 \/ k = 7
  BY <1>1
<1> QED
  BY <1>3, <1>4, <1>5, <1>6, <1>7, <1>8, <1>9, <1>10, <1>11, <1>12

LEMMA VDSPStepsFit ==
  ASSUME setup.module = "vdsp", setup.smoothing \in BOOLEAN,
         NEW k \in 1..Len(VDSPSteps)
  PROVE  StepsFit(VDSPSteps, k)
<1>0. VDSPSteps[1] = "allocate" /\ VDSPSteps[2] = "make ramp" /\ VDSPSteps[3] = "transform"
  BY VDSPStepsAre
<1>1. Len(VDSPSteps) \in {4, 6}
  BY VDSPStepsAre
<1>2. FinalPlans = {} /\ \A i : PlansBefore(i) = {}
  BY DEF PlansBefore, FinalPlans
<1>3. CASE k = 1
  <2>1. k + 1 = 2 /\ k < Len(VDSPSteps) /\ k # Len(VDSPSteps)
    BY <1>1, <1>3
  <2>2. VDSPSteps[k] = "allocate" /\ VDSPSteps[k + 1] = "make ramp"
    BY <1>0, <1>3, <2>1
  <2>3. PlansBefore(k + 1) = PlansAfter(VDSPSteps[k], PlansBefore(k))
    BY <1>2, <2>2, PlansAre
  <2>4. VDSPSteps[k] \notin DOMAIN Destroys
    BY <2>2, PlannerCallsAre
  <2>5. RampBefore(VDSPSteps[k + 1]) = RampAfter(VDSPSteps[k])
    BY <1>1, <2>2, RampsAre
  <2> QED
    BY <2>1, <2>2, <2>3, <2>4, <2>5, AllNames DEF StepsFit
<1>4. CASE k = 2
  <2>1. k + 1 = 3 /\ k < Len(VDSPSteps) /\ k # Len(VDSPSteps)
    BY <1>1, <1>4
  <2>2. VDSPSteps[k] = "make ramp" /\ VDSPSteps[k + 1] = "transform"
    BY <1>0, <1>4, <2>1
  <2>3. PlansBefore(k + 1) = PlansAfter(VDSPSteps[k], PlansBefore(k))
    BY <1>2, <2>2, PlansAre
  <2>4. VDSPSteps[k] \notin DOMAIN Destroys
    BY <2>2, PlannerCallsAre
  <2>5. RampBefore(VDSPSteps[k + 1]) = RampAfter(VDSPSteps[k])
    BY <1>1, <2>2, RampsAre
  <2> QED
    BY <2>1, <2>2, <2>3, <2>4, <2>5, AllNames DEF StepsFit
<1>5. CASE setup.smoothing /\ k > 2
  <2>0. VDSPSteps[4] = "set length" /\ VDSPSteps[5] = "transfer" /\ VDSPSteps[6] = "store"
    BY <1>5, VDSPStepsAre
  <2>1. Len(VDSPSteps) = 6 /\ (k = 3 \/ k = 4 \/ k = 5 \/ k = 6)
    <3>1. Len(VDSPSteps) = 6
      BY <1>5, VDSPStepsAre
    <3> QED
      BY <1>5, <3>1
  <2>2. FinalRamp = "smoothed"
    BY <1>5 DEF FinalRamp
  <2>3. CASE k = 3
    <3>1. k + 1 = 4 /\ k < Len(VDSPSteps) /\ k # Len(VDSPSteps)
      BY <2>1, <2>3
    <3>2. VDSPSteps[k] = "transform" /\ VDSPSteps[k + 1] = "set length"
      BY <1>0, <2>0, <2>3, <3>1
    <3>3. PlansBefore(k + 1) = PlansAfter(VDSPSteps[k], PlansBefore(k))
      BY <1>2, <3>2, PlansAre
    <3>4. VDSPSteps[k] \notin DOMAIN Destroys
      BY <3>2, PlannerCallsAre
    <3>5. RampBefore(VDSPSteps[k + 1]) = RampAfter(VDSPSteps[k])
      BY <1>1, <2>2, <3>2, RampsAre
    <3> QED
      BY <3>1, <3>2, <3>3, <3>4, <3>5, AllNames DEF StepsFit
  <2>4. CASE k = 4
    <3>1. k + 1 = 5 /\ k < Len(VDSPSteps) /\ k # Len(VDSPSteps)
      BY <2>1, <2>4
    <3>2. VDSPSteps[k] = "set length" /\ VDSPSteps[k + 1] = "transfer"
      BY <1>0, <2>0, <2>4, <3>1
    <3>3. PlansBefore(k + 1) = PlansAfter(VDSPSteps[k], PlansBefore(k))
      BY <1>2, <3>2, PlansAre
    <3>4. VDSPSteps[k] \notin DOMAIN Destroys
      BY <3>2, PlannerCallsAre
    <3>5. RampBefore(VDSPSteps[k + 1]) = RampAfter(VDSPSteps[k])
      BY <1>1, <2>2, <3>2, RampsAre
    <3> QED
      BY <3>1, <3>2, <3>3, <3>4, <3>5, AllNames DEF StepsFit
  <2>5. CASE k = 5
    <3>1. k + 1 = 6 /\ k < Len(VDSPSteps) /\ k # Len(VDSPSteps)
      BY <2>1, <2>5
    <3>2. VDSPSteps[k] = "transfer" /\ VDSPSteps[k + 1] = "store"
      BY <1>0, <2>0, <2>5, <3>1
    <3>3. PlansBefore(k + 1) = PlansAfter(VDSPSteps[k], PlansBefore(k))
      BY <1>2, <3>2, PlansAre
    <3>4. VDSPSteps[k] \notin DOMAIN Destroys
      BY <3>2, PlannerCallsAre
    <3>5. RampBefore(VDSPSteps[k + 1]) = RampAfter(VDSPSteps[k])
      BY <1>1, <2>2, <3>2, RampsAre
    <3> QED
      BY <3>1, <3>2, <3>3, <3>4, <3>5, AllNames DEF StepsFit
  <2>6. CASE k = 6
    <3>1. VDSPSteps[k] = "store"
      BY <1>0, <2>0, <2>6
    <3>3. k = Len(VDSPSteps) /\ ~(k < Len(VDSPSteps))
      BY <2>1, <2>6
    <3>2. PlansBefore(k) = FinalPlans /\ VDSPSteps[k] \notin DOMAIN Destroys
      BY <1>2, <2>6, <3>1, PlannerCallsAre
    <3> QED
      BY <3>1, <3>2, <3>3, AllNames DEF StepsFit
  <2> QED
    BY <2>1, <2>3, <2>4, <2>5, <2>6
<1>6. CASE ~setup.smoothing /\ k > 2
  <2>0. VDSPSteps[4] = "store"
    BY <1>6, VDSPStepsAre
  <2>1. Len(VDSPSteps) = 4 /\ (k = 3 \/ k = 4)
    <3>1. Len(VDSPSteps) = 4
      BY <1>6, VDSPStepsAre
    <3> QED
      BY <1>6, <3>1
  <2>2. FinalRamp = "spectrum"
    BY <1>6 DEF FinalRamp
  <2>3. CASE k = 3
    <3>1. k + 1 = 4 /\ k < Len(VDSPSteps) /\ k # Len(VDSPSteps)
      BY <2>1, <2>3
    <3>2. VDSPSteps[k] = "transform" /\ VDSPSteps[k + 1] = "store"
      BY <1>0, <2>0, <2>3, <3>1
    <3>3. PlansBefore(k + 1) = PlansAfter(VDSPSteps[k], PlansBefore(k))
      BY <1>2, <3>2, PlansAre
    <3>4. VDSPSteps[k] \notin DOMAIN Destroys
      BY <3>2, PlannerCallsAre
    <3>5. RampBefore(VDSPSteps[k + 1]) = RampAfter(VDSPSteps[k])
      BY <1>1, <2>2, <3>2, RampsAre
    <3> QED
      BY <3>1, <3>2, <3>3, <3>4, <3>5, AllNames DEF StepsFit
  <2>4. CASE k = 4
    <3>1. VDSPSteps[k] = "store"
      BY <1>0, <2>0, <2>4
    <3>3. k = Len(VDSPSteps) /\ ~(k < Len(VDSPSteps))
      BY <2>1, <2>4
    <3>2. PlansBefore(k) = FinalPlans /\ VDSPSteps[k] \notin DOMAIN Destroys
      BY <1>2, <2>4, <3>1, PlannerCallsAre
    <3> QED
      BY <3>1, <3>2, <3>3, AllNames DEF StepsFit
  <2> QED
    BY <2>1, <2>3, <2>4
<1>7. k > 2 \/ k = 1 \/ k = 2
  BY <1>1
<1> QED
  BY <1>3, <1>4, <1>5, <1>6, <1>7

LEMMA ConvolutionStepsFit ==
  ASSUME setup.module = "convolution", NEW k \in 1..Len(ConvolutionSteps)
  PROVE  StepsFit(ConvolutionSteps, k)
<1>0. /\ ConvolutionSteps[1] = "refuse smoothing" /\ ConvolutionSteps[2] = "allocate"
      /\ ConvolutionSteps[3] = "make ramp" /\ ConvolutionSteps[4] = "store"
  BY ConvolutionStepsAre
<1>1. Len(ConvolutionSteps) = 4 /\ FinalRamp = "kernel"
  BY ConvolutionStepsAre DEF FinalRamp
<1>2. FinalPlans = {} /\ \A i : PlansBefore(i) = {}
  BY DEF PlansBefore, FinalPlans
<1>3. CASE k = 1
  <2>1. k + 1 = 2 /\ k < Len(ConvolutionSteps) /\ k # Len(ConvolutionSteps)
    BY <1>1, <1>3
  <2>2. ConvolutionSteps[k] = "refuse smoothing" /\ ConvolutionSteps[k + 1] = "allocate"
    BY <1>0, <1>3, <2>1
  <2>3. PlansBefore(k + 1) = PlansAfter(ConvolutionSteps[k], PlansBefore(k))
    BY <1>2, <2>2, PlansAre
  <2>4. ConvolutionSteps[k] \notin DOMAIN Destroys
    BY <2>2, PlannerCallsAre
  <2>5. RampBefore(ConvolutionSteps[k + 1]) = RampAfter(ConvolutionSteps[k])
    BY <1>1, <2>2, RampsAre
  <2> QED
    BY <2>1, <2>2, <2>3, <2>4, <2>5, AllNames DEF StepsFit
<1>4. CASE k = 2
  <2>1. k + 1 = 3 /\ k < Len(ConvolutionSteps) /\ k # Len(ConvolutionSteps)
    BY <1>1, <1>4
  <2>2. ConvolutionSteps[k] = "allocate" /\ ConvolutionSteps[k + 1] = "make ramp"
    BY <1>0, <1>4, <2>1
  <2>3. PlansBefore(k + 1) = PlansAfter(ConvolutionSteps[k], PlansBefore(k))
    BY <1>2, <2>2, PlansAre
  <2>4. ConvolutionSteps[k] \notin DOMAIN Destroys
    BY <2>2, PlannerCallsAre
  <2>5. RampBefore(ConvolutionSteps[k + 1]) = RampAfter(ConvolutionSteps[k])
    BY <1>1, <2>2, RampsAre
  <2> QED
    BY <2>1, <2>2, <2>3, <2>4, <2>5, AllNames DEF StepsFit
<1>5. CASE k = 3
  <2>1. k + 1 = 4 /\ k < Len(ConvolutionSteps) /\ k # Len(ConvolutionSteps)
    BY <1>1, <1>5
  <2>2. ConvolutionSteps[k] = "make ramp" /\ ConvolutionSteps[k + 1] = "store"
    BY <1>0, <1>5, <2>1
  <2>3. PlansBefore(k + 1) = PlansAfter(ConvolutionSteps[k], PlansBefore(k))
    BY <1>2, <2>2, PlansAre
  <2>4. ConvolutionSteps[k] \notin DOMAIN Destroys
    BY <2>2, PlannerCallsAre
  <2>5. RampBefore(ConvolutionSteps[k + 1]) = RampAfter(ConvolutionSteps[k])
    BY <1>1, <2>2, RampsAre
  <2> QED
    BY <2>1, <2>2, <2>3, <2>4, <2>5, AllNames DEF StepsFit
<1>6. CASE k = 4
  <2>1. ConvolutionSteps[k] = "store"
    BY <1>0, <1>6
  <2>3. k = Len(ConvolutionSteps) /\ ~(k < Len(ConvolutionSteps))
    BY <1>1, <1>6
  <2>2. PlansBefore(k) = FinalPlans /\ ConvolutionSteps[k] \notin DOMAIN Destroys
    BY <1>2, <1>6, <2>1, PlannerCallsAre
  <2> QED
    BY <2>1, <2>2, <2>3, AllNames DEF StepsFit
<1>7. k = 1 \/ k = 2 \/ k = 3 \/ k = 4
  BY <1>1
<1> QED
  BY <1>3, <1>4, <1>5, <1>6, <1>7

-----------------------------------------------------------------------------
(* The invariant                                                            *)

Rest(s, k) == SubSeq(s, k, Len(s))

Filterers == {"new", "initializing", "ready", "failed", "abandoned", "deleted"}

Ramps == {"none", "kernel", "spectrum", "smoothed", "garbage"}

Typed ==
  /\ setup \in Setups
  /\ calls \in [Workers -> Seq(Names)]
  /\ filterer \in [Workers -> Filterers]
  /\ ramp \in [Workers -> Ramps]
  /\ DOMAIN row = Workers

(* PaddedRow, whatever was in the buffer before.                            *)
PaddedFrom(old) ==
  LET n == setup.width
      pairs == n \div 2
  IN  [k \in 0..FFTLength-1 |->
         IF setup.module = "fftw"
           THEN IF k < n THEN k ELSE Zero
           ELSE IF k \div 2 < pairs THEN k
                ELSE IF k \div 2 < pairs + (FFTLength - n) \div 2 THEN Zero
                ELSE old[k]]

(* Where a worker is in Initialize, and in the destructor.                  *)
InInitialize(w, k) ==
  /\ k \in 1..Len(InitializeSteps)
  /\ calls[w] = Rest(InitializeSteps, k)
  /\ PlansOf(w) = PlansBefore(k)
  /\ ramp[w] = RampBefore(InitializeSteps[k])
  /\ InitializeSteps[k] = "transfer" => length = FFTLength

InDestroy(w, k) ==
  /\ k \in 1..Len(DestroySteps) + 1
  /\ calls[w] = Rest(DestroySteps, k)
  /\ PlansOf(w) = PlansLeft(k)

Filtering(w) ==
  /\ calls[w] = <<"filter">>
  /\ setup.module # "convolution"
  /\ \E old : row[w] = PaddedFrom(old)

(* What a worker has made is what its steps so far have made.               *)
AsPlanned(w) ==
  /\ filterer[w] = "new" => calls[w] = <<>> /\ PlansOf(w) = {} /\ ramp[w] = "none"
  /\ filterer[w] = "initializing" => \E k : InInitialize(w, k)
  /\ filterer[w] = "ready" =>
       /\ PlansOf(w) = FinalPlans /\ ramp[w] = FinalRamp
       /\ calls[w] = <<>> \/ Filtering(w)
  /\ filterer[w] = "deleted" => \E k : InDestroy(w, k)
  /\ filterer[w] = "failed" =>
       calls[w] = <<>> /\ setup.module = "convolution" /\ setup.smoothing
  /\ filterer[w] = "abandoned" => calls[w] = <<>>
  /\ inside[w] => calls[w] # <<>> /\ Head(calls[w]) \in PlannerCalls

AllAsPlanned == \A w \in Workers : AsPlanned(w)

-----------------------------------------------------------------------------
(* The steps of each call                                                   *)

LEMMA InitializeStepsFit ==
  ASSUME setup \in Setups
  PROVE  /\ InitializeSteps \in Seq(Names)
         /\ Len(InitializeSteps) \in Nat /\ Len(InitializeSteps) > 3
         /\ InitializeSteps[1] \in {"allocate", "refuse smoothing"}
         /\ PlansBefore(1) = {}
         /\ \A k \in 1..Len(InitializeSteps) : StepsFit(InitializeSteps, k)
<1>1. setup.module \in {"convolution", "fftw", "vdsp"} /\ setup.smoothing \in BOOLEAN
  BY DEF Setups
<1>2. PlansBefore(1) = {}
  BY DEF PlansBefore
<1>3. CASE setup.module = "fftw"
  <2>1. InitializeSteps = FFTWSteps
    BY <1>3 DEF InitializeSteps
  <2>2. \A k \in 1..Len(FFTWSteps) : StepsFit(FFTWSteps, k)
    BY <1>1, <1>3, FFTWStepsFit
  <2>3. FFTWSteps \in Seq(Names) /\ FFTWSteps[1] = "allocate"
    BY <1>1, FFTWStepsAre
  <2>4. Len(FFTWSteps) \in {9, 11}
    BY <1>1, FFTWStepsAre
  <2>6. \A n \in {9, 11} : n \in Nat /\ n > 3
    OBVIOUS
  <2>5. Len(FFTWSteps) \in Nat /\ Len(FFTWSteps) > 3
    BY <2>4, <2>6
  <2> QED
    BY <1>2, <2>1, <2>2, <2>3, <2>5
<1>4. CASE setup.module = "vdsp"
  <2>1. InitializeSteps = VDSPSteps
    BY <1>4 DEF InitializeSteps
  <2>2. \A k \in 1..Len(VDSPSteps) : StepsFit(VDSPSteps, k)
    BY <1>1, <1>4, VDSPStepsFit
  <2>3. VDSPSteps \in Seq(Names) /\ VDSPSteps[1] = "allocate"
    BY <1>1, VDSPStepsAre
  <2>4. Len(VDSPSteps) \in {4, 6}
    BY <1>1, VDSPStepsAre
  <2>6. \A n \in {4, 6} : n \in Nat /\ n > 3
    OBVIOUS
  <2>5. Len(VDSPSteps) \in Nat /\ Len(VDSPSteps) > 3
    BY <2>4, <2>6
  <2> QED
    BY <1>2, <2>1, <2>2, <2>3, <2>5
<1>5. CASE setup.module = "convolution"
  <2>1. InitializeSteps = ConvolutionSteps
    BY <1>5 DEF InitializeSteps
  <2>2. \A k \in 1..Len(ConvolutionSteps) : StepsFit(ConvolutionSteps, k)
    BY <1>5, ConvolutionStepsFit
  <2>3. ConvolutionSteps \in Seq(Names) /\ ConvolutionSteps[1] = "refuse smoothing"
    BY ConvolutionStepsAre
  <2>4. Len(ConvolutionSteps) = 4
    BY ConvolutionStepsAre
  <2>5. Len(ConvolutionSteps) \in Nat /\ Len(ConvolutionSteps) > 3
    BY <2>4
  <2> QED
    BY <1>2, <2>1, <2>2, <2>3, <2>5
<1> QED
  BY <1>1, <1>3, <1>4, <1>5

(* The destructor destroys what there is, and all of it.                    *)
LEMMA DestroyStepsFit ==
  /\ DestroySteps \in Seq(Names)
  /\ Len(DestroySteps) \in Nat /\ Len(DestroySteps) > 0
  /\ PlansLeft(1) = FinalPlans /\ PlansLeft(Len(DestroySteps) + 1) = {}
  /\ \A k \in 1..Len(DestroySteps) :
       /\ DestroySteps[k] \in {"destroy forward", "destroy backward", "free"}
       /\ DestroySteps[k] \in DOMAIN Destroys => Destroys[DestroySteps[k]] \in PlansLeft(k)
       /\ PlansLeft(k + 1) = PlansAfter(DestroySteps[k], PlansLeft(k))
<1>1. CASE setup.module = "fftw"
  <2>1. /\ Len(DestroySteps) = 3 /\ DestroySteps[1] = "destroy forward"
        /\ DestroySteps[2] = "destroy backward" /\ DestroySteps[3] = "free"
    BY <1>1, DestroyStepsAre
  <2>2. /\ PlansLeft(1) = {"forward", "backward"} /\ PlansLeft(2) = {"backward"}
        /\ PlansLeft(3) = {} /\ PlansLeft(4) = {}
    BY <1>1 DEF PlansLeft, PlanNames
  <2>3. FinalPlans = {"forward", "backward"}
    BY <1>1 DEF FinalPlans
  <2>4. /\ PlansAfter("destroy forward", {"forward", "backward"}) = {"backward"}
        /\ PlansAfter("destroy backward", {"backward"}) = {}
        /\ PlansAfter("free", {}) = {}
    BY PlannerCallsAre DEF PlansAfter
  <2>5. Len(DestroySteps) + 1 = 4 /\ Len(DestroySteps) \in Nat /\ Len(DestroySteps) > 0
    <3>1. 3 + 1 = 4 /\ 3 \in Nat /\ 3 > 0
      OBVIOUS
    <3> QED
      BY <2>1, <3>1
  <2>6. ASSUME NEW k \in 1..Len(DestroySteps)
        PROVE  /\ DestroySteps[k] \in {"destroy forward", "destroy backward", "free"}
               /\ DestroySteps[k] \in DOMAIN Destroys => Destroys[DestroySteps[k]] \in PlansLeft(k)
               /\ PlansLeft(k + 1) = PlansAfter(DestroySteps[k], PlansLeft(k))
    <3>1. (k = 1 /\ k + 1 = 2) \/ (k = 2 /\ k + 1 = 3) \/ (k = 3 /\ k + 1 = 4)
      <4>1. k \in 1..3
        BY <2>1
      <4>2. \A i \in 1..3 : (i = 1 /\ i + 1 = 2) \/ (i = 2 /\ i + 1 = 3) \/ (i = 3 /\ i + 1 = 4)
        OBVIOUS
      <4> QED
        BY <4>1, <4>2
    <3> QED
      BY <2>1, <2>2, <2>4, <3>1, PlannerCallsAre
  <2> QED
    BY <2>2, <2>3, <2>5, <2>6, DestroyStepsAre
<1>2. CASE setup.module # "fftw"
  <2>1. Len(DestroySteps) = 1 /\ DestroySteps[1] = "free"
    BY <1>2, DestroyStepsAre
  <2>2. FinalPlans = {} /\ \A k : PlansLeft(k) = {}
    BY <1>2 DEF PlansLeft, FinalPlans
  <2>3. PlansAfter("free", {}) = {} /\ "free" \notin DOMAIN Destroys
    BY PlannerCallsAre DEF PlansAfter
  <2>4. Len(DestroySteps) \in Nat /\ Len(DestroySteps) > 0
    BY <2>1
  <2>5. ASSUME NEW k \in 1..Len(DestroySteps)
        PROVE  /\ DestroySteps[k] \in {"destroy forward", "destroy backward", "free"}
               /\ DestroySteps[k] \in DOMAIN Destroys => Destroys[DestroySteps[k]] \in PlansLeft(k)
               /\ PlansLeft(k + 1) = PlansAfter(DestroySteps[k], PlansLeft(k))
    <3>1. k = 1
      BY <2>1
    <3> QED
      BY <2>1, <2>2, <2>3, <3>1
  <2> QED
    BY <2>2, <2>4, <2>5, DestroyStepsAre
<1> QED
  BY <1>1, <1>2

(* What is left of a call.                                                  *)
LEMMA RestIs ==
  ASSUME NEW s \in Seq(Names), NEW k \in 1..Len(s)
  PROVE  /\ Rest(s, k) # <<>> /\ Head(Rest(s, k)) = s[k]
         /\ Tail(Rest(s, k)) = Rest(s, k + 1)
         /\ s[k] \in Names
<1>1. Len(s) \in Nat /\ Len(s) \in k..Len(s) /\ k \in Int /\ k <= Len(s)
  OBVIOUS
<1>2. Head(Rest(s, k)) = s[k] /\ Tail(Rest(s, k)) = Rest(s, k + 1)
  BY <1>1, HeadTailOfSubSeq DEF Rest
<1>3. \A i \in k..Len(s) : s[i] \in Names
  OBVIOUS
<1>4. Len(Rest(s, k)) = Len(s) - k + 1
  BY <1>1, <1>3, SubSeqProperties DEF Rest
<1>5. Rest(s, k) # <<>>
  BY <1>1, <1>4, EmptySeq
<1> QED
  BY <1>2, <1>3, <1>5

LEMMA RestEnds ==
  ASSUME NEW s \in Seq(Names)
  PROVE  Rest(s, 1) = s /\ Rest(s, Len(s) + 1) = <<>>
<1>1. Len(s) \in Nat /\ Len(s) + 1 \in Int /\ Len(s) < Len(s) + 1
  OBVIOUS
<1> QED
  BY <1>1, SubSeqFull, SubSeqEmpty DEF Rest

(* All this is decided by setup, which never changes.                       *)
LEMMA SetupKept ==
  ASSUME setup' = setup
  PROVE  /\ InitializeSteps' = InitializeSteps /\ DestroySteps' = DestroySteps
         /\ FFTLength' = FFTLength /\ \A old : PaddedFrom(old)' = PaddedFrom(old)
         /\ FinalPlans' = FinalPlans /\ FinalRamp' = FinalRamp
<1>1. Smoothing' = Smoothing
  BY DEF Smoothing
<1>2. InitializeSteps' = InitializeSteps
  BY <1>1 DEF InitializeSteps, FFTWSteps, VDSPSteps, ConvolutionSteps
<1>3. FFTLength' = FFTLength
  BY DEF FFTLength
<1>4. ASSUME NEW old
      PROVE  PaddedFrom(old)' = PaddedFrom(old)
  BY <1>3 DEF PaddedFrom
<1> QED
  BY <1>2, <1>3, <1>4 DEF DestroySteps, FinalPlans, FinalRamp

LEMMA StepKept ==
  ASSUME setup' = setup, NEW k, NEW s
  PROVE  /\ PlansBefore(k)' = PlansBefore(k) /\ PlansLeft(k)' = PlansLeft(k)
         /\ RampBefore(s)' = RampBefore(s)
BY DEF PlansBefore, PlansLeft, RampBefore, FinalRamp

-----------------------------------------------------------------------------
(* One worker moves, the others stay as planned                             *)

LEMMA NextPlace ==
  ASSUME NEW n \in Nat, NEW k \in 1..n
  PROVE  k + 1 \in 1..n + 1 /\ (k # n => k < n /\ k + 1 \in 1..n)
OBVIOUS

LEMMA NotThroughYet ==
  ASSUME NEW n \in Nat, NEW k \in 1..n + 1, k # n + 1
  PROVE  k \in 1..n
OBVIOUS

LEMMA OthersKept ==
  ASSUME setup' = setup, NEW v \in Workers, AsPlanned(v),
         filterer'[v] = filterer[v], calls'[v] = calls[v],
         PlansOf(v)' = PlansOf(v), ramp'[v] = ramp[v], row'[v] = row[v],
         inside'[v] = inside[v], length' = length \/ length' = FFTLength
  PROVE  AsPlanned(v)'
<1>1. ASSUME NEW k, InInitialize(v, k)
      PROVE  InInitialize(v, k)'
  BY <1>1, SetupKept, StepKept DEF InInitialize, Rest
<1>2. ASSUME NEW k, InDestroy(v, k)
      PROVE  InDestroy(v, k)'
  BY <1>2, SetupKept, StepKept DEF InDestroy, Rest
<1>3. Filtering(v) => Filtering(v)'
  BY SetupKept DEF Filtering
<1>4. PlannerCalls' = PlannerCalls
  BY DEF PlannerCalls, Creates, Destroys
<1> QED
  BY <1>1, <1>2, <1>3, <1>4, SetupKept DEF AsPlanned

LEMMA WhereIs ==
  ASSUME Typed, NEW w \in Workers, AsPlanned(w), NEW s, At(w, s)
  PROVE  /\ s \in Names
         /\ s = "filter" => filterer[w] = "ready" /\ Filtering(w)
         /\ s \in {"free", "destroy forward", "destroy backward"} =>
              /\ filterer[w] = "deleted"
              /\ \E k \in 1..Len(DestroySteps) :
                   /\ InDestroy(w, k) /\ DestroySteps[k] = s
                   /\ Tail(calls[w]) = Rest(DestroySteps, k + 1)
         /\ s \notin {"filter", "free", "destroy forward", "destroy backward"} =>
              /\ filterer[w] = "initializing"
              /\ \E k \in 1..Len(InitializeSteps) :
                   /\ InInitialize(w, k) /\ InitializeSteps[k] = s
                   /\ Tail(calls[w]) = Rest(InitializeSteps, k + 1)
<1>1. calls[w] # <<>> /\ Head(calls[w]) = s
  BY DEF At
<1>2. s \in Names
  BY <1>1, HeadTailProperties DEF Typed
<1>3. setup \in Setups /\ filterer[w] \in Filterers
  BY DEF Typed
<1>4. CASE filterer[w] = "initializing"
  <2>1. PICK k : InInitialize(w, k)
    BY <1>4 DEF AsPlanned
  <2>2. k \in 1..Len(InitializeSteps) /\ calls[w] = Rest(InitializeSteps, k)
    BY <2>1 DEF InInitialize
  <2>3. /\ Head(calls[w]) = InitializeSteps[k]
        /\ Tail(calls[w]) = Rest(InitializeSteps, k + 1)
    BY <1>3, <2>2, InitializeStepsFit, RestIs
  <2>4. StepsFit(InitializeSteps, k)
    BY <1>3, <2>2, InitializeStepsFit
  <2>5. s \notin {"filter", "free", "destroy forward", "destroy backward"}
    BY <1>1, <2>3, <2>4 DEF StepsFit
  <2> QED
    BY <1>1, <1>2, <1>4, <2>1, <2>2, <2>3, <2>5
<1>5. CASE filterer[w] = "deleted"
  <2>1. PICK k : InDestroy(w, k)
    BY <1>5 DEF AsPlanned
  <2>2. k \in 1..Len(DestroySteps) + 1 /\ calls[w] = Rest(DestroySteps, k)
    BY <2>1 DEF InDestroy
  <2>3. k # Len(DestroySteps) + 1
    BY <1>1, <2>2, DestroyStepsFit, RestEnds
  <2>4. k \in 1..Len(DestroySteps)
    BY <2>2, <2>3, DestroyStepsFit, NotThroughYet
  <2>5. /\ Head(calls[w]) = DestroySteps[k]
        /\ Tail(calls[w]) = Rest(DestroySteps, k + 1)
    BY <2>2, <2>4, DestroyStepsFit, RestIs
  <2>6. s \in {"free", "destroy forward", "destroy backward"}
    BY <1>1, <2>4, <2>5, DestroyStepsFit
  <2> QED
    BY <1>1, <1>2, <1>5, <2>1, <2>4, <2>5, <2>6
<1>6. CASE filterer[w] = "ready"
  <2>1. Filtering(w)
    BY <1>1, <1>6 DEF AsPlanned
  <2>2. s = "filter"
    BY <1>1, <2>1 DEF Filtering
  <2> QED
    BY <1>2, <1>6, <2>1, <2>2
<1>7. filterer[w] \notin {"new", "failed", "abandoned"}
  BY <1>1 DEF AsPlanned
<1> QED
  BY <1>3, <1>4, <1>5, <1>6, <1>7 DEF Filterers

LEMMA WhereInInitialize ==
  ASSUME Typed, NEW w \in Workers, AsPlanned(w), NEW s, At(w, s),
         s \notin {"filter", "free", "destroy forward", "destroy backward"}
  PROVE  /\ filterer[w] = "initializing"
         /\ \E k \in 1..Len(InitializeSteps) :
              /\ InInitialize(w, k) /\ InitializeSteps[k] = s
              /\ Tail(calls[w]) = Rest(InitializeSteps, k + 1)
BY WhereIs

LEMMA WhereFiltering ==
  ASSUME Typed, NEW w \in Workers, AsPlanned(w), At(w, "filter")
  PROVE  filterer[w] = "ready" /\ Filtering(w)
BY WhereIs

(* A step of Initialize that does what it should.                           *)
LEMMA Advances ==
  ASSUME Typed, NEW w \in Workers, AsPlanned(w), NEW s, At(w, s),
         s \notin {"filter", "free", "destroy forward", "destroy backward", "store"},
         setup' = setup, filterer'[w] = filterer[w], calls'[w] = Tail(calls[w]),
         PlansOf(w)' = PlansAfter(s, PlansOf(w)), ramp'[w] = RampAfter(s),
         ~inside'[w], length' = length \/ length' = FFTLength,
         s = "set length" => length' = FFTLength
  PROVE  AsPlanned(w)'
<1>1. setup \in Setups
  BY DEF Typed
<1>2. PICK k \in 1..Len(InitializeSteps) :
        /\ InInitialize(w, k) /\ InitializeSteps[k] = s
        /\ Tail(calls[w]) = Rest(InitializeSteps, k + 1)
  BY WhereIs
<1>3. filterer[w] = "initializing"
  BY WhereIs
<1>4. StepsFit(InitializeSteps, k)
  BY <1>1, InitializeStepsFit
<1>5. Len(InitializeSteps) \in Nat
  BY <1>1, InitializeStepsFit
<1>6. k # Len(InitializeSteps)
  BY <1>2, <1>4 DEF StepsFit
<1>7. k < Len(InitializeSteps) /\ k + 1 \in 1..Len(InitializeSteps)
  BY <1>5, <1>6, NextPlace
<1>8. /\ RampBefore(InitializeSteps[k + 1]) = RampAfter(s)
      /\ PlansBefore(k + 1) = PlansAfter(s, PlansBefore(k))
      /\ InitializeSteps[k + 1] = "transfer" => s = "set length"
  BY <1>2, <1>4, <1>7 DEF StepsFit
<1>9. PlansOf(w) = PlansBefore(k)
  BY <1>2 DEF InInitialize
<1>10. InInitialize(w, k + 1)'
  <2>1. /\ InitializeSteps' = InitializeSteps /\ FFTLength' = FFTLength
        /\ PlansBefore(k + 1)' = PlansBefore(k + 1)
        /\ \A t : RampBefore(t)' = RampBefore(t)
    BY SetupKept, StepKept
  <2>2. calls'[w] = Rest(InitializeSteps, k + 1)'
    BY <1>2, <2>1 DEF Rest
  <2>3. PlansOf(w)' = PlansBefore(k + 1)'
    BY <1>8, <1>9, <2>1
  <2>4. ramp'[w] = RampBefore(InitializeSteps[k + 1])'
    BY <1>8, <2>1
  <2>5. (InitializeSteps[k + 1])' = "transfer" => length' = FFTLength'
    BY <1>8, <2>1
  <2> QED
    BY <1>7, <2>1, <2>2, <2>3, <2>4, <2>5 DEF InInitialize
<1> QED
  BY <1>3, <1>10 DEF AsPlanned

(* A step of the destructor.                                                *)
LEMMA DestroyAdvances ==
  ASSUME Typed, NEW w \in Workers, AsPlanned(w), NEW s, At(w, s),
         s \in {"free", "destroy forward", "destroy backward"},
         setup' = setup, filterer'[w] = filterer[w], calls'[w] = Tail(calls[w]),
         PlansOf(w)' = PlansAfter(s, PlansOf(w)), ~inside'[w]
  PROVE  AsPlanned(w)'
<1>1. PICK k \in 1..Len(DestroySteps) :
        /\ InDestroy(w, k) /\ DestroySteps[k] = s
        /\ Tail(calls[w]) = Rest(DestroySteps, k + 1)
  BY WhereIs
<1>2. filterer[w] = "deleted"
  BY WhereIs
<1>3. Len(DestroySteps) \in Nat /\ PlansLeft(k + 1) = PlansAfter(s, PlansLeft(k))
  BY <1>1, DestroyStepsFit
<1>4. k + 1 \in 1..Len(DestroySteps) + 1
  BY <1>3, NextPlace
<1>5. PlansOf(w) = PlansLeft(k)
  BY <1>1 DEF InDestroy
<1>6. InDestroy(w, k + 1)'
  <2>1. DestroySteps' = DestroySteps /\ PlansLeft(k + 1)' = PlansLeft(k + 1)
    BY SetupKept, StepKept
  <2>2. calls'[w] = Rest(DestroySteps, k + 1)'
    BY <1>1, <2>1 DEF Rest
  <2>3. PlansOf(w)' = PlansLeft(k + 1)'
    BY <1>3, <1>5, <2>1
  <2> QED
    BY <1>4, <2>1, <2>2, <2>3 DEF InDestroy
<1> QED
  BY <1>2, <1>6 DEF AsPlanned

OnlyMoves(w) ==
  /\ setup' = setup
  /\ \A v \in Workers \ {w} :
       /\ filterer'[v] = filterer[v] /\ calls'[v] = calls[v]
       /\ PlansOf(v)' = PlansOf(v) /\ ramp'[v] = ramp[v]
       /\ row'[v] = row[v] /\ inside'[v] = inside[v]
  /\ length' = length \/ length' = FFTLength

LEMMA MovesOne ==
  ASSUME Typed, HoldsMutex, NEW w \in Workers,
         \/ Initialize(w) \/ RefuseSmoothing(w) \/ Allocate(w)
         \/ EnterPlanner(w) \/ LeavePlanner(w)
         \/ MakeRamp(w) \/ TransformRamp(w)
         \/ SetLength(w) \/ ConstructTransferFunction(w) \/ FinishInitialize(w)
         \/ LoadRow(w) \/ FilterRow(w)
         \/ Destroy(w) \/ Free(w)
  PROVE  OnlyMoves(w)
<1>1. /\ DOMAIN calls = Workers /\ DOMAIN filterer = Workers /\ DOMAIN ramp = Workers
      /\ DOMAIN row = Workers /\ DOMAIN inside = Workers
  BY DEF Typed, HoldsMutex
<1>2. ASSUME plans' = plans
      PROVE  \A v \in Workers : PlansOf(v)' = PlansOf(v)
  BY <1>2 DEF PlansOf
<1>3. CASE Initialize(w)
  BY <1>1, <1>2, <1>3 DEF Initialize, OnlyMoves
<1>4. CASE RefuseSmoothing(w)
  BY <1>1, <1>2, <1>4 DEF RefuseSmoothing, Abandon, Continue, OnlyMoves
<1>5. CASE Allocate(w)
  BY <1>1, <1>2, <1>5 DEF Allocate, Abandon, Continue, OnlyMoves
<1>6. CASE EnterPlanner(w)
  BY <1>1, <1>2, <1>6 DEF EnterPlanner, OnlyMoves
<1>7. CASE LeavePlanner(w)
  <2> DEFINE s == Head(calls[w])
  <2>1. plans' = IF s \in DOMAIN Creates THEN plans \cup {<<w, Creates[s]>>}
                 ELSE plans \ {<<w, Destroys[s]>>}
    BY <1>7 DEF LeavePlanner
  <2>2. \A v \in Workers \ {w} : PlansOf(v)' = PlansOf(v)
    BY <2>1 DEF PlansOf
  <2>3. \A v \in Workers \ {w} : ramp'[v] = ramp[v] /\ row'[v] = row[v]
    BY <1>1, <1>7 DEF LeavePlanner
  <2> QED
    BY <1>1, <1>7, <2>2, <2>3 DEF LeavePlanner, Continue, OnlyMoves
<1>8. CASE MakeRamp(w)
  BY <1>1, <1>2, <1>8 DEF MakeRamp, Becomes, Continue, OnlyMoves
<1>9. CASE TransformRamp(w)
  BY <1>1, <1>2, <1>9 DEF TransformRamp, Becomes, Continue, OnlyMoves
<1>10. CASE SetLength(w)
  BY <1>1, <1>2, <1>10 DEF SetLength, Continue, OnlyMoves
<1>11. CASE ConstructTransferFunction(w)
  BY <1>1, <1>2, <1>11 DEF ConstructTransferFunction, Becomes, Abandon, Continue, OnlyMoves
<1>12. CASE FinishInitialize(w)
  BY <1>1, <1>2, <1>12 DEF FinishInitialize, Continue, OnlyMoves
<1>13. CASE LoadRow(w)
  BY <1>1, <1>2, <1>13 DEF LoadRow, OnlyMoves
<1>14. CASE FilterRow(w)
  BY <1>1, <1>2, <1>14 DEF FilterRow, Continue, OnlyMoves
<1>15. CASE Destroy(w)
  BY <1>1, <1>2, <1>15 DEF Destroy, OnlyMoves
<1>16. CASE Free(w)
  BY <1>1, <1>2, <1>16 DEF Free, Continue, OnlyMoves
<1> QED
  BY <1>3, <1>4, <1>5, <1>6, <1>7, <1>8, <1>9, <1>10, <1>11, <1>12, <1>13, <1>14,
     <1>15, <1>16

LEMMA OneIsEnough ==
  ASSUME AllAsPlanned, NEW w \in Workers, OnlyMoves(w), AsPlanned(w)'
  PROVE  AllAsPlanned'
<1>1. ASSUME NEW v \in Workers \ {w}
      PROVE  AsPlanned(v)'
  BY OthersKept DEF AllAsPlanned, OnlyMoves
<1> QED
  BY <1>1 DEF AllAsPlanned

-----------------------------------------------------------------------------
(* The actions, each of which leaves its worker as planned                  *)

LEMMA InitializeAsPlanned ==
  ASSUME Typed, NEW w \in Workers, AsPlanned(w), Initialize(w)
  PROVE  AsPlanned(w)'
<1>1. /\ filterer[w] = "new" /\ filterer'[w] = "initializing"
      /\ calls'[w] = InitializeSteps /\ setup' = setup /\ ramp' = ramp
      /\ plans' = plans /\ inside' = inside
  BY DEF Initialize, Typed
<1>2. calls[w] = <<>> /\ PlansOf(w) = {} /\ ramp[w] = "none" /\ ~inside[w]
  BY <1>1 DEF AsPlanned
<1>3. /\ InitializeSteps \in Seq(Names) /\ Len(InitializeSteps) \in Nat
      /\ Len(InitializeSteps) > 3 /\ PlansBefore(1) = {}
      /\ InitializeSteps[1] \in {"allocate", "refuse smoothing"}
  BY InitializeStepsFit DEF Typed
<1>4. RampBefore(InitializeSteps[1]) = "none"
  BY <1>3, RampsAre
<1>5. InitializeSteps = Rest(InitializeSteps, 1)
  BY <1>3, RestEnds
<1>6. PlansOf(w)' = PlansOf(w)
  BY <1>1 DEF PlansOf
<1>7. InInitialize(w, 1)'
  <2>1. /\ InitializeSteps' = InitializeSteps /\ PlansBefore(1)' = PlansBefore(1)
        /\ \A t : RampBefore(t)' = RampBefore(t)
    BY <1>1, SetupKept, StepKept
  <2>2. 1 \in 1..Len(InitializeSteps)
    <3>1. \A n \in Nat : n > 3 => 1 \in 1..n
      OBVIOUS
    <3> QED
      BY <1>3, <3>1
  <2>3. calls'[w] = Rest(InitializeSteps, 1)'
    BY <1>1, <1>5, <2>1 DEF Rest
  <2>4. ramp'[w] = RampBefore(InitializeSteps[1])'
    BY <1>1, <1>2, <1>4, <2>1
  <2>5. (InitializeSteps[1])' # "transfer"
    BY <1>3, <2>1
  <2> QED
    BY <1>2, <1>3, <1>6, <2>1, <2>2, <2>3, <2>4, <2>5 DEF InInitialize
<1> QED
  BY <1>1, <1>2, <1>7 DEF AsPlanned

(* Whoever gives up is nobody's concern: his plans stay where they are.     *)
LEMMA GivingUp ==
  ASSUME Typed, NEW w \in Workers, NEW why \in {"failed", "abandoned"}, Abandon(w, why),
         why = "failed" => (setup.module = "convolution" /\ setup.smoothing)',
         ~inside'[w]
  PROVE  AsPlanned(w)'
<1>1. calls'[w] = <<>> /\ filterer'[w] = why
  BY DEF Abandon, Typed
<1> QED
  BY <1>1 DEF AsPlanned

(* No worker is inside the planner at any other step.                       *)
LEMMA NotInside ==
  ASSUME NEW w \in Workers, AsPlanned(w), NEW s, At(w, s), s \notin PlannerCalls
  PROVE  ~inside[w]
BY DEF AsPlanned, At

LEMMA PlainSteps ==
  ASSUME NEW s \in {"refuse smoothing", "allocate", "make ramp", "transform",
                    "set length", "transfer", "store", "filter", "free"}
  PROVE  s \notin PlannerCalls /\ \A before : PlansAfter(s, before) = before
BY PlannerCallsAre DEF PlannerCalls, PlansAfter

LEMMA RefuseSmoothingAsPlanned ==
  ASSUME Typed, NEW w \in Workers, AsPlanned(w), RefuseSmoothing(w)
  PROVE  AsPlanned(w)'
<1>1. /\ At(w, "refuse smoothing") /\ setup' = setup /\ inside' = inside
      /\ plans' = plans /\ ramp' = ramp /\ length' = length
  BY DEF RefuseSmoothing
<1>2. ~inside[w] /\ \A before : PlansAfter("refuse smoothing", before) = before
  BY <1>1, NotInside, PlainSteps
<1>3. PICK k \in 1..Len(InitializeSteps) :
        InInitialize(w, k) /\ InitializeSteps[k] = "refuse smoothing"
  BY <1>1, WhereInInitialize
<1>4. StepsFit(InitializeSteps, k)
  BY InitializeStepsFit DEF Typed
<1>5. setup.module = "convolution" /\ ramp[w] = "none"
  BY <1>3, <1>4, RampsAre DEF StepsFit, InInitialize
<1>6. CASE setup.smoothing
  <2>1. Abandon(w, "failed")
    BY <1>6 DEF RefuseSmoothing
  <2> QED
    BY <1>1, <1>2, <1>5, <1>6, <2>1, GivingUp
<1>7. CASE ~setup.smoothing
  <2>1. calls'[w] = Tail(calls[w]) /\ filterer' = filterer
    BY <1>7 DEF RefuseSmoothing, Continue, Typed
  <2>2. PlansOf(w)' = PlansOf(w)
    BY <1>1 DEF PlansOf
  <2> QED
    BY <1>1, <1>2, <1>5, <2>1, <2>2, Advances, RampsAre
<1> QED
  BY <1>6, <1>7

LEMMA AllocateAsPlanned ==
  ASSUME Typed, NEW w \in Workers, AsPlanned(w), Allocate(w)
  PROVE  AsPlanned(w)'
<1>1. /\ At(w, "allocate") /\ setup' = setup /\ inside' = inside
      /\ plans' = plans /\ ramp' = ramp /\ length' = length
  BY DEF Allocate
<1>2. ~inside[w] /\ \A before : PlansAfter("allocate", before) = before
  BY <1>1, NotInside, PlainSteps
<1>3. PICK k \in 1..Len(InitializeSteps) :
        InInitialize(w, k) /\ InitializeSteps[k] = "allocate"
  BY <1>1, WhereInInitialize
<1>4. ramp[w] = "none"
  BY <1>3, RampsAre DEF InInitialize
<1>5. CASE Abandon(w, "abandoned")
  BY <1>1, <1>2, <1>5, GivingUp
<1>6. CASE Continue(w) /\ filterer' = filterer
  <2>1. calls'[w] = Tail(calls[w])
    BY <1>6 DEF Continue, Typed
  <2>2. PlansOf(w)' = PlansOf(w)
    BY <1>1 DEF PlansOf
  <2> QED
    BY <1>1, <1>2, <1>4, <1>6, <2>1, <2>2, Advances, RampsAre
<1> QED
  BY <1>5, <1>6 DEF Allocate

LEMMA EnterPlannerAsPlanned ==
  ASSUME Typed, HoldsMutex, NEW w \in Workers, AsPlanned(w), EnterPlanner(w)
  PROVE  AsPlanned(w)'
<1>1. PICK s \in PlannerCalls : At(w, s)
  BY DEF EnterPlanner
<1>2. calls[w] # <<>> /\ Head(calls[w]) \in PlannerCalls
  BY <1>1 DEF At
<1>3. UNCHANGED <<setup, calls, filterer, plans, length, ramp, row>>
  BY DEF EnterPlanner
<1>4. ~inside[w]
  BY DEF EnterPlanner
<1>5. filterer[w] \notin {"new", "failed", "abandoned"}
  BY <1>2 DEF AsPlanned
<1>6. ASSUME NEW k, InInitialize(w, k)
      PROVE  InInitialize(w, k)'
  BY <1>3, <1>6, SetupKept, StepKept DEF InInitialize, Rest, PlansOf
<1>7. ASSUME NEW k, InDestroy(w, k)
      PROVE  InDestroy(w, k)'
  BY <1>3, <1>7, SetupKept, StepKept DEF InDestroy, Rest, PlansOf
<1>8. Filtering(w) => Filtering(w)'
  BY <1>3, SetupKept DEF Filtering
<1>9. PlannerCalls' = PlannerCalls
  BY DEF PlannerCalls, Creates, Destroys
<1>10. PlansOf(w)' = PlansOf(w)
  BY <1>3 DEF PlansOf
<1> QED
  BY <1>2, <1>3, <1>5, <1>6, <1>7, <1>8, <1>9, <1>10, SetupKept DEF AsPlanned

LEMMA LeavePlannerAsPlanned ==
  ASSUME Typed, HoldsMutex, NEW w \in Workers, AsPlanned(w), LeavePlanner(w)
  PROVE  AsPlanned(w)'
<1>1. PICK s : s = Head(calls[w])
  OBVIOUS
<1>2. inside[w] /\ calls[w] # <<>> /\ s \in PlannerCalls /\ At(w, s)
  BY <1>1 DEF LeavePlanner, AsPlanned, At
<1>3. /\ setup' = setup /\ filterer' = filterer /\ length' = length
      /\ calls'[w] = Tail(calls[w]) /\ ~inside'[w]
  BY DEF LeavePlanner, Continue, Typed, HoldsMutex
<1>4. ramp' = ramp
  BY DEF LeavePlanner, Overwrites
<1>5. PlansOf(w)' = PlansAfter(s, PlansOf(w))
  <2>1. plans' = IF s \in DOMAIN Creates THEN plans \cup {<<w, Creates[s]>>}
                 ELSE plans \ {<<w, Destroys[s]>>}
    BY <1>1 DEF LeavePlanner
  <2>2. CASE s \in DOMAIN Creates
    <3>1. Creates[s] \in PlanNames
      BY <2>2, PlannerCallsAre DEF PlanNames
    <3> QED
      BY <2>1, <2>2, <3>1 DEF PlansOf, PlansAfter
  <2>3. CASE s \notin DOMAIN Creates
    <3>1. s \in DOMAIN Destroys
      BY <1>2, <2>3 DEF PlannerCalls
    <3> QED
      BY <2>1, <2>3, <3>1 DEF PlansOf, PlansAfter
  <2> QED
    BY <2>2, <2>3
<1>6. CASE s \in {"destroy forward", "destroy backward"}
  BY <1>2, <1>3, <1>5, <1>6, DestroyAdvances
<1>7. CASE s \in {"plan forward", "plan backward", "plan ramp", "destroy ramp"}
  <2>1. s \notin {"filter", "free", "destroy forward", "destroy backward", "store"}
    BY <1>7
  <2>2. PICK k \in 1..Len(InitializeSteps) :
          InInitialize(w, k) /\ InitializeSteps[k] = s
    BY <1>2, <2>1, WhereInInitialize
  <2>3. ramp[w] = RampBefore(s) /\ RampBefore(s) = RampAfter(s)
    BY <1>7, <2>2, RampsAre DEF InInitialize
  <2>4. s # "set length"
    BY <1>7
  <2> QED
    BY <1>2, <1>3, <1>4, <1>5, <2>1, <2>3, <2>4, Advances
<1> QED
  BY <1>2, <1>6, <1>7, PlannerCallsAre DEF PlannerCalls

LEMMA MakeRampAsPlanned ==
  ASSUME Typed, NEW w \in Workers, AsPlanned(w), MakeRamp(w)
  PROVE  AsPlanned(w)'
<1>1. /\ At(w, "make ramp") /\ setup' = setup /\ inside' = inside
      /\ plans' = plans /\ length' = length /\ filterer' = filterer
      /\ calls'[w] = Tail(calls[w])
  BY DEF MakeRamp, Continue, Typed
<1>2. ~inside[w] /\ \A before : PlansAfter("make ramp", before) = before
  BY <1>1, NotInside, PlainSteps
<1>3. PICK k \in 1..Len(InitializeSteps) :
        InInitialize(w, k) /\ InitializeSteps[k] = "make ramp"
  BY <1>1, WhereInInitialize
<1>4. ramp[w] = "none"
  BY <1>3, RampsAre DEF InInitialize
<1>5. ramp'[w] = "kernel"
  BY <1>4 DEF MakeRamp, Becomes, Typed
<1>6. PlansOf(w)' = PlansOf(w)
  BY <1>1 DEF PlansOf
<1> QED
  BY <1>1, <1>2, <1>5, <1>6, Advances, RampsAre

LEMMA TransformRampAsPlanned ==
  ASSUME Typed, NEW w \in Workers, AsPlanned(w), TransformRamp(w)
  PROVE  AsPlanned(w)'
<1>1. /\ At(w, "transform") /\ setup' = setup /\ inside' = inside
      /\ plans' = plans /\ length' = length /\ filterer' = filterer
      /\ calls'[w] = Tail(calls[w])
  BY DEF TransformRamp, Continue, Typed
<1>2. ~inside[w] /\ \A before : PlansAfter("transform", before) = before
  BY <1>1, NotInside, PlainSteps
<1>3. PICK k \in 1..Len(InitializeSteps) :
        InInitialize(w, k) /\ InitializeSteps[k] = "transform"
  BY <1>1, WhereInInitialize
<1>4. ramp[w] = "kernel"
  BY <1>3, RampsAre DEF InInitialize
<1>5. ramp'[w] = "spectrum"
  BY <1>4 DEF TransformRamp, Becomes, Typed
<1>6. PlansOf(w)' = PlansOf(w)
  BY <1>1 DEF PlansOf
<1> QED
  BY <1>1, <1>2, <1>5, <1>6, Advances, RampsAre

LEMMA SetLengthAsPlanned ==
  ASSUME Typed, NEW w \in Workers, AsPlanned(w), SetLength(w)
  PROVE  AsPlanned(w)'
<1>1. /\ At(w, "set length") /\ setup' = setup /\ inside' = inside
      /\ plans' = plans /\ length' = FFTLength /\ filterer' = filterer
      /\ ramp' = ramp /\ calls'[w] = Tail(calls[w])
  BY DEF SetLength, Continue, Typed
<1>2. ~inside[w] /\ \A before : PlansAfter("set length", before) = before
  BY <1>1, NotInside, PlainSteps
<1>3. PICK k \in 1..Len(InitializeSteps) :
        InInitialize(w, k) /\ InitializeSteps[k] = "set length"
  BY <1>1, WhereInInitialize
<1>4. ramp[w] = "spectrum"
  BY <1>3, RampsAre DEF InInitialize
<1>5. PlansOf(w)' = PlansOf(w)
  BY <1>1 DEF PlansOf
<1> QED
  BY <1>1, <1>2, <1>4, <1>5, Advances, RampsAre

(* All workers set the length to the same, so that the array is as long as  *)
(* asserted.                                                                *)
LEMMA ConstructTransferFunctionAsPlanned ==
  ASSUME Typed, NEW w \in Workers, AsPlanned(w), ConstructTransferFunction(w)
  PROVE  AsPlanned(w)'
<1>1. /\ At(w, "transfer") /\ setup' = setup /\ inside' = inside
      /\ plans' = plans /\ length' = length
  BY DEF ConstructTransferFunction
<1>2. ~inside[w] /\ \A before : PlansAfter("transfer", before) = before
  BY <1>1, NotInside, PlainSteps
<1>3. PICK k \in 1..Len(InitializeSteps) :
        InInitialize(w, k) /\ InitializeSteps[k] = "transfer"
  BY <1>1, WhereInInitialize
<1>4. ramp[w] = "spectrum" /\ length = FFTLength
  BY <1>3, RampsAre DEF InInitialize
<1>5. /\ filterer' = filterer /\ calls'[w] = Tail(calls[w])
      /\ ramp'[w] = "smoothed"
  BY <1>4 DEF ConstructTransferFunction, Becomes, Continue, Typed
<1>6. PlansOf(w)' = PlansOf(w)
  BY <1>1 DEF PlansOf
<1> QED
  BY <1>1, <1>2, <1>5, <1>6, Advances, RampsAre

LEMMA FinishInitializeAsPlanned ==
  ASSUME Typed, NEW w \in Workers, AsPlanned(w), FinishInitialize(w)
  PROVE  AsPlanned(w)'
<1>1. /\ At(w, "store") /\ setup' = setup /\ inside' = inside
      /\ plans' = plans /\ ramp' = ramp /\ filterer'[w] = "ready"
      /\ calls'[w] = Tail(calls[w])
  BY DEF FinishInitialize, Continue, Typed
<1>2. ~inside[w]
  BY <1>1, NotInside, PlainSteps
<1>3. PICK k \in 1..Len(InitializeSteps) :
        /\ InInitialize(w, k) /\ InitializeSteps[k] = "store"
        /\ Tail(calls[w]) = Rest(InitializeSteps, k + 1)
  BY <1>1, WhereInInitialize
<1>4. InitializeSteps \in Seq(Names) /\ StepsFit(InitializeSteps, k)
  BY InitializeStepsFit DEF Typed
<1>5. k = Len(InitializeSteps) /\ PlansBefore(k) = FinalPlans
  BY <1>3, <1>4 DEF StepsFit
<1>6. calls'[w] = <<>>
  BY <1>1, <1>3, <1>4, <1>5, RestEnds
<1>7. ramp[w] = FinalRamp /\ PlansOf(w) = FinalPlans
  BY <1>3, <1>5, RampsAre DEF InInitialize
<1>8. PlansOf(w)' = PlansOf(w)
  BY <1>1 DEF PlansOf
<1>9. FinalPlans' = FinalPlans /\ FinalRamp' = FinalRamp
  BY <1>1, SetupKept
<1> QED
  BY <1>1, <1>2, <1>6, <1>7, <1>8, <1>9 DEF AsPlanned

LEMMA LoadRowAsPlanned ==
  ASSUME Typed, NEW w \in Workers, AsPlanned(w), LoadRow(w)
  PROVE  AsPlanned(w)'
<1>1. /\ filterer[w] = "ready" /\ setup.module # "convolution" /\ setup' = setup
      /\ inside' = inside /\ plans' = plans /\ ramp' = ramp /\ filterer' = filterer
      /\ calls'[w] = <<"filter">> /\ row'[w] = PaddedRow(w) /\ calls[w] = <<>>
  BY DEF LoadRow, Typed
<1>7. PICK old : old = row[w]
  OBVIOUS
<1>2. PaddedRow(w) = PaddedFrom(old)
  BY <1>7 DEF PaddedRow, PaddedFrom
<1>3. PlansOf(w)' = PlansOf(w)
  BY <1>1 DEF PlansOf
<1>4. /\ FinalPlans' = FinalPlans /\ FinalRamp' = FinalRamp
      /\ \A o : PaddedFrom(o)' = PaddedFrom(o)
  BY <1>1, SetupKept
<1>5. Filtering(w)'
  <2>1. row'[w] = PaddedFrom(old)'
    BY <1>1, <1>2, <1>4
  <2> QED
    BY <1>1, <2>1 DEF Filtering
<1>6. PlansOf(w) = FinalPlans /\ ramp[w] = FinalRamp /\ ~inside[w]
  BY <1>1 DEF AsPlanned
<1> QED
  BY <1>1, <1>3, <1>4, <1>5, <1>6 DEF AsPlanned

LEMMA FilterRowAsPlanned ==
  ASSUME Typed, NEW w \in Workers, AsPlanned(w), FilterRow(w)
  PROVE  AsPlanned(w)'
<1>1. /\ At(w, "filter") /\ setup' = setup /\ inside' = inside
      /\ plans' = plans /\ ramp' = ramp /\ filterer' = filterer
      /\ calls'[w] = Tail(calls[w])
  BY DEF FilterRow, Continue, Typed
<1>2. ~inside[w]
  BY <1>1, NotInside, PlainSteps
<1>3. filterer[w] = "ready" /\ Filtering(w)
  BY <1>1, WhereIs
<1>4. calls'[w] = <<>>
  BY <1>1, <1>3 DEF Filtering
<1>5. PlansOf(w)' = PlansOf(w)
  BY <1>1 DEF PlansOf
<1>6. FinalPlans' = FinalPlans /\ FinalRamp' = FinalRamp
  BY <1>1, SetupKept
<1>7. PlansOf(w) = FinalPlans /\ ramp[w] = FinalRamp
  BY <1>3 DEF AsPlanned
<1> QED
  BY <1>1, <1>2, <1>3, <1>4, <1>5, <1>6, <1>7 DEF AsPlanned

LEMMA DestroyAsPlanned ==
  ASSUME Typed, NEW w \in Workers, AsPlanned(w), Destroy(w)
  PROVE  AsPlanned(w)'
<1>1. /\ filterer[w] = "ready" /\ calls[w] = <<>> /\ setup' = setup
      /\ inside' = inside /\ plans' = plans /\ filterer'[w] = "deleted"
      /\ calls'[w] = DestroySteps
  BY DEF Destroy, Typed
<1>2. PlansOf(w) = FinalPlans /\ ~inside[w]
  BY <1>1 DEF AsPlanned
<1>3. PlansOf(w)' = PlansOf(w)
  BY <1>1 DEF PlansOf
<1>4. /\ DestroySteps \in Seq(Names) /\ Len(DestroySteps) \in Nat
      /\ PlansLeft(1) = FinalPlans
  BY DestroyStepsFit
<1>5. InDestroy(w, 1)'
  <2>1. DestroySteps' = DestroySteps /\ PlansLeft(1)' = PlansLeft(1)
    BY <1>1, SetupKept, StepKept
  <2>2. 1 \in 1..Len(DestroySteps) + 1
    <3>1. \A n \in Nat : 1 \in 1..n + 1
      OBVIOUS
    <3> QED
      BY <1>4, <3>1
  <2>3. calls'[w] = Rest(DestroySteps, 1)'
    BY <1>1, <1>4, <2>1, RestEnds DEF Rest
  <2> QED
    BY <1>2, <1>3, <1>4, <2>1, <2>2, <2>3 DEF InDestroy
<1> QED
  BY <1>1, <1>2, <1>5 DEF AsPlanned

LEMMA FreeAsPlanned ==
  ASSUME Typed, NEW w \in Workers, AsPlanned(w), Free(w)
  PROVE  AsPlanned(w)'
<1>1. /\ At(w, "free") /\ setup' = setup /\ inside' = inside
      /\ plans' = plans /\ filterer' = filterer /\ calls'[w] = Tail(calls[w])
  BY DEF Free, Continue, Typed
<1>2. ~inside[w] /\ \A before : PlansAfter("free", before) = before
  BY <1>1, NotInside, PlainSteps
<1>3. PlansOf(w)' = PlansOf(w)
  BY <1>1 DEF PlansOf
<1> QED
  BY <1>1, <1>2, <1>3, DestroyAdvances

-----------------------------------------------------------------------------
(* The steps together                                                       *)

LEMMA TypedStep ==
  ASSUME Typed, HoldsMutex, NEW w \in Workers, AsPlanned(w),
         \/ Initialize(w) \/ RefuseSmoothing(w) \/ Allocate(w)
         \/ EnterPlanner(w) \/ LeavePlanner(w)
         \/ MakeRamp(w) \/ TransformRamp(w)
         \/ SetLength(w) \/ ConstructTransferFunction(w) \/ FinishInitialize(w)
         \/ LoadRow(w) \/ FilterRow(w)
         \/ Destroy(w) \/ Free(w)
  PROVE  Typed'
<1>1. setup' = setup
  BY MovesOne DEF OnlyMoves
<1>2. setup' \in Setups'
  BY <1>1 DEF Typed, Setups
<1>3. DOMAIN row' = Workers
  BY DEF Typed, Initialize, RefuseSmoothing, Allocate, EnterPlanner, LeavePlanner,
         MakeRamp, TransformRamp, SetLength, ConstructTransferFunction,
         FinishInitialize, LoadRow, FilterRow, Destroy, Free
<1>4. filterer' \in [Workers -> Filterers]
  BY DEF Typed, Filterers, Initialize, RefuseSmoothing, Allocate, EnterPlanner,
         LeavePlanner, MakeRamp, TransformRamp, SetLength, ConstructTransferFunction,
         FinishInitialize, LoadRow, FilterRow, Destroy, Free, Abandon
<1>5. ramp' \in [Workers -> Ramps]
  <2>1. ASSUME NEW from, NEW to \in Ramps, Becomes(w, from, to)
        PROVE  ramp' \in [Workers -> Ramps]
    BY <2>1 DEF Becomes, Typed, Ramps
  <2>2. CASE MakeRamp(w) \/ TransformRamp(w) \/ ConstructTransferFunction(w)
    BY <2>1, <2>2 DEF MakeRamp, TransformRamp, ConstructTransferFunction, Ramps, Typed
  <2>3. CASE LeavePlanner(w) \/ Free(w)
    BY <2>3 DEF LeavePlanner, Free, Ramps, Typed
  <2>4. CASE \/ Initialize(w) \/ RefuseSmoothing(w) \/ Allocate(w) \/ EnterPlanner(w)
             \/ SetLength(w) \/ FinishInitialize(w) \/ LoadRow(w) \/ FilterRow(w)
             \/ Destroy(w)
    BY <2>4 DEF Typed, Initialize, RefuseSmoothing, Allocate, EnterPlanner, SetLength,
                FinishInitialize, LoadRow, FilterRow, Destroy
  <2> QED
    BY <2>2, <2>3, <2>4
<1>6. calls' \in [Workers -> Seq(Names)]
  <2>1. <<>> \in Seq(Names) /\ <<"filter">> \in Seq(Names)
    <3>1. PICK f \in Names : f = "filter"
      BY AllNames
    <3>2. <<f>> \in Seq(Names)
      OBVIOUS
    <3> QED
      BY <3>1, <3>2, EmptySeq
  <2>2. InitializeSteps \in Seq(Names) /\ DestroySteps \in Seq(Names)
    BY InitializeStepsFit, DestroyStepsFit DEF Typed
  <2>3. ASSUME NEW c \in Seq(Names), calls' = [calls EXCEPT ![w] = c]
        PROVE  calls' \in [Workers -> Seq(Names)]
    BY <2>3 DEF Typed
  <2>4. ASSUME calls[w] # <<>>, Continue(w)
        PROVE  calls' \in [Workers -> Seq(Names)]
    <3>1. Tail(calls[w]) \in Seq(Names)
      BY <2>4, HeadTailProperties DEF Typed
    <3> QED
      BY <2>3, <2>4, <3>1 DEF Continue
  <2>5. CASE LeavePlanner(w)
    BY <2>4, <2>5 DEF LeavePlanner, AsPlanned
  <2>6. CASE \/ MakeRamp(w) \/ TransformRamp(w) \/ SetLength(w)
             \/ FinishInitialize(w) \/ FilterRow(w) \/ Free(w)
    BY <2>4, <2>6 DEF MakeRamp, TransformRamp, SetLength, FinishInitialize, FilterRow,
                      Free, At
  <2>7. CASE RefuseSmoothing(w) \/ Allocate(w) \/ ConstructTransferFunction(w)
    <3>1. CASE calls' = [calls EXCEPT ![w] = <<>>]
      BY <2>1, <2>3, <3>1
    <3>2. CASE calls[w] # <<>> /\ Continue(w)
      BY <2>4, <3>2
    <3> QED
      BY <2>7, <3>1, <3>2 DEF RefuseSmoothing, Allocate, ConstructTransferFunction, At, Abandon
  <2>8. CASE EnterPlanner(w)
    BY <2>8 DEF EnterPlanner, Typed
  <2>9. CASE Initialize(w)
    BY <2>2, <2>3, <2>9 DEF Initialize
  <2>10. CASE LoadRow(w)
    BY <2>1, <2>3, <2>10 DEF LoadRow
  <2>11. CASE Destroy(w)
    BY <2>2, <2>3, <2>11 DEF Destroy
  <2> QED
    BY <2>5, <2>6, <2>7, <2>8, <2>9, <2>10, <2>11
<1> QED
  BY <1>2, <1>3, <1>4, <1>5, <1>6 DEF Typed

LEMMA PlannedInit == FiltererInit => Typed /\ AllAsPlanned
<1> SUFFICES ASSUME FiltererInit
             PROVE  Typed /\ AllAsPlanned
  OBVIOUS
<1>1. <<>> \in Seq(Names)
  BY EmptySeq
<1>2. Typed
  BY <1>1 DEF FiltererInit, Typed, Filterers, Ramps
<1>3. AllAsPlanned
  BY DEF FiltererInit, AllAsPlanned, AsPlanned, PlansOf
<1> QED
  BY <1>2, <1>3

LEMMA PlannedStep ==
  ASSUME Typed, HoldsMutex, AllAsPlanned, [FiltererNext]_filtererVars
  PROVE  Typed' /\ AllAsPlanned'
<1>1. CASE UNCHANGED filtererVars
  <2>1. Typed'
    BY <1>1 DEF filtererVars, Typed, Setups
  <2>2. ASSUME NEW v \in Workers
        PROVE  AsPlanned(v)'
    <3>1. PlansOf(v)' = PlansOf(v)
      BY <1>1 DEF filtererVars, PlansOf
    <3> QED
      BY <1>1, <3>1, OthersKept DEF filtererVars, AllAsPlanned
  <2> QED
    BY <2>1, <2>2 DEF AllAsPlanned
<1>2. CASE FiltererNext
  <2>1. PICK w \in Workers :
          \/ Initialize(w) \/ RefuseSmoothing(w) \/ Allocate(w)
          \/ EnterPlanner(w) \/ LeavePlanner(w)
          \/ MakeRamp(w) \/ TransformRamp(w)
          \/ SetLength(w) \/ ConstructTransferFunction(w) \/ FinishInitialize(w)
          \/ LoadRow(w) \/ FilterRow(w)
          \/ Destroy(w) \/ Free(w)
    BY <1>2 DEF FiltererNext
  <2>2. AsPlanned(w)
    BY DEF AllAsPlanned
  <2>3. OnlyMoves(w)
    BY <2>1, MovesOne
  <2>4. AsPlanned(w)'
    BY <2>1, <2>2, InitializeAsPlanned, RefuseSmoothingAsPlanned, AllocateAsPlanned,
       EnterPlannerAsPlanned, LeavePlannerAsPlanned, MakeRampAsPlanned,
       TransformRampAsPlanned, SetLengthAsPlanned, ConstructTransferFunctionAsPlanned,
       FinishInitializeAsPlanned, LoadRowAsPlanned, FilterRowAsPlanned,
       DestroyAsPlanned, FreeAsPlanned
  <2> QED
    BY <2>1, <2>2, <2>3, <2>4, OneIsEnough, TypedStep
<1> QED
  BY <1>1, <1>2

THEOREM FilterersAsPlanned == FiltererSpec => [](Typed /\ AllAsPlanned)
<1> DEFINE Inv == HoldsMutex /\ Typed /\ AllAsPlanned
<1>1. FiltererInit => Inv
  BY HoldsMutexInit, PlannedInit
<1>2. Inv /\ [FiltererNext]_filtererVars => Inv'
  BY HoldsMutexStep, PlannedStep
<1> QED
  BY <1>1, <1>2, PTL DEF FiltererSpec

(* Whoever is deleted leaves no plan behind, and destroys no plan that does *)
(* not exist.                                                               *)
THEOREM AllPlansComeBack == FiltererSpec => []PlansComeBack
<1>1. ASSUME Typed, AllAsPlanned
      PROVE  PlansComeBack
  <2> SUFFICES ASSUME NEW w \in Workers
               PROVE  /\ filterer[w] = "deleted" /\ calls[w] = <<>> =>
                           \A p \in {"forward", "backward", "ramp"} : <<w, p>> \notin plans
                      /\ inside[w] /\ Head(calls[w]) \in DOMAIN Destroys =>
                           <<w, Destroys[Head(calls[w])]>> \in plans
    BY DEF PlansComeBack
  <2>1. AsPlanned(w)
    BY <1>1 DEF AllAsPlanned
  <2>2. ASSUME filterer[w] = "deleted", calls[w] = <<>>
        PROVE  \A p \in {"forward", "backward", "ramp"} : <<w, p>> \notin plans
    <3>1. PICK k : InDestroy(w, k)
      BY <2>1, <2>2 DEF AsPlanned
    <3>2. k \in 1..Len(DestroySteps) + 1 /\ Rest(DestroySteps, k) = <<>>
      BY <2>2, <3>1 DEF InDestroy
    <3>3. k = Len(DestroySteps) + 1
      BY <3>2, DestroyStepsFit, NotThroughYet, RestIs
    <3>4. PlansOf(w) = {}
      BY <3>1, <3>3, DestroyStepsFit DEF InDestroy
    <3> QED
      BY <3>4 DEF PlansOf, PlanNames
  <2>3. ASSUME inside[w], NEW s \in DOMAIN Destroys, s = Head(calls[w])
        PROVE  <<w, Destroys[s]>> \in plans
    <3>1. At(w, s)
      BY <2>1, <2>3 DEF AsPlanned, At
    <3>2. s \in {"destroy forward", "destroy backward", "destroy ramp"}
      BY PlannerCallsAre
    <3>3. CASE s \in {"destroy forward", "destroy backward"}
      <4>1. PICK k \in 1..Len(DestroySteps) : InDestroy(w, k) /\ DestroySteps[k] = s
        BY <1>1, <2>1, <3>1, <3>3, WhereIs
      <4>2. Destroys[s] \in PlansOf(w)
        BY <4>1, DestroyStepsFit DEF InDestroy
      <4> QED
        BY <4>2 DEF PlansOf
    <3>4. CASE s = "destroy ramp"
      <4>1. PICK k \in 1..Len(InitializeSteps) : InInitialize(w, k) /\ InitializeSteps[k] = s
        BY <1>1, <2>1, <3>1, <3>4, WhereInInitialize
      <4>2. StepsFit(InitializeSteps, k)
        BY <1>1, InitializeStepsFit DEF Typed
      <4>3. Destroys[s] \in PlansOf(w)
        BY <4>1, <4>2 DEF StepsFit, InInitialize
      <4> QED
        BY <4>3 DEF PlansOf
    <3> QED
      BY <3>2, <3>3, <3>4
  <2> QED
    BY <2>2, <2>3
<1> QED
  BY <1>1, FilterersAsPlanned, PTL

LEMMA WidthIsPositive ==
  ASSUME setup \in Setups
  PROVE  setup.width \in Widths /\ setup.width \in Nat \ {0}
<1>1. setup.width \in Widths
  BY DEF Setups
<1> QED
  BY <1>1, FiltererAssumption

(* The two halves of an even row, each filled up to half the length.        *)
LEMMA HalvesAreFilledUp ==
  ASSUME NEW n \in Nat, n % 2 = 0, NEW half \in Nat, half >= n, NEW k \in 0..2 * half - 1
  PROVE  /\ k \div 2 < n \div 2 <=> k < n
         /\ k \div 2 < n \div 2 + (2 * half - n) \div 2
OBVIOUS

(* A row and what it is filled up with.                                     *)
LEMMA RowIsPadded ==
  ASSUME setup \in Setups, setup.width \in Nat \ {0}, setup.width <= 32768,
         setup.module # "convolution",
         setup.module = "vdsp" => setup.width % 2 = 0,
         NEW old
  PROVE  /\ Cardinality({k \in DOMAIN PaddedFrom(old) : PaddedFrom(old)[k] = Zero}) >= setup.width
         /\ \A k \in DOMAIN PaddedFrom(old) :
              PaddedFrom(old)[k] = IF k < setup.width THEN k ELSE Zero
<1>1. PICK n \in Nat \ {0} : n = setup.width
  OBVIOUS
<1>7. n <= 32768
  BY <1>1
<1>2. setup.module = "fftw" \/ setup.module = "vdsp"
  BY DEF Setups
<1>3. FFTLength \in Nat /\ FFTLength >= 2 * n
  <2>1. CASE setup.module = "fftw"
    BY <1>1, <1>7, <2>1, TransformsAreLong DEF FFTLength
  <2>2. CASE setup.module = "vdsp"
    <3>1. PICK half \in Nat : FilterLength("vdsp", n) = 2 * half /\ half >= n
      BY <1>7, TransformsAreLong
    <3> QED
      BY <1>1, <2>2, <3>1 DEF FFTLength
  <2> QED
    BY <1>2, <2>1, <2>2
<1>4. DOMAIN PaddedFrom(old) = 0..FFTLength-1
  BY DEF PaddedFrom
<1>5. ASSUME NEW k \in 0..FFTLength-1
      PROVE  PaddedFrom(old)[k] = IF k < n THEN k ELSE Zero
  <2>1. CASE setup.module = "fftw"
    BY <1>1, <2>1 DEF PaddedFrom
  <2>2. CASE setup.module = "vdsp"
    <3>1. PICK half \in Nat : FilterLength("vdsp", n) = 2 * half /\ half >= n
      BY <1>7, TransformsAreLong
    <3>2. FFTLength = 2 * half /\ n % 2 = 0
      BY <1>1, <2>2, <3>1 DEF FFTLength
    <3>3. /\ k \div 2 < n \div 2 <=> k < n
          /\ k \div 2 < n \div 2 + (FFTLength - n) \div 2
      BY <3>1, <3>2, HalvesAreFilledUp
    <3>4. PaddedFrom(old)[k] =
            IF k \div 2 < n \div 2 THEN k
            ELSE IF k \div 2 < n \div 2 + (FFTLength - n) \div 2 THEN Zero ELSE old[k]
      BY <1>1, <2>2 DEF PaddedFrom
    <3> QED
      BY <3>3, <3>4
  <2> QED
    BY <1>2, <2>1, <2>2
<1>6. Cardinality({k \in DOMAIN PaddedFrom(old) : PaddedFrom(old)[k] = Zero}) >= n
  <2>1. PICK top \in Nat : top = FFTLength
    BY <1>3
  <2> DEFINE zeros == {k \in DOMAIN PaddedFrom(old) : PaddedFrom(old)[k] = Zero}
  <2>2. zeros = n..top-1
    <3>1. \A k \in 0..top-1 : (IF k < n THEN k ELSE Zero) = Zero <=> k \in n..top-1
      BY DEF Zero
    <3>2. n..top-1 \subseteq 0..top-1
      OBVIOUS
    <3> QED
      BY <1>4, <1>5, <2>1, <3>1, <3>2
  <2>4. top >= 2 * n
    BY <1>3, <2>1
  <2>5. ~(n > top - 1) /\ top - 1 - n + 1 >= n /\ n \in Int /\ top - 1 \in Int
    BY <2>4
  <2>3. Cardinality(n..top-1) = top - 1 - n + 1
    BY <2>5, FS_Interval
  <2> HIDE DEF zeros
  <2>6. Cardinality(zeros) >= n
    BY <2>2, <2>3, <2>5
  <2> QED
    BY <2>6 DEF zeros
<1> QED
  BY <1>1, <1>4, <1>5, <1>6

(* A filterer in use has its own ramp filter, whatever the others do, and   *)
(* transforms its row padded with at least as many zeros: for every width   *)
(* that the powers of two considered (Exponents) reach.                     *)
THEOREM FiltererIsRight ==
  (\A n \in Widths : n <= 32768) => (FiltererSpec => []FilteringIsRight)
<1> SUFFICES ASSUME \A n \in Widths : n <= 32768
             PROVE  FiltererSpec => []FilteringIsRight
  OBVIOUS
<1>1. ASSUME Typed, AllAsPlanned
      PROVE  FilteringIsRight
  <2> SUFFICES ASSUME NEW w \in Workers
               PROVE
    /\ filterer[w] = "ready" =>
         ramp[w] = CASE setup.module = "convolution" -> "kernel"
                     [] setup.module # "convolution" /\ setup.smoothing -> "smoothed"
                     [] OTHER -> "spectrum"
    /\ filterer[w] = "failed" => setup.module = "convolution" /\ setup.smoothing
    /\ At(w, "filter") /\ (setup.module = "vdsp" => setup.width % 2 = 0) =>
         /\ Cardinality({k \in DOMAIN row[w] : row[w][k] = Zero}) >= setup.width
         /\ \A k \in DOMAIN row[w] :
              row[w][k] = IF k < setup.width THEN k ELSE Zero
    BY DEF FilteringIsRight
  <2>1. AsPlanned(w)
    BY <1>1 DEF AllAsPlanned
  <2>2. setup \in Setups /\ setup.width \in Nat \ {0} /\ setup.width <= 32768
    <3>1. setup \in Setups
      BY <1>1 DEF Typed
    <3>2. setup.width \in Widths
      BY <3>1, WidthIsPositive
    <3>3. setup.width \in Nat \ {0}
      BY <3>1, WidthIsPositive
    <3>4. setup.width <= 32768
      BY <3>2
    <3> QED
      BY <3>1, <3>3, <3>4
  <2>3. filterer[w] = "ready" =>
          ramp[w] = CASE setup.module = "convolution" -> "kernel"
                      [] setup.module # "convolution" /\ setup.smoothing -> "smoothed"
                      [] OTHER -> "spectrum"
    BY <2>1 DEF AsPlanned, FinalRamp
  <2>4. filterer[w] = "failed" => setup.module = "convolution" /\ setup.smoothing
    BY <2>1 DEF AsPlanned
  <2>5. ASSUME At(w, "filter"), setup.module = "vdsp" => setup.width % 2 = 0
        PROVE  /\ Cardinality({k \in DOMAIN row[w] : row[w][k] = Zero}) >= setup.width
               /\ \A k \in DOMAIN row[w] :
                    row[w][k] = IF k < setup.width THEN k ELSE Zero
    <3>1. Filtering(w)
      <4>1. Typed /\ At(w, "filter")
        BY <1>1, <2>5
      <4> QED
        BY <2>1, <4>1, WhereFiltering
    <3>2. PICK old : row[w] = PaddedFrom(old)
      BY <3>1 DEF Filtering
    <3>3. setup.module # "convolution"
      BY <3>1 DEF Filtering
    <3> QED
      BY <2>2, <2>5, <3>2, <3>3, RowIsPadded
  <2> QED
    BY <2>3, <2>4, <2>5
<1> QED
  BY <1>1, FilterersAsPlanned, PTL

-----------------------------------------------------------------------------
(* The filters                                                              *)

(* The kernel at a distance that is less than half its length, from either  *)
(* end.                                                                     *)
LEMMA KernelNearZero ==
  ASSUME NEW L \in Nat, NEW d \in Nat, 2 * d < L - 1, L > 1
  PROVE  LET value == IF d = 0 THEN Centre ELSE IF d % 2 = 1 THEN d ELSE 0
         IN  /\ RampKernel(L)[d] = value
             /\ d > 0 => RampKernel(L)[L - d] = value
<1> DEFINE odd == {i \in 1 .. L \div 2 : i % 2 = 1}
<1>1. d \in 0..L-1 /\ d <= L \div 2 /\ (d > 0 => L - d \in 0..L-1 /\ L - d > L \div 2)
  OBVIOUS
<1>2. \A k \in 0..L-1 :
        RampKernel(L)[k] = IF k = 0 THEN Centre ELSE IF k \in odd THEN k
                           ELSE IF L - k \in odd THEN L - k ELSE 0
  BY DEF RampKernel
<1>3. d \in odd <=> d > 0 /\ d % 2 = 1
  BY <1>1
<1>4. d > 0 => L - d \notin odd /\ L - d # 0 /\ L - (L - d) = d
  BY <1>1
<1> HIDE DEF odd
<1> QED
  BY <1>1, <1>2, <1>3, <1>4

LEMMA RemainderOf ==
  ASSUME NEW L \in Nat, L > 0, NEW d \in Int, -L < d, d < L
  PROVE  d % L = IF d >= 0 THEN d ELSE d + L
OBVIOUS

(* No column meets another round the ends of the transform.                 *)
LEMMA NoneGoesRound ==
  ASSUME NEW module \in {"convolution", "fftw", "vdsp"},
         NEW width \in Nat \ {0}, width <= 32768
  PROVE  \A p \in DOMAIN RowWeights(module, width) :
           LET distance == Abs(p[1] - p[2])
           IN  RowWeights(module, width)[p] =
                 IF distance = 0 THEN Centre
                 ELSE IF distance % 2 = 1 THEN distance ELSE 0
<1>1. PICK L \in Nat : L = FilterLength(module, width) /\ L >= 2 * width
  <2>1. CASE module = "convolution"
    <3>1. FilterLength(module, width) = 2 * width
      BY <2>1 DEF FilterLength
    <3> QED
      BY <3>1
  <2>2. CASE module = "fftw"
    BY <2>2, TransformsAreLong
  <2>3. CASE module = "vdsp"
    <3>1. PICK half \in Nat : FilterLength("vdsp", width) = 2 * half /\ half >= width
      BY TransformsAreLong
    <3> QED
      BY <2>3, <3>1
  <2> QED
    BY <2>1, <2>2, <2>3
<1>2. PICK n \in Int : /\ n = IF module = "vdsp" THEN 2 * (width \div 2) ELSE width
                      /\ n <= width
  OBVIOUS
<1>3. PICK kernel : kernel = RampKernel(L)
  OBVIOUS
<1>4. /\ DOMAIN RowWeights(module, width) = (0..n-1) \X (0..n-1)
      /\ \A p \in (0..n-1) \X (0..n-1) : RowWeights(module, width)[p] =
           kernel[IF module # "convolution" THEN (p[1] - p[2]) % L
                  ELSE IF p[1] >= p[2] THEN p[1] - p[2] ELSE p[2] - p[1]]
  BY <1>1, <1>2, <1>3 DEF RowWeights
<1> SUFFICES ASSUME NEW i \in 0..n-1, NEW j \in 0..n-1
             PROVE  LET distance == Abs(i - j)
                    IN  RowWeights(module, width)[<<i, j>>] =
                          IF distance = 0 THEN Centre
                          ELSE IF distance % 2 = 1 THEN distance ELSE 0
  BY <1>4
<1>5. PICK d \in Nat : d = Abs(i - j)
  <2>1. Abs(i - j) \in Nat
    <3>1. \A x \in Int : Abs(x) \in Nat
      BY DEF Abs
    <3>2. i - j \in Int
      OBVIOUS
    <3> QED
      BY <3>1, <3>2
  <2> QED
    BY <2>1
<1>6. /\ i >= j => i - j = d
      /\ i < j => i - j = -d /\ j - i = d /\ d > 0
      /\ d < width
  BY <1>2, <1>5 DEF Abs
<1>7. 2 * d < L - 1 /\ L > 1 /\ L > 0 /\ -L < i - j /\ i - j < L
  BY <1>1, <1>6
<1>8. LET value == IF d = 0 THEN Centre ELSE IF d % 2 = 1 THEN d ELSE 0
      IN  kernel[d] = value /\ (d > 0 => kernel[L - d] = value)
  BY <1>3, <1>7, KernelNearZero
<1>9. RowWeights(module, width)[<<i, j>>] =
           kernel[IF module # "convolution" THEN (i - j) % L
                  ELSE IF i >= j THEN i - j ELSE j - i]
  BY <1>4
<1>10. (i - j) % L = IF i >= j THEN d ELSE L - d
  <2>1. i - j \in Int /\ (i - j >= 0 <=> i >= j)
    OBVIOUS
  <2>2. (i - j) % L = IF i - j >= 0 THEN i - j ELSE (i - j) + L
    BY <1>7, <2>1, RemainderOf
  <2> QED
    BY <1>6, <2>1, <2>2
<1>11. CASE i >= j
  BY <1>5, <1>6, <1>8, <1>9, <1>10, <1>11
<1>12. CASE i < j
  BY <1>5, <1>6, <1>8, <1>9, <1>10, <1>12
<1> QED
  BY <1>11, <1>12

LEMMA MinOfTwo ==
  ASSUME NEW a \in Nat, NEW b \in Nat
  PROVE  Min({a, b}) = IF a <= b THEN a ELSE b
<1>1. Min({a, b}) \in {a, b}
  BY MinIsIn
<1>2. \E x \in {a, b} : \A y \in {a, b} : x <= y
  OBVIOUS
<1>3. \A y \in {a, b} : Min({a, b}) <= y
  BY <1>2 DEF Min
<1> QED
  BY <1>1, <1>3

(* Half the length is no frequency of its own: the last loop has come to it.*)
LEMMA WindowTapers ==
  ASSUME NEW N \in Nat, N >= 2, NEW f1 \in Nat, NEW f2 \in Nat,
         f1 < f2, f2 <= 8
  PROVE  \A k \in DOMAIN TaperedCosineWindow(N, f1, f2, 8) :
           LET half == N \div 2
               f    == Min({k, N - k})
           IN  TaperedCosineWindow(N, f1, f2, 8)[k] =
                 IF 8 * f <= f1 * half THEN Centre
                 ELSE IF 8 * f >= f2 * half THEN 0 ELSE f
<1>1. PICK half \in Nat : half = N \div 2 /\ half > 0
  OBVIOUS
<1>2. PICK a \in Nat : a = f1 * half /\ a < 8 * half
  <2>1. f1 * half \in Nat /\ f1 * half < 8 * half
    BY <1>1
  <2> QED
    BY <2>1
<1>3. PICK b \in Nat : b = f2 * half /\ b <= 8 * half
  <2>1. f2 * half \in Nat /\ f2 * half <= 8 * half
    BY <1>1
  <2> QED
    BY <2>1
<1> DEFINE flat    == {i \in 1 .. half - 1 : i * 8 <= a}
           tapered == {i \in 1 .. half - 1 : i * 8 < b} \ flat
           at(i)   == IF i = 0 \/ i \in flat THEN Centre ELSE IF i \in tapered THEN i ELSE 0
<1>4. TaperedCosineWindow(N, f1, f2, 8) =
        [k \in 0 .. N - 1 |-> at(IF k <= half THEN k ELSE N - k)]
  BY <1>1, <1>2, <1>3 DEF TaperedCosineWindow
<1>5. ASSUME NEW i \in 0..half
      PROVE  at(i) = IF 8 * i <= a THEN Centre ELSE IF 8 * i >= b THEN 0 ELSE i
  <2>1. i = 0 \/ i = half \/ i \in 1..half - 1
    OBVIOUS
  <2>2. CASE i = 0
    BY <2>2
  <2>3. CASE i = half
    <3>1. i # 0 /\ i \notin 1..half - 1 /\ 8 * i > a /\ 8 * i >= b /\ ~(8 * i <= a)
      BY <1>1, <1>2, <1>3, <2>3
    <3> QED
      BY <3>1
  <2>4. CASE i \in 1..half - 1
    <3>1. i # 0 /\ (i \in flat <=> 8 * i <= a)
      BY <2>4
    <3>2. i \in tapered <=> 8 * i < b /\ ~(8 * i <= a)
      BY <2>4, <3>1
    <3>3. 8 * i < b <=> ~(8 * i >= b)
      BY <2>4
    <3> HIDE DEF flat, tapered
    <3> QED
      BY <3>1, <3>2, <3>3
  <2> QED
    BY <2>1, <2>2, <2>3, <2>4
<1> HIDE DEF at
<1> SUFFICES ASSUME NEW k \in 0 .. N - 1
             PROVE  TaperedCosineWindow(N, f1, f2, 8)[k] =
                      IF 8 * Min({k, N - k}) <= f1 * (N \div 2) THEN Centre
                      ELSE IF 8 * Min({k, N - k}) >= f2 * (N \div 2) THEN 0
                      ELSE Min({k, N - k})
  BY <1>4
<1>6. PICK i \in 0..half : i = IF k <= half THEN k ELSE N - k
  <2>1. k \in Nat /\ k < N /\ N <= 2 * half + 1
    BY <1>1
  <2>2. CASE k <= half
    BY <2>1, <2>2
  <2>3. CASE ~(k <= half)
    <3>1. N - k \in 0..half
      BY <2>1, <2>3
    <3> QED
      BY <2>3, <3>1
  <2> QED
    BY <2>2, <2>3
<1>7. Min({k, N - k}) = i
  <2>1. N - k \in Nat /\ i = IF k <= N - k THEN k ELSE N - k
    BY <1>1, <1>6
  <2> QED
    BY <2>1, MinOfTwo
<1>8. TaperedCosineWindow(N, f1, f2, 8)[k] = at(i)
  BY <1>4, <1>6
<1> QED
  BY <1>1, <1>2, <1>3, <1>5, <1>7, <1>8

(* The calls that the runs make, for inputs of any size.                    *)
FiltersAnyRow ==
  \E module \in {"convolution", "fftw", "vdsp"}, width \in Nat \ {0} :
    /\ width <= 32768
    /\ Called([name |-> "filterRow", module |-> module, width |-> width],
              RowWeights(module, width))

MakesAnyWindow ==
  \E N \in Nat, f1 \in Nat, f2 \in Nat :
    /\ N >= 2 /\ f1 < f2 /\ f2 <= 8
    /\ Called([name |-> "window", length |-> N, f1 |-> f1, f2 |-> f2],
              TaperedCosineWindow(N, f1, f2, 8))

ChoosesAnyLength ==
  \E n \in Nat \ {0} :
    /\ Reached(n)
    /\ Called([name |-> "fftLength", n |-> n], NextNumberWithFactors2And3(n))

FilterCallsSpec ==
  CallsInit /\ [][FiltersAnyRow \/ MakesAnyWindow \/ ChoosesAnyLength]_<<call, result>>

(* Whatever the module and the width, rows are convolved with the ramp      *)
(* filter of a row without end; whatever its length and limits, the window  *)
(* is as its comment says; and lengths of transforms are the least that     *)
(* their comment allows.                                                    *)
THEOREM AnyFilterIsRight == FilterCallsSpec => []FiltersAreRight
<1>1. CallsInit => FiltersAreRight
  BY DEF CallsInit, NoCall, FiltersAreRight, LengthsAreLeast, RowsAreConvolved,
         WindowIsTapered
<1>2. ASSUME FiltersAreRight, UNCHANGED <<call, result>>
      PROVE  FiltersAreRight'
  BY <1>2 DEF FiltersAreRight, LengthsAreLeast, RowsAreConvolved, WindowIsTapered
<1>3. ASSUME FiltersAnyRow
      PROVE  FiltersAreRight'
  <2>1. PICK module \in {"convolution", "fftw", "vdsp"}, width \in Nat \ {0} :
          /\ width <= 32768
          /\ call' = [name |-> "filterRow", module |-> module, width |-> width]
          /\ result' = RowWeights(module, width)
    BY <1>3 DEF FiltersAnyRow, Called
  <2>2. RowsAreConvolved'
    BY <2>1, NoneGoesRound DEF RowsAreConvolved, Abs
  <2> QED
    BY <2>1, <2>2 DEF FiltersAreRight, LengthsAreLeast, WindowIsTapered
<1>4. ASSUME MakesAnyWindow
      PROVE  FiltersAreRight'
  <2>1. PICK N \in Nat, f1 \in Nat, f2 \in Nat :
          /\ N >= 2 /\ f1 < f2 /\ f2 <= 8
          /\ call' = [name |-> "window", length |-> N, f1 |-> f1, f2 |-> f2]
          /\ result' = TaperedCosineWindow(N, f1, f2, 8)
    BY <1>4 DEF MakesAnyWindow, Called
  <2>2. /\ call'.name = "window" /\ call'.length = N
        /\ call'.f1 = f1 /\ call'.f2 = f2
    BY <2>1
  <2>3. WindowIsTapered'
    BY <2>1, <2>2, WindowTapers DEF WindowIsTapered
  <2> QED
    BY <2>2, <2>3 DEF FiltersAreRight, LengthsAreLeast, RowsAreConvolved
<1>5. ASSUME ChoosesAnyLength
      PROVE  FiltersAreRight'
  <2>1. PICK n \in Nat \ {0} :
          /\ Reached(n)
          /\ call' = [name |-> "fftLength", n |-> n]
          /\ result' = NextNumberWithFactors2And3(n)
    BY <1>5 DEF ChoosesAnyLength, Called
  <2>2. call'.name = "fftLength" /\ call'.n = n
    BY <2>1
  <2>3. LengthsAreLeast'
    BY <2>1, <2>2, LengthIsLeast DEF LengthsAreLeast
  <2> QED
    BY <2>2, <2>3 DEF FiltersAreRight, RowsAreConvolved, WindowIsTapered
<1> QED
  BY <1>1, <1>2, <1>3, <1>4, <1>5, PTL DEF FilterCallsSpec

-----------------------------------------------------------------------------
(* Bad pixels: the walk in closed form                                      *)

(* The i-th place on the square of radius r, for r greater than 1, and the  *)
(* number of steps before that square.                                      *)
RoundAt(r, i) ==
  IF i <= 2 * r THEN <<r, i - r>>
  ELSE IF i <= 4 * r THEN <<3 * r - i, r>>
  ELSE IF i <= 6 * r THEN <<-r, 5 * r - i>>
  ELSE <<i - 7 * r, -r>>

Before(r) == 4 * (r * (r - 1))

(* Step k of a walk is the i-th on the square of radius r.                  *)
Turns(k, r, i) == r \in Nat \ {0} /\ i \in 1 .. 8 * r /\ k = Before(r) + i

Place(r, i) == [at |-> IF r = 1 THEN FirstSteps[i] ELSE RoundAt(r, i), radius |-> r]

Spot(k) == CHOOSE s : \E r \in Nat \ {0}, i \in Nat : Turns(k, r, i) /\ s = Place(r, i)

LEMMA BeforeNext ==
  ASSUME NEW r \in Nat \ {0}
  PROVE  Before(r) \in Nat /\ Before(r + 1) = Before(r) + 8 * r
<1>1. r * (r - 1) \in Nat
  OBVIOUS
<1>2. (r + 1) * r = r * (r - 1) + 2 * r
  OBVIOUS
<1> QED
  BY <1>1, <1>2 DEF Before

LEMMA BeforeGrows ==
  ASSUME NEW q \in Nat \ {0}, NEW r \in Nat, q < r
  PROVE  Before(q) + 8 * q <= Before(r)
<1>1. PICK d \in Nat : r = q + 1 + d
  <2>1. r = q + 1 + (r - (q + 1)) /\ r - (q + 1) \in Nat
    OBVIOUS
  <2> QED
    BY <2>1
<1>2. (q + 1 + d) * (q + d) = (q + 1) * q + d * (q + d + q + 1)
  OBVIOUS
<1>3. d * (q + d + q + 1) \in Nat
  OBVIOUS
<1>4. Before(q + 1) <= Before(r)
  <2>1. r * (r - 1) = (q + 1) * q + d * (q + d + q + 1)
    <3>1. r - 1 = q + d
      BY <1>1
    <3> QED
      BY <1>1, <1>2, <3>1
  <2>2. PICK u \in Nat, w \in Nat : u = (q + 1) * q /\ w = d * (q + d + q + 1)
    BY <1>3
  <2>3. (q + 1) - 1 = q
    OBVIOUS
  <2>4. Before(r) = 4 * (u + w) /\ Before(q + 1) = 4 * u
    BY <2>1, <2>2, <2>3 DEF Before
  <2> QED
    BY <2>2, <2>4
<1> QED
  BY <1>4, BeforeNext

(* Every step is somewhere on some square.                                  *)
LEMMA HasTurn ==
  \A k \in Nat \ {0} : \E r \in Nat \ {0}, i \in Nat : Turns(k, r, i)
<1> DEFINE T == {k \in Nat \ {0} : \A r \in Nat \ {0}, i \in Nat : ~Turns(k, r, i)}
<1>1. SUFFICES ASSUME T # {} PROVE FALSE
  OBVIOUS
<1>2. PICK k \in T : \A l \in T : k <= l
  <2>1. T \in SUBSET Nat
    OBVIOUS
  <2> HIDE DEF T
  <2> QED
    BY <1>1, <2>1, LeastNatural
<1>3. CASE k = 1
  <2>1. Before(1) = 0
    BY DEF Before
  <2>2. Turns(1, 1, 1)
    BY <2>1 DEF Turns
  <2> QED
    BY <1>3, <2>2
<1>4. CASE k # 1
  <2>1. k - 1 \in Nat \ {0} /\ k - 1 \notin T
    <3>1. k \in Nat \ {0}
      OBVIOUS
    <3>2. k - 1 < k
      BY <3>1
    <3> HIDE DEF T
    <3> QED
      BY <1>2, <1>4, <3>1, <3>2
  <2>2. PICK r \in Nat \ {0}, i \in Nat : Turns(k - 1, r, i)
    BY <2>1
  <2>3. PICK b \in Nat : b = Before(r) /\ Before(r + 1) = b + 8 * r
    BY BeforeNext
  <2>4. k \in Nat /\ k - 1 = b + i /\ i \in 1 .. 8 * r
    BY <2>2, <2>3 DEF Turns
  <2>5. CASE i < 8 * r
    <3>1. Turns(k, r, i + 1)
      BY <2>3, <2>4, <2>5 DEF Turns
    <3>2. i + 1 \in Nat
      OBVIOUS
    <3> QED
      BY <3>1, <3>2
  <2>6. CASE i = 8 * r
    <3>1. Turns(k, r + 1, 1)
      BY <2>3, <2>4, <2>6 DEF Turns
    <3>2. r + 1 \in Nat \ {0} /\ 1 \in Nat
      OBVIOUS
    <3> QED
      BY <3>1, <3>2
  <2> QED
    BY <2>4, <2>5, <2>6
<1> QED
  BY <1>3, <1>4

LEMMA TurnsGrow ==
  ASSUME NEW k \in Nat, NEW l \in Nat, k <= l
  PROVE  \A r, i, q, j : Turns(k, r, i) /\ Turns(l, q, j) => r <= q
<1>1. ASSUME NEW r, NEW i, NEW q, NEW j, Turns(k, r, i), Turns(l, q, j), q < r
      PROVE  FALSE
  <2>1. r \in Nat \ {0} /\ q \in Nat \ {0} /\ i \in 1 .. 8 * r /\ j \in 1 .. 8 * q
    BY <1>1 DEF Turns
  <2>2. PICK b \in Nat, c \in Nat : b = Before(r) /\ c = Before(q) /\ c + 8 * q <= b
    BY <1>1, <2>1, BeforeGrows, BeforeNext
  <2>3. k = b + i /\ l = c + j
    BY <1>1, <2>2 DEF Turns
  <2> QED
    BY <2>1, <2>2, <2>3
<1>2. \A r, i : Turns(k, r, i) => r \in Int
  BY DEF Turns
<1>3. \A q, j : Turns(l, q, j) => q \in Int
  BY DEF Turns
<1> QED
  BY <1>1, <1>2, <1>3

LEMMA SameTurn ==
  ASSUME NEW k \in Nat
  PROVE  \A r, i, q, j : Turns(k, r, i) /\ Turns(k, q, j) => r = q /\ i = j
<1>1. ASSUME NEW r, NEW i, NEW q, NEW j, Turns(k, r, i), Turns(k, q, j)
      PROVE  r = q /\ i = j
  <2>1. r <= q /\ q <= r
    BY <1>1, TurnsGrow
  <2>2. r \in Nat \ {0} /\ q \in Nat \ {0} /\ i \in Nat /\ j \in Nat
    BY <1>1 DEF Turns
  <2>3. r = q
    BY <2>1, <2>2
  <2>4. PICK b \in Nat : b = Before(r)
    BY <2>2, BeforeNext
  <2>5. k = b + i /\ k = b + j
    BY <1>1, <2>3, <2>4 DEF Turns
  <2> QED
    BY <2>2, <2>3, <2>5
<1> QED
  BY <1>1

LEMMA SpotIs ==
  ASSUME NEW k \in Nat
  PROVE  \A r, i : Turns(k, r, i) => Spot(k) = Place(r, i)
<1>1. ASSUME NEW r, NEW i, Turns(k, r, i)
      PROVE  Spot(k) = Place(r, i)
  <2>1. r \in Nat \ {0} /\ i \in Nat
    BY <1>1 DEF Turns
  <2>2. PICK q \in Nat \ {0}, j \in Nat : Turns(k, q, j) /\ Spot(k) = Place(q, j)
    BY <1>1, <2>1 DEF Spot
  <2> QED
    BY <1>1, <2>2, SameTurn
<1> QED
  BY <1>1

(* TakeStep leads from each place to the next.                              *)
LEMMA SpiralTurns ==
  ASSUME NEW r \in Nat \ {0}, NEW i \in 1 .. 8 * r
  PROVE  Spiral(r, RoundAt(r, i)[1], RoundAt(r, i)[2])
           = IF i = 8 * r THEN Place(r + 1, 1)
             ELSE [at |-> RoundAt(r, i + 1), radius |-> r]
<1>1. CASE i < 2 * r
  <2>1. RoundAt(r, i) = <<r, i - r>> /\ RoundAt(r, i + 1) = <<r, i - r + 1>>
    BY <1>1 DEF RoundAt
  <2>2. i - r # r /\ i - r # -r /\ i # 8 * r
    BY <1>1
  <2>3. Spiral(r, r, i - r) = [at |-> <<r, i - r + 1>>, radius |-> r]
    BY <2>2 DEF Spiral
  <2> QED
    BY <2>1, <2>2, <2>3
<1>2. CASE i = 2 * r
  <2>1. RoundAt(r, i) = <<r, r>> /\ RoundAt(r, i + 1) = <<r - 1, r>>
    BY <1>2 DEF RoundAt
  <2>2. i # 8 * r /\ -r # r
    BY <1>2
  <2>3. Spiral(r, r, r) = [at |-> <<r - 1, r>>, radius |-> r]
    BY <2>2 DEF Spiral
  <2> QED
    BY <2>1, <2>2, <2>3
<1>3. CASE 2 * r < i /\ i < 4 * r
  <2>1. PICK x \in Int : x = 3 * r - i
    <3>1. 3 * r - i \in Int
      OBVIOUS
    <3> QED
      BY <3>1
  <2>2. RoundAt(r, i) = <<x, r>> /\ RoundAt(r, i + 1) = <<x - 1, r>>
    BY <1>3, <2>1 DEF RoundAt
  <2>3. i # 8 * r /\ x # r /\ x # -r /\ -r # r
    BY <1>3, <2>1
  <2>4. Spiral(r, x, r) = [at |-> <<x - 1, r>>, radius |-> r]
    BY <2>3 DEF Spiral
  <2> QED
    BY <2>2, <2>3, <2>4
<1>4. CASE 4 * r <= i /\ i < 6 * r
  <2>1. PICK y \in Int : y = 5 * r - i
    <3>1. 5 * r - i \in Int
      OBVIOUS
    <3> QED
      BY <3>1
  <2>2. RoundAt(r, i) = <<-r, y>> /\ RoundAt(r, i + 1) = <<-r, y - 1>>
    <3>1. RoundAt(r, i) = <<-r, y>>
      BY <1>4, <2>1 DEF RoundAt
    <3>2. RoundAt(r, i + 1) = <<-r, y - 1>>
      BY <1>4, <2>1 DEF RoundAt
    <3> QED
      BY <3>1, <3>2
  <2>3. i # 8 * r /\ y # -r /\ -r # r
    BY <1>4, <2>1
  <2>4. Spiral(r, -r, y) = [at |-> <<-r, y - 1>>, radius |-> r]
    BY <2>3 DEF Spiral
  <2> QED
    BY <2>2, <2>3, <2>4
<1>5. CASE i = 6 * r
  <2>1. RoundAt(r, i) = <<-r, -r>> /\ RoundAt(r, i + 1) = <<-r + 1, -r>>
    BY <1>5 DEF RoundAt
  <2>2. i # 8 * r /\ -r # r
    BY <1>5
  <2>3. Spiral(r, -r, -r) = [at |-> <<-r + 1, -r>>, radius |-> r]
    BY <2>2 DEF Spiral
  <2> QED
    BY <2>1, <2>2, <2>3
<1>6. CASE 6 * r < i /\ i < 8 * r
  <2>1. PICK x \in Int : x = i - 7 * r
    OBVIOUS
  <2>2. RoundAt(r, i) = <<x, -r>> /\ RoundAt(r, i + 1) = <<x + 1, -r>>
    BY <1>6, <2>1 DEF RoundAt
  <2>3. i # 8 * r /\ x # r /\ x # -r /\ -r # r
    BY <1>6, <2>1
  <2>4. Spiral(r, x, -r) = [at |-> <<x + 1, -r>>, radius |-> r]
    BY <2>3 DEF Spiral
  <2> QED
    BY <2>2, <2>3, <2>4
<1>7. CASE i = 8 * r
  <2>1. RoundAt(r, i) = <<r, -r>>
    BY <1>7 DEF RoundAt
  <2>2. Place(r + 1, 1) = [at |-> <<r + 1, -r>>, radius |-> r + 1]
    BY DEF Place, RoundAt
  <2>3. Spiral(r, r, -r) = [at |-> <<r + 1, -r>>, radius |-> r + 1]
    <3>1. -r # r
      OBVIOUS
    <3> QED
      BY <3>1 DEF Spiral
  <2> QED
    BY <1>7, <2>1, <2>2, <2>3
<1> QED
  BY <1>1, <1>2, <1>3, <1>4, <1>5, <1>6, <1>7
Spots(k) == [j \in 1 .. k |-> Spot(j)]

LEMMA NextSpot ==
  ASSUME NEW k \in Nat
  PROVE  TakeStep(Spots(k)) = Spot(k + 1)
<1>1. Len(Spots(k)) = k /\ Spots(k) \in Seq({Spot(j) : j \in 1 .. k})
  BY DEF Spots
<1>2. CASE k < 8
  <2>1. Before(1) = 0
    BY DEF Before
  <2>2. Turns(k + 1, 1, k + 1)
    BY <1>2, <2>1 DEF Turns
  <2>3. Spot(k + 1) = Place(1, k + 1)
    BY <2>2, SpotIs
  <2> QED
    BY <1>1, <1>2, <2>3 DEF TakeStep, Place
<1>3. CASE k >= 8
  <2>1. Last(Spots(k)) = Spot(k)
    BY <1>1, <1>3 DEF Last, Spots
  <2>2. PICK r \in Nat \ {0}, i \in Nat : Turns(k, r, i)
    BY <1>3, HasTurn
  <2>3. i \in 1 .. 8 * r
    BY <2>2 DEF Turns
  <2>4. Spot(k) = [at |-> RoundAt(r, i), radius |-> r] /\ (r = 1 => i = 8)
    <3>1. Spot(k) = Place(r, i)
      BY <2>2, SpotIs
    <3>2. CASE r = 1
      <4>1. Before(1) = 0
        BY DEF Before
      <4>2. i = 8
        BY <1>3, <2>2, <3>2, <4>1 DEF Turns
      <4>3. RoundAt(1, 8) = <<1, -1>> /\ FirstSteps[8] = <<1, -1>>
        BY DEF RoundAt, FirstSteps
      <4> QED
        BY <3>1, <3>2, <4>2, <4>3 DEF Place
    <3> QED
      BY <3>1, <3>2 DEF Place
  <2>5. TakeStep(Spots(k)) = Spiral(r, RoundAt(r, i)[1], RoundAt(r, i)[2])
    BY <1>1, <1>3, <2>1, <2>4 DEF TakeStep
  <2>6. PICK b \in Nat : b = Before(r) /\ Before(r + 1) = b + 8 * r
    BY BeforeNext
  <2>7. k = b + i
    BY <2>2, <2>6 DEF Turns
  <2>8. CASE i = 8 * r
    <3>1. Turns(k + 1, r + 1, 1)
      BY <2>6, <2>7, <2>8 DEF Turns
    <3>2. Spot(k + 1) = Place(r + 1, 1)
      BY <3>1, SpotIs
    <3> QED
      BY <2>3, <2>5, <2>8, <3>2, SpiralTurns
  <2>9. CASE i # 8 * r
    <3>1. Turns(k + 1, r, i + 1)
      BY <2>3, <2>6, <2>7, <2>9 DEF Turns
    <3>2. Spot(k + 1) = Place(r, i + 1)
      BY <3>1, SpotIs
    <3>3. r # 1
      BY <2>4, <2>9
    <3>4. Place(r, i + 1) = [at |-> RoundAt(r, i + 1), radius |-> r]
      BY <3>3 DEF Place
    <3> QED
      BY <2>3, <2>5, <2>9, <3>2, <3>4, SpiralTurns
  <2> QED
    BY <2>8, <2>9
<1> QED
  BY <1>2, <1>3

LEMMA MaximumOfPair ==
  ASSUME NEW a \in Nat, NEW b \in Nat
  PROVE  Max({a, b}) = IF a >= b THEN a ELSE b
<1>1. Max({a, b}) = CHOOSE m \in {a, b} : \A y \in {a, b} : m >= y
  BY DEF Max
<1>2. \E m \in {a, b} : \A y \in {a, b} : m >= y
  OBVIOUS
<1>3. Max({a, b}) \in {a, b} /\ \A y \in {a, b} : Max({a, b}) >= y
  BY <1>1, <1>2
<1> QED
  BY <1>3

(* An image, and a place in it.                                             *)
Sizes == (Nat \ {0}) \X (Nat \ {0})

LEMMA EnoughIs ==
  ASSUME NEW dims \in Sizes
  PROVE  \E m \in Nat \ {0} :
           /\ dims[1] <= m /\ dims[2] <= m
           /\ m \in {dims[1], dims[2]}
           /\ Enough(dims) = Before(m) + 8 * m
<1>1. dims[1] \in Nat \ {0} /\ dims[2] \in Nat \ {0}
  BY DEF Sizes
<1>2. PICK m \in Nat \ {0} : m = Max({dims[1], dims[2]})
  BY <1>1, MaximumOfPair
<1>3. dims[1] <= m /\ dims[2] <= m /\ m \in {dims[1], dims[2]}
  BY <1>1, <1>2, MaximumOfPair
<1>4. (2 * m + 1) * (2 * m + 1) - 1 = 4 * (m * (m - 1)) + 8 * m
  OBVIOUS
<1>5. Enough(dims) = Before(m) + 8 * m
  BY <1>2, <1>4 DEF Enough, Before
<1> QED
  BY <1>3, <1>5

(* What a walk is computed by.                                              *)
Takes(f, n) ==
  f = [k \in 0 .. n |-> IF k = 0 THEN <<>> ELSE LET before == f[k - 1]
                                                 IN  Append(before, TakeStep(before))]

LEMMA TakenIs ==
  ASSUME NEW n \in Nat
  PROVE  (CHOOSE f : Takes(f, n))[n] = Spots(n)
<1> DEFINE g == [k \in 0 .. n |-> Spots(k)]
<1>1. Takes(g, n)
  <2>1. ASSUME NEW k \in 0 .. n, k # 0
        PROVE  Spots(k) = Append(Spots(k - 1), TakeStep(Spots(k - 1)))
    <3>1. k - 1 \in Nat /\ (k - 1) + 1 = k
      BY <2>1
    <3>2. TakeStep(Spots(k - 1)) = Spot(k)
      BY <3>1, NextSpot
    <3>3. Append([j \in 1 .. k - 1 |-> Spot(j)], Spot(k)) = [j \in 1 .. k |-> Spot(j)]
      <4> DEFINE s == [j \in 1 .. k - 1 |-> Spot(j)]
      <4> DEFINE S == {Spot(j) : j \in 1 .. k}
      <4>1. s \in Seq(S) /\ Len(s) = k - 1
        BY <3>1
      <4> DEFINE t == Append(s, Spot(k))
      <4>2. Spot(k) \in S
        BY <3>1
      <4> HIDE DEF S
      <4>3. /\ t \in Seq(S) /\ Len(t) = k
            /\ \A j \in 1 .. k - 1 : t[j] = s[j]
            /\ t[k] = Spot(k)
        <5> HIDE DEF s
        <5> QED
          BY <3>1, <4>1, <4>2, AppendProperties
      <4> HIDE DEF t
      <4>4. t = [j \in 1 .. k |-> t[j]]
        BY <4>3
      <4>5. \A j \in 1 .. k : t[j] = Spot(j)
        <5>1. \A j \in 1 .. k : j = k \/ j \in 1 .. k - 1
          BY <3>1
        <5> QED
          BY <4>3, <5>1
      <4> QED
        BY Zenon, <4>4, <4>5 DEF t
    <3> QED
      BY <3>2, <3>3 DEF Spots
  <2>2. Spots(0) = <<>>
    BY DEF Spots
  <2>3. \A k \in 0 .. n : k # 0 => g[k - 1] = Spots(k - 1)
    OBVIOUS
  <2>4. \A k \in 0 .. n : g[k] = IF k = 0 THEN <<>> ELSE LET before == g[k - 1]
                                               IN  Append(before, TakeStep(before))
    BY Zenon, <2>1, <2>2, <2>3
  <2>5. g = [k \in 0 .. n |-> g[k]]
    BY Zenon
  <2> HIDE DEF g
  <2> QED
    BY Zenon, <2>4, <2>5 DEF Takes
<1> HIDE DEF g
<1> DEFINE f == CHOOSE f : Takes(f, n)
<1>2. Takes(f, n)
  BY Zenon, <1>1
<1> HIDE DEF f
<1>3. \A k \in 0 .. n : f[k] = IF k = 0 THEN <<>> ELSE LET before == f[k - 1]
                                             IN  Append(before, TakeStep(before))
  BY Zenon, <1>2 DEF Takes
<1>4. \A k \in 0 .. n : g[k] = IF k = 0 THEN <<>> ELSE LET before == g[k - 1]
                                             IN  Append(before, TakeStep(before))
  BY Zenon, <1>1 DEF Takes
<1> DEFINE D == {k \in 0 .. n : f[k] # g[k]}
<1>5. D = {}
  <2>1. SUFFICES ASSUME D # {} PROVE FALSE
    OBVIOUS
  <2>2. PICK k \in D : \A l \in D : k <= l
    <3>1. D \in SUBSET Nat
      OBVIOUS
    <3> HIDE DEF D
    <3> QED
      BY <2>1, <3>1, LeastNatural
  <2>3. k \in 0 .. n /\ f[k] # g[k]
    OBVIOUS
  <2>4. k # 0
    BY <1>3, <1>4, <2>3
  <2>5. k - 1 \in 0 .. n /\ ~(k <= k - 1)
    BY <2>3, <2>4
  <2>6. f[k - 1] = g[k - 1]
    BY <2>2, <2>5
  <2> QED
    BY Zenon, <1>3, <1>4, <2>3, <2>4, <2>6
<1>6. f[n] = g[n]
  BY <1>5
<1>7. g[n] = Spots(n)
  BY DEF g
<1> QED
  BY <1>6, <1>7 DEF f

(* The step of a walk from a place.                                         *)
Stop(start, k) == <<start[1] + Spot(k).at[1], start[2] + Spot(k).at[2]>>

LEMMA WalkIs ==
  ASSUME NEW dims \in Sizes, NEW start
  PROVE  Walk(dims, start) = [k \in 1 .. Enough(dims) |-> Stop(start, k)]
<1>1. Enough(dims) \in Nat
  BY EnoughIs, BeforeNext
<1> DEFINE steps == (CHOOSE f : Takes(f, Enough(dims)))[Enough(dims)]
<1>2. Walk(dims, start) = [k \in DOMAIN steps |->
                             <<start[1] + steps[k].at[1], start[2] + steps[k].at[2]>>]
  BY Zenon DEF Walk, Takes
<1>3. steps = Spots(Enough(dims))
  BY <1>1, TakenIs
<1> HIDE DEF steps
<1>4. DOMAIN steps = 1 .. Enough(dims) /\ \A k \in DOMAIN steps : steps[k] = Spot(k)
  BY <1>3 DEF Spots
<1> QED
  BY Zenon, <1>2, <1>4 DEF Stop

(* The places at distance r from the origin.                                *)
OnSquare(x, y, r) ==
  /\ -r <= x /\ x <= r /\ -r <= y /\ y <= r
  /\ x \in {r, -r} \/ y \in {r, -r}

LEMMA FirstSquare ==
  /\ \A i \in 1 .. 8 : FirstSteps[i] \in (-1 .. 1) \X (-1 .. 1) /\ FirstSteps[i] # <<0, 0>>
  /\ \A i \in 1 .. 8, j \in 1 .. 8 : FirstSteps[i] = FirstSteps[j] => i = j
  /\ \A x \in -1 .. 1, y \in -1 .. 1 :
       <<x, y>> # <<0, 0>> => \E i \in 1 .. 8 : FirstSteps[i] = <<x, y>>
<1>1. /\ FirstSteps[1] = <<1, 0>> /\ FirstSteps[2] = <<0, 1>>
      /\ FirstSteps[3] = <<-1, 0>> /\ FirstSteps[4] = <<0, -1>>
      /\ FirstSteps[5] = <<1, 1>> /\ FirstSteps[6] = <<-1, 1>>
      /\ FirstSteps[7] = <<-1, -1>> /\ FirstSteps[8] = <<1, -1>>
  BY DEF FirstSteps
<1>2. 1 .. 8 = {1, 2, 3, 4, 5, 6, 7, 8} /\ -1 .. 1 = {-1, 0, 1}
  OBVIOUS
<1>3. \A i \in 1 .. 8 : FirstSteps[i] \in (-1 .. 1) \X (-1 .. 1) /\ FirstSteps[i] # <<0, 0>>
  BY <1>1, <1>2
<1>4. \A i \in 1 .. 8, j \in 1 .. 8 : FirstSteps[i] = FirstSteps[j] => i = j
  BY <1>1, <1>2
<1>5. \A x \in -1 .. 1, y \in -1 .. 1 :
        <<x, y>> # <<0, 0>> => \E i \in 1 .. 8 : FirstSteps[i] = <<x, y>>
  BY <1>1, <1>2
<1> QED
  BY <1>3, <1>4, <1>5

LEMMA PlaceOnSquare ==
  ASSUME NEW r \in Nat \ {0}, NEW i \in 1 .. 8 * r
  PROVE  \E x \in Int, y \in Int : Place(r, i).at = <<x, y>> /\ OnSquare(x, y, r)
<1>1. CASE r = 1
  <2>1. FirstSteps[i] \in (-1 .. 1) \X (-1 .. 1) /\ FirstSteps[i] # <<0, 0>>
    BY <1>1, FirstSquare
  <2>2. PICK x \in -1 .. 1, y \in -1 .. 1 : FirstSteps[i] = <<x, y>>
    BY <2>1
  <2>3. OnSquare(x, y, r)
    BY <1>1, <2>1, <2>2 DEF OnSquare
  <2>4. Place(r, i).at = <<x, y>>
    BY <1>1, <2>2 DEF Place
  <2> QED
    BY <2>3, <2>4
<1>2. CASE r # 1
  <2>1. Place(r, i).at = RoundAt(r, i)
    BY <1>2 DEF Place
  <2>2. CASE i <= 2 * r
    <3>1. OnSquare(r, i - r, r) /\ i - r \in Int /\ r \in Int
      BY <2>2 DEF OnSquare
    <3> QED
      BY <2>1, <2>2, <3>1 DEF RoundAt
  <2>3. CASE 2 * r < i /\ i <= 4 * r
    <3>1. OnSquare(3 * r - i, r, r) /\ 3 * r - i \in Int /\ r \in Int
      BY <2>3 DEF OnSquare
    <3> QED
      BY <2>1, <2>3, <3>1 DEF RoundAt
  <2>4. CASE 4 * r < i /\ i <= 6 * r
    <3>1. OnSquare(-r, 5 * r - i, r) /\ 5 * r - i \in Int /\ -r \in Int
      BY <2>4 DEF OnSquare
    <3> QED
      BY <2>1, <2>4, <3>1 DEF RoundAt
  <2>5. CASE 6 * r < i
    <3>1. OnSquare(i - 7 * r, -r, r) /\ i - 7 * r \in Int /\ -r \in Int
      BY <2>5 DEF OnSquare
    <3> QED
      BY <2>1, <2>5, <3>1 DEF RoundAt
  <2> QED
    BY <2>2, <2>3, <2>4, <2>5
<1> QED
  BY <1>1, <1>2

LEMMA PlaceOnce ==
  ASSUME NEW r \in Nat \ {0}, NEW i \in 1 .. 8 * r, NEW j \in 1 .. 8 * r,
         Place(r, i).at = Place(r, j).at
  PROVE  i = j
<1>1. CASE r = 1
  BY <1>1, FirstSquare DEF Place
<1>2. CASE r # 1
  <2>1. RoundAt(r, i)[1] = RoundAt(r, j)[1] /\ RoundAt(r, i)[2] = RoundAt(r, j)[2]
    BY <1>2 DEF Place
  <2> QED
    BY <2>1 DEF RoundAt
<1> QED
  BY <1>1, <1>2

LEMMA PlaceReaches ==
  ASSUME NEW r \in Nat \ {0}, NEW x \in Int, NEW y \in Int, OnSquare(x, y, r)
  PROVE  \E i \in 1 .. 8 * r : Place(r, i).at = <<x, y>>
<1>1. CASE r = 1
  <2>1. x \in -1 .. 1 /\ y \in -1 .. 1 /\ <<x, y>> # <<0, 0>>
    BY <1>1 DEF OnSquare
  <2>2. PICK i \in 1 .. 8 : FirstSteps[i] = <<x, y>>
    BY <2>1, FirstSquare
  <2> QED
    BY <1>1, <2>2 DEF Place
<1>2. CASE r # 1
  <2>1. \A i : Place(r, i).at = RoundAt(r, i)
    BY <1>2 DEF Place
  <2>2. CASE x = r /\ y # -r
    <3>1. y + r \in 1 .. 8 * r /\ y + r <= 2 * r /\ (y + r) - r = y
      BY <2>2 DEF OnSquare
    <3>2. RoundAt(r, y + r) = <<x, y>>
      BY <2>2, <3>1 DEF RoundAt
    <3> QED
      BY <2>1, <3>1, <3>2
  <2>3. CASE y = r /\ x # r
    <3>1. PICK i \in Int : i = 3 * r - x
      <4>1. 3 * r - x \in Int
        OBVIOUS
      <4> QED
        BY <4>1
    <3>2. i \in 1 .. 8 * r /\ 2 * r < i /\ i <= 4 * r /\ 3 * r - i = x
      BY <2>3, <3>1 DEF OnSquare
    <3>3. RoundAt(r, i) = <<x, y>>
      BY <2>3, <3>2 DEF RoundAt
    <3> QED
      BY <2>1, <3>2, <3>3
  <2>4. CASE x = -r /\ y # r
    <3>1. PICK i \in Int : i = 5 * r - y
      <4>1. 5 * r - y \in Int
        OBVIOUS
      <4> QED
        BY <4>1
    <3>2. i \in 1 .. 8 * r /\ 4 * r < i /\ i <= 6 * r /\ 5 * r - i = y
      BY <2>4, <3>1 DEF OnSquare
    <3>3. RoundAt(r, i) = <<x, y>>
      BY <2>4, <3>2 DEF RoundAt
    <3> QED
      BY <2>1, <3>2, <3>3
  <2>5. CASE y = -r /\ x # -r
    <3>1. PICK i \in Int : i = x + 7 * r
      <4>1. x + 7 * r \in Int
        OBVIOUS
      <4> QED
        BY <4>1
    <3>2. i \in 1 .. 8 * r /\ 6 * r < i /\ i - 7 * r = x
      BY <2>5, <3>1 DEF OnSquare
    <3>3. RoundAt(r, i) = <<x, y>>
      BY <2>5, <3>2 DEF RoundAt
    <3> QED
      BY <2>1, <3>2, <3>3
  <2> QED
    BY <2>2, <2>3, <2>4, <2>5 DEF OnSquare
<1> QED
  BY <1>1, <1>2

-----------------------------------------------------------------------------
(* The walk and distances                                                   *)

LEMMA DistanceIs ==
  ASSUME NEW from \in Int \X Int, NEW q \in Int \X Int
  PROVE  /\ Distance(from, q) \in Nat
         /\ \A r \in Nat :
              OnSquare(q[1] - from[1], q[2] - from[2], r) <=> Distance(from, q) = r
<1>1. PICK x \in Int, y \in Int : x = from[1] - q[1] /\ y = from[2] - q[2]
  OBVIOUS
<1>2. q[1] - from[1] = -x /\ q[2] - from[2] = -y
  BY <1>1
<1>3. Abs(x) \in Nat /\ Abs(y) \in Nat
  BY DEF Abs
<1>4. Distance(from, q) = IF Abs(x) >= Abs(y) THEN Abs(x) ELSE Abs(y)
  BY <1>1, <1>3, MaximumOfPair DEF Distance
<1>5. \A r \in Nat : OnSquare(-x, -y, r)
                       <=> r = IF Abs(x) >= Abs(y) THEN Abs(x) ELSE Abs(y)
  BY DEF OnSquare, Abs
<1> QED
  BY <1>2, <1>3, <1>4, <1>5

(* A walk gets to square r where it should.                                 *)
LEMMA StopIs ==
  ASSUME NEW from \in Int \X Int, NEW k \in Nat \ {0}
  PROVE  /\ Stop(from, k) \in Int \X Int
         /\ \E i \in Nat : Turns(k, Distance(from, Stop(from, k)), i)
<1>1. PICK r \in Nat \ {0}, i \in Nat : Turns(k, r, i)
  BY HasTurn
<1>2. Spot(k) = Place(r, i) /\ i \in 1 .. 8 * r
  BY <1>1, SpotIs DEF Turns
<1>3. PICK x \in Int, y \in Int : Spot(k).at = <<x, y>> /\ OnSquare(x, y, r)
  BY <1>2, PlaceOnSquare
<1>4. PICK a \in Int, b \in Int : from = <<a, b>>
  OBVIOUS
<1>5. Stop(from, k) = <<a + x, b + y>>
  BY <1>3, <1>4 DEF Stop
<1>6. (a + x) - a = x /\ (b + y) - b = y
  OBVIOUS
<1>7. Distance(from, Stop(from, k)) = r
  BY <1>3, <1>4, <1>5, <1>6, DistanceIs
<1> QED
  BY <1>1, <1>5, <1>7

LEMMA StopsOnce ==
  ASSUME NEW from \in Int \X Int, NEW k \in Nat \ {0}, NEW l \in Nat \ {0},
         Stop(from, k) = Stop(from, l)
  PROVE  k = l
<1>1. PICK r, i, j : Turns(k, r, i) /\ Turns(l, r, j)
  BY StopIs
<1>2. Spot(k) = Place(r, i) /\ Spot(l) = Place(r, j)
  BY <1>1, SpotIs
<1>3. r \in Nat \ {0} /\ i \in 1 .. 8 * r /\ j \in 1 .. 8 * r
  BY <1>1 DEF Turns
<1>4. PICK x \in Int, y \in Int : Spot(k).at = <<x, y>>
  BY <1>2, <1>3, PlaceOnSquare
<1>5. PICK u \in Int, v \in Int : Spot(l).at = <<u, v>>
  BY <1>2, <1>3, PlaceOnSquare
<1>6. PICK a \in Int, b \in Int : from = <<a, b>>
  OBVIOUS
<1>7. a + x = a + u /\ b + y = b + v
  BY <1>4, <1>5, <1>6 DEF Stop
<1>8. Spot(k).at = Spot(l).at
  BY <1>4, <1>5, <1>7
<1>9. i = j
  BY <1>2, <1>3, <1>8, PlaceOnce
<1> QED
  BY <1>1, <1>9 DEF Turns

(* It never comes nearer again.                                             *)
LEMMA StopsFarther ==
  ASSUME NEW from \in Int \X Int, NEW k \in Nat \ {0}, NEW l \in Nat, k <= l
  PROVE  Distance(from, Stop(from, k)) <= Distance(from, Stop(from, l))
<1>1. l \in Nat \ {0}
  OBVIOUS
<1> QED
  BY <1>1, StopIs, TurnsGrow

(* Every other place is reached before the walk has gone round the square   *)
(* that it is on.                                                           *)
LEMMA StopReaches ==
  ASSUME NEW from \in Int \X Int, NEW q \in Int \X Int, from # q
  PROVE  \E k \in Nat \ {0} :
           /\ Stop(from, k) = q
           /\ k <= Before(Distance(from, q)) + 8 * Distance(from, q)
<1>1. PICK r \in Nat :
        r = Distance(from, q) /\ OnSquare(q[1] - from[1], q[2] - from[2], r)
  BY DistanceIs
<1>2. PICK a \in Int, b \in Int : from = <<a, b>>
  OBVIOUS
<1>3. PICK c \in Int, d \in Int : q = <<c, d>>
  OBVIOUS
<1>4. PICK x \in Int, y \in Int : x = c - a /\ y = d - b
  OBVIOUS
<1>5. OnSquare(x, y, r)
  BY <1>1, <1>2, <1>3, <1>4
<1>6. r \in Nat \ {0}
  <2>1. ASSUME r = 0 PROVE FALSE
    <3>1. x = 0 /\ y = 0
      BY <1>5, <2>1 DEF OnSquare
    <3>2. c = a /\ d = b
      BY <1>4, <3>1
    <3> QED
      BY <1>2, <1>3, <3>2
  <2> QED
    BY <2>1
<1>7. PICK i \in 1 .. 8 * r : Place(r, i).at = <<x, y>>
  BY <1>5, <1>6, PlaceReaches
<1>8. PICK n \in Nat : n = Before(r)
  BY <1>6, BeforeNext
<1>9. Turns(n + i, r, i) /\ n + i \in Nat \ {0}
  BY <1>6, <1>8 DEF Turns
<1>10. Spot(n + i) = Place(r, i)
  BY <1>9, SpotIs
<1>11. Stop(from, n + i) = q
  BY <1>2, <1>3, <1>4, <1>7, <1>10 DEF Stop
<1>12. n + i <= n + 8 * r
  OBVIOUS
<1> QED
  BY <1>1, <1>8, <1>9, <1>11, <1>12

LEMMA LocationsAre ==
  ASSUME NEW dims \in Sizes
  PROVE  /\ Locations(dims) \subseteq Nat \X Nat
         /\ Locations(dims) \subseteq Int \X Int
         /\ \A x, y : <<x, y>> \in Locations(dims)
                        <=> x \in Nat /\ x < dims[1] /\ y \in Nat /\ y < dims[2]
BY DEF Locations, Sizes

(* The last square lies outside, and the walk does not give up before it    *)
(* has taken as many steps as there are pixels.                             *)
LEMMA LastIsOutside ==
  ASSUME NEW dims \in Sizes, NEW from \in Locations(dims)
  PROVE  /\ Enough(dims) \in Nat \ {0}
         /\ Patience(dims) \in Nat
         /\ Patience(dims) <= Enough(dims)
         /\ Stop(from, Enough(dims)) \notin Locations(dims)
<1>1. PICK d \in Nat \ {0}, e \in Nat \ {0} : dims = <<d, e>>
  BY DEF Sizes
<1>2. PICK m \in Nat \ {0} : d <= m /\ e <= m /\ Enough(dims) = Before(m) + 8 * m
  BY <1>1, EnoughIs
<1>3. PICK n \in Nat \ {0} : n = Before(m) + 8 * m
  BY BeforeNext
<1>4. Turns(n, m, 8 * m)
  BY <1>3, BeforeNext DEF Turns
<1>5. PICK a \in Nat, b \in Nat : from = <<a, b>> /\ a < d /\ b < e
  BY <1>1, LocationsAre
<1>6. from \in Int \X Int
  BY <1>5
<1>7. PICK x \in Int, y \in Int : Stop(from, n) = <<x, y>>
  BY <1>6, StopIs
<1>8. Distance(from, Stop(from, n)) = m
  BY <1>4, <1>6, StopIs, SameTurn
<1>9. OnSquare(x - a, y - b, m)
  <2>1. <<x, y>> \in Int \X Int
    OBVIOUS
  <2> QED
    BY <1>5, <1>6, <1>7, <1>8, <2>1, DistanceIs
<1>10. <<x, y>> \notin Locations(dims)
  <2>1. ASSUME x \in Nat, x < d, y \in Nat, y < e PROVE FALSE
    BY <1>2, <1>5, <1>9, <2>1 DEF OnSquare
  <2> QED
    BY <1>1, <2>1, LocationsAre
<1>11. d * e \in Nat /\ d * e <= n
  <2>1. d * e <= m * m
    <3>1. d * e <= d * m /\ d * m <= m * m
      BY <1>2
    <3>2. d * e \in Int /\ d * m \in Int /\ m * m \in Int
      OBVIOUS
    <3> QED
      BY <3>1, <3>2
  <2>2. 4 * (m * (m - 1)) + 8 * m = 4 * (m * m) + 4 * m
    OBVIOUS
  <2>3. n = 4 * (m * m) + 4 * m
    BY <1>3, <2>2 DEF Before
  <2>4. PICK u \in Nat, v \in Nat : u = d * e /\ v = m * m
    OBVIOUS
  <2> QED
    BY <2>1, <2>3, <2>4
<1> QED
  BY <1>1, <1>2, <1>3, <1>7, <1>10, <1>11 DEF Patience

(* As NeighborhoodWalker.hpp:32-34 promises, a walk comes to no place twice  *)
(* and never nearer again; and there is no place in the image that it does  *)
(* not come to, if it is not given up.                                      *)
THEOREM WalkGoesOutward ==
  ASSUME NEW dims \in Sizes, NEW from \in Locations(dims)
  PROVE  LET walk == Walk(dims, from) IN
         /\ \A k, l \in DOMAIN walk : walk[k] = walk[l] => k = l
         /\ \A k, l \in DOMAIN walk :
              k <= l => Distance(from, walk[k]) <= Distance(from, walk[l])
         /\ Locations(dims) \ {from} \subseteq Range(walk)
<1> DEFINE walk == Walk(dims, from)
           n == Enough(dims)
<1>1. DOMAIN walk = 1 .. n /\ \A k \in 1 .. n : walk[k] = Stop(from, k)
  BY WalkIs
<1>2. n \in Nat /\ from \in Int \X Int
  BY LastIsOutside, LocationsAre
<1>3. PICK m \in Nat \ {0} : dims[1] <= m /\ dims[2] <= m /\ n = Before(m) + 8 * m
  BY EnoughIs
<1> HIDE DEF walk, n
<1>4. \A k \in 1 .. n : k \in Nat \ {0} /\ k \in Nat
  BY <1>2
<1>5. \A k, l \in 1 .. n : Stop(from, k) = Stop(from, l) => k = l
  BY <1>2, <1>4, StopsOnce
<1>6. \A k, l \in 1 .. n :
        k <= l => Distance(from, Stop(from, k)) <= Distance(from, Stop(from, l))
  BY <1>2, <1>4, StopsFarther
<1>7. ASSUME NEW q \in Locations(dims) \ {from}
      PROVE  \E k \in 1 .. n : q = Stop(from, k)
  <2>1. q \in Int \X Int /\ from # q
    BY LocationsAre
  <2>2. PICK r \in Nat : r = Distance(from, q) /\ OnSquare(q[1] - from[1], q[2] - from[2], r)
    BY <1>2, <2>1, DistanceIs
  <2>3. PICK k \in Nat \ {0} : Stop(from, k) = q /\ k <= Before(r) + 8 * r
    BY <1>2, <2>1, <2>2, StopReaches
  <2>4. PICK d \in Nat \ {0}, e \in Nat \ {0} : dims = <<d, e>>
    BY DEF Sizes
  <2>5. PICK a \in Nat, b \in Nat : from = <<a, b>> /\ a < d /\ b < e
    BY <2>4, LocationsAre
  <2>6. PICK x \in Nat, y \in Nat : q = <<x, y>> /\ x < d /\ y < e
    BY <2>4, LocationsAre
  <2>7. OnSquare(x - a, y - b, r) /\ d <= m /\ e <= m
    BY <1>3, <2>2, <2>4, <2>5, <2>6
  <2>8. r < m
    BY <2>5, <2>6, <2>7 DEF OnSquare
  <2>9. r # 0
    <3>1. ASSUME r = 0 PROVE FALSE
      <4>1. x = a /\ y = b
        BY <2>7, <3>1 DEF OnSquare
      <4> QED
        BY <2>1, <2>5, <2>6, <4>1
    <3> QED
      BY <3>1
  <2>10. Before(r) + 8 * r <= Before(m) /\ Before(m) \in Nat /\ Before(r) \in Nat
    BY <2>8, <2>9, BeforeGrows, BeforeNext
  <2>11. k <= n
    BY <1>3, <2>3, <2>10
  <2> QED
    BY <1>2, <2>3, <2>11
<1>8. \A k \in 1 .. n : Stop(from, k) \in Range(walk)
  BY <1>1 DEF Range
<1>9. \A k, l \in DOMAIN walk : walk[k] = walk[l] => k = l
  BY <1>1, <1>5
<1>10. \A k, l \in DOMAIN walk :
         k <= l => Distance(from, walk[k]) <= Distance(from, walk[l])
  BY Zenon, <1>1, <1>6
<1>11. Locations(dims) \ {from} \subseteq Range(walk)
  BY <1>7, <1>8
<1> QED
  BY Zenon, <1>9, <1>10, <1>11 DEF walk

LEMMA ReturnedIs ==
  ASSUME NEW dims \in Sizes, NEW from \in Locations(dims)
  PROVE  \E g \in Nat :
           /\ Patience(dims) <= g /\ g <= Enough(dims)
           /\ Stop(from, g) \notin Locations(dims)
           /\ Returned(dims, Walk(dims, from))
                = {k \in 1 .. Enough(dims) : k < g /\ Stop(from, k) \in Locations(dims)}
<1> DEFINE walk == Walk(dims, from)
           n == Enough(dims)
           outside == {k \in DOMAIN walk : walk[k] \notin Locations(dims)}
           late == {k \in outside : k >= Patience(dims)}
           g == Min(late)
<1>1. DOMAIN walk = 1 .. n /\ \A k \in 1 .. n : walk[k] = Stop(from, k)
  BY WalkIs
<1>2. /\ n \in Nat \ {0} /\ Patience(dims) \in Nat /\ Patience(dims) <= n
      /\ Stop(from, n) \notin Locations(dims)
  BY LastIsOutside
<1>3. Returned(dims, walk) = {k \in DOMAIN walk : k < g} \ outside
  BY Zenon DEF Returned
<1> HIDE DEF walk, n
<1>4. late \in SUBSET Nat /\ n \in late
  BY <1>1, <1>2
<1>5. g \in late /\ g <= n
  <2> HIDE DEF late
  <2> QED
    BY <1>4, MinIsIn, MinIsLeast
<1>6. g \in 1 .. n /\ Patience(dims) <= g /\ Stop(from, g) \notin Locations(dims)
  <2> HIDE DEF g
  <2> QED
    BY <1>1, <1>2, <1>5
<1>7. Returned(dims, walk) = {k \in 1 .. n : k < g /\ Stop(from, k) \in Locations(dims)}
  <2> HIDE DEF g
  <2> QED
    BY <1>1, <1>3
<1> HIDE DEF g
<1> QED
  BY <1>5, <1>6, <1>7 DEF walk, n

LEMMA FirstFourIs ==
  ASSUME NEW steps \in SUBSET Nat, IsFiniteSet(steps), Cardinality(steps) >= 4
  PROVE  \E a, b, c, d \in steps :
           /\ a < b /\ b < c /\ c < d
           /\ \A k \in steps \ {a, b, c, d} : d < k
           /\ \A walk : FirstFour(walk, steps) = <<walk[a], walk[b], walk[c], walk[d]>>
<1>1. PICK n \in Nat : n = Cardinality(steps) /\ n >= 4
  BY FS_CardinalityType
<1> DEFINE a == Min(steps)
           S1 == steps \ {a}
           b == Min(S1)
           S2 == S1 \ {b}
           c == Min(S2)
           S3 == S2 \ {c}
           d == Min(S3)
<1>2. S1 = steps \ {a} /\ S2 = steps \ {a, b} /\ S3 = steps \ {a, b, c}
  OBVIOUS
<1>3. \A walk : FirstFour(walk, steps) = <<walk[a], walk[b], walk[c], walk[d]>>
  BY <1>2 DEF FirstFour
<1> HIDE DEF a, b, c, d
<1>4. \A T : IsFiniteSet(T) /\ Cardinality(T) > 0 => T # {}
  BY FS_EmptySet
<1>5. a \in steps /\ \A k \in steps : a <= k
  BY <1>1, <1>4, MinIsIn, MinIsLeast DEF a
<1>6. S1 \in SUBSET Nat /\ IsFiniteSet(S1) /\ Cardinality(S1) = n - 1
  BY <1>1, <1>5, FS_RemoveElement
<1> HIDE DEF S1
<1>7. b \in S1 /\ \A k \in S1 : b <= k
  BY <1>1, <1>4, <1>6, MinIsIn, MinIsLeast DEF b
<1>8. S2 \in SUBSET Nat /\ IsFiniteSet(S2) /\ Cardinality(S2) = n - 2
  BY <1>1, <1>6, <1>7, FS_RemoveElement
<1> HIDE DEF S2
<1>9. c \in S2 /\ \A k \in S2 : c <= k
  BY <1>1, <1>4, <1>8, MinIsIn, MinIsLeast DEF c
<1>10. S3 \in SUBSET Nat /\ IsFiniteSet(S3) /\ Cardinality(S3) = n - 3
  BY <1>1, <1>8, <1>9, FS_RemoveElement
<1> HIDE DEF S3
<1>11. d \in S3 /\ \A k \in S3 : d <= k
  BY <1>1, <1>4, <1>10, MinIsIn, MinIsLeast DEF d
<1>12. b \in steps /\ c \in steps /\ d \in steps
  BY <1>2, <1>7, <1>9, <1>11
<1>13. a < b /\ b < c /\ c < d
  <2>1. a <= b /\ b # a /\ b <= c /\ c # b /\ c <= d /\ d # c
    <3>1. c \in S1 /\ d \in S2
      BY <1>2, <1>9, <1>11
    <3> QED
      BY <1>2, <1>5, <1>7, <1>9, <1>11, <1>12, <3>1
  <2> QED
    BY <1>5, <1>12, <2>1
<1>14. \A k \in steps \ {a, b, c, d} : d < k
  <2>1. ASSUME NEW k \in steps \ {a, b, c, d} PROVE d < k
    <3>1. k \in S3 /\ k \in Nat /\ d \in Nat /\ k # d
      BY <1>2, <1>12
    <3>2. d <= k
      BY <1>11, <3>1
    <3> QED
      BY <3>1, <3>2
  <2> QED
    BY <2>1
<1> QED
  BY <1>3, <1>5, <1>12, <1>13, <1>14

LEMMA CardinalityOfFour ==
  ASSUME NEW a, NEW b, NEW c, NEW d,
         b # a, c \notin {a, b}, d \notin {a, b, c}
  PROVE  Cardinality({a, b, c, d}) = 4
<1>1. IsFiniteSet({a}) /\ Cardinality({a}) = 1
  BY FS_Singleton
<1>2. IsFiniteSet({a, b}) /\ Cardinality({a, b}) = 2
  <2>1. {a, b} = {a} \cup {b} /\ b \notin {a}
    OBVIOUS
  <2> QED
    BY <1>1, <2>1, FS_AddElement
<1>3. IsFiniteSet({a, b, c}) /\ Cardinality({a, b, c}) = 3
  <2>1. {a, b, c} = {a, b} \cup {c}
    OBVIOUS
  <2> QED
    BY <1>2, <2>1, FS_AddElement
<1>4. {a, b, c, d} = {a, b, c} \cup {d}
  OBVIOUS
<1> QED
  BY <1>3, <1>4, FS_AddElement

(* The steps to good places, for a bad pixel.                               *)
GoodSteps(dims, bads, from) ==
  {k \in Returned(dims, Walk(dims, from)) : Walk(dims, from)[k] \notin bads}

LEMMA GoodStepsAre ==
  ASSUME NEW dims \in Sizes, NEW bads, NEW from \in Locations(dims)
  PROVE  \E g \in Nat :
           /\ Patience(dims) <= g /\ g <= Enough(dims)
           /\ Stop(from, g) \notin Locations(dims)
           /\ GoodSteps(dims, bads, from)
                = {k \in 1 .. Enough(dims) :
                     k < g /\ Stop(from, k) \in Locations(dims) \ bads}
           /\ IsFiniteSet(GoodSteps(dims, bads, from))
<1>1. PICK g \in Nat :
        /\ Patience(dims) <= g /\ g <= Enough(dims)
        /\ Stop(from, g) \notin Locations(dims)
        /\ Returned(dims, Walk(dims, from))
             = {k \in 1 .. Enough(dims) : k < g /\ Stop(from, k) \in Locations(dims)}
  BY ReturnedIs
<1>2. \A k \in 1 .. Enough(dims) : Walk(dims, from)[k] = Stop(from, k)
  BY WalkIs
<1>3. GoodSteps(dims, bads, from)
        = {k \in 1 .. Enough(dims) : k < g /\ Stop(from, k) \in Locations(dims) \ bads}
  BY <1>1, <1>2 DEF GoodSteps
<1>4. IsFiniteSet(1 .. Enough(dims))
  <2>1. 1 \in Int /\ Enough(dims) \in Int
    BY LastIsOutside
  <2> QED
    BY <2>1, FS_Interval
<1>5. IsFiniteSet(GoodSteps(dims, bads, from))
  BY <1>3, <1>4, FS_Subset
<1> QED
  BY <1>1, <1>3, <1>5

(* What the table should have for a bad pixel.                              *)
GoodEntry(dims, bads, from, entry) ==
  LET good == Locations(dims) \ bads IN
  /\ DOMAIN entry = 1 .. 4
  /\ Range(entry) \subseteq good /\ Cardinality(Range(entry)) = 4
  /\ \A q \in good \ Range(entry) : \A r \in Range(entry) :
       Distance(from, q) >= Distance(from, r)

LEMMA EntryIsGood ==
  ASSUME NEW dims \in Sizes, NEW bads, NEW from \in Locations(dims), from \in bads,
         Cardinality(GoodSteps(dims, bads, from)) >= 4
  PROVE  GoodEntry(dims, bads, from,
                   FirstFour(Walk(dims, from), GoodSteps(dims, bads, from)))
<1> DEFINE steps == GoodSteps(dims, bads, from)
           good == Locations(dims) \ bads
           n == Enough(dims)
<1>1. PICK g \in Nat :
        /\ g <= n
        /\ steps = {k \in 1 .. n : k < g /\ Stop(from, k) \in good}
        /\ IsFiniteSet(steps)
  BY GoodStepsAre
<1>2. n \in Nat /\ from \in Int \X Int /\ good \subseteq Int \X Int
  BY LastIsOutside, LocationsAre
<1>3. \A k \in 1 .. n : Walk(dims, from)[k] = Stop(from, k)
  BY WalkIs
<1> HIDE DEF n, good
<1>4. steps \in SUBSET Nat /\ \A k \in steps : k \in Nat \ {0} /\ k \in 1 .. n
  <2> HIDE DEF steps
  <2> QED
    BY <1>1, <1>2
<1> HIDE DEF steps
<1>5. PICK a, b, c, d \in steps :
        /\ a < b /\ b < c /\ c < d
        /\ \A k \in steps \ {a, b, c, d} : d < k
        /\ \A walk : FirstFour(walk, steps) = <<walk[a], walk[b], walk[c], walk[d]>>
  <2>1. Cardinality(steps) >= 4
    BY DEF steps
  <2> QED
    BY <1>1, <1>4, <2>1, FirstFourIs
<1> DEFINE entry == FirstFour(Walk(dims, from), steps)
           reached == {Stop(from, a), Stop(from, b), Stop(from, c), Stop(from, d)}
<1>6. entry = <<Stop(from, a), Stop(from, b), Stop(from, c), Stop(from, d)>>
  BY <1>3, <1>4, <1>5
<1>7. DOMAIN entry = 1 .. 4 /\ Range(entry) = reached
  <2>1. \A s, t, u, v : LET e == <<s, t, u, v>> IN
          DOMAIN e = 1 .. 4 /\ Range(e) = {s, t, u, v}
    BY DEF Range
  <2> HIDE DEF entry, reached
  <2>2. reached = {Stop(from, a), Stop(from, b), Stop(from, c), Stop(from, d)}
    BY DEF reached
  <2> QED
    BY <1>6, <2>1, <2>2
<1>8. reached \subseteq good
  BY <1>1
<1>9. Cardinality(reached) = 4
  <2>1. \A k \in steps, l \in steps : k # l => Stop(from, k) # Stop(from, l)
    BY <1>2, <1>4, StopsOnce
  <2>2. b # a /\ c \notin {a, b} /\ d \notin {a, b, c}
    BY <1>4, <1>5
  <2> QED
    BY <2>1, <2>2, CardinalityOfFour
<1>10. ASSUME NEW q \in good \ reached, NEW l \in {a, b, c, d}
       PROVE  Distance(from, q) >= Distance(from, Stop(from, l))
  <2>1. from # q
    BY DEF good
  <2>2. q \in Int \X Int
    BY <1>2
  <2>3. PICK k \in Nat \ {0} : Stop(from, k) = q
    BY <1>2, <2>1, <2>2, StopReaches
  <2>4. l \in Nat \ {0} /\ l < g /\ l <= d
    BY <1>1, <1>4, <1>5
  <2>5. l <= k
    <3>1. CASE k < g
      <4>1. k \in 1 .. n
        BY <1>1, <1>2, <3>1
      <4>2. k \in steps \ {a, b, c, d}
        BY <1>1, <2>3, <3>1, <4>1
      <4>3. d < k /\ d \in Nat
        BY <1>4, <1>5, <4>2
      <4> QED
        BY <2>4, <4>3
    <3>2. CASE ~(k < g)
      BY <2>4, <3>2
    <3> QED
      BY <3>1, <3>2
  <2>6. Distance(from, Stop(from, l)) <= Distance(from, q)
    BY <1>2, <2>3, <2>4, <2>5, StopsFarther
  <2>7. Distance(from, q) \in Int /\ Distance(from, Stop(from, l)) \in Int
    BY <1>2, <2>2, <2>4, DistanceIs, StopIs
  <2> QED
    BY <2>6, <2>7
<1>11. \A q \in good \ reached : \A r \in reached : Distance(from, q) >= Distance(from, r)
  BY <1>10
<1> HIDE DEF entry, reached
<1> QED
  BY Zenon, <1>7, <1>8, <1>9, <1>11 DEF GoodEntry, entry, good, steps

(* If the walk finds too few, there are too few around.                     *)
LEMMA TooFewGood ==
  ASSUME NEW dims \in Sizes, NEW bads, NEW from \in Locations(dims), from \in bads,
         ~(Cardinality(GoodSteps(dims, bads, from)) >= 4)
  PROVE  Cardinality({q \in Locations(dims) \ bads :
           (2 * Distance(from, q) + 1) * (2 * Distance(from, q) + 1)
              <= dims[1] * dims[2] + 1}) < 4
<1> DEFINE steps == GoodSteps(dims, bads, from)
           good == Locations(dims) \ bads
           n == Enough(dims)
           near == {q \in good :
                      (2 * Distance(from, q) + 1) * (2 * Distance(from, q) + 1)
                        <= dims[1] * dims[2] + 1}
           found == {Stop(from, k) : k \in steps}
<1>1. PICK g \in Nat :
        /\ Patience(dims) <= g /\ g <= n
        /\ Stop(from, g) \notin Locations(dims)
        /\ steps = {k \in 1 .. n : k < g /\ Stop(from, k) \in good}
        /\ IsFiniteSet(steps)
  BY GoodStepsAre
<1>2. /\ n \in Nat /\ from \in Int \X Int /\ good \subseteq Int \X Int
      /\ Patience(dims) \in Nat
  BY LastIsOutside, LocationsAre
<1>3. ASSUME NEW q \in near
      PROVE  q \in found
  <2>1. q \in good /\ q \in Int \X Int /\ from # q
    BY <1>2
  <2>2. PICK r \in Nat : r = Distance(from, q)
    BY <1>2, <2>1, DistanceIs
  <2>3. PICK k \in Nat \ {0} : Stop(from, k) = q /\ k <= Before(r) + 8 * r
    BY <1>2, <2>1, <2>2, StopReaches
  <2>4. (2 * r + 1) * (2 * r + 1) <= dims[1] * dims[2] + 1
    BY <2>2
  <2>5. (2 * r + 1) * (2 * r + 1) = 4 * (r * (r - 1)) + 8 * r + 1
    OBVIOUS
  <2>6. k <= dims[1] * dims[2]
    <3>1. PICK u \in Int, v \in Int : u = r * (r - 1) /\ v = dims[1] * dims[2]
      <4>1. dims[1] * dims[2] \in Int
        BY <1>2 DEF Patience
      <4> QED
        BY <4>1
    <3>2. 4 * u + 8 * r + 1 <= v + 1 /\ k <= 4 * u + 8 * r
      BY <2>3, <2>4, <2>5, <3>1 DEF Before
    <3> QED
      BY <3>1, <3>2
  <2>7. k <= g
    BY <1>1, <1>2, <2>6 DEF Patience
  <2>8. k # g
    BY <1>1, <2>1, <2>3
  <2>9. k < g /\ k \in 1 .. n
    BY <1>1, <1>2, <2>7, <2>8
  <2> HIDE DEF steps, good
  <2>10. k \in steps
    BY <1>1, <2>1, <2>3, <2>9
  <2> QED
    BY <2>3, <2>10
<1>4. near \subseteq found
  BY <1>3
<1>5. IsFiniteSet(found) /\ Cardinality(found) <= Cardinality(steps)
  <2> HIDE DEF steps
  <2> DEFINE f == [k \in steps |-> Stop(from, k)]
  <2>1. f \in Surjection(steps, found)
    BY DEF Surjection
  <2> HIDE DEF f, found
  <2> QED
    BY <1>1, <2>1, FS_Surjection
<1> HIDE DEF near, found, steps
<1>6. Cardinality(near) <= Cardinality(found) /\ Cardinality(near) \in Nat
  BY <1>4, <1>5, FS_Subset, FS_CardinalityType
<1>7. Cardinality(found) \in Nat /\ Cardinality(steps) \in Nat
  BY <1>1, <1>5, FS_CardinalityType
<1>8. ~(Cardinality(steps) >= 4)
  BY DEF steps
<1>9. Cardinality(near) < 4
  BY <1>5, <1>6, <1>7, <1>8
<1> QED
  BY Zenon, <1>9 DEF near, good

-----------------------------------------------------------------------------
(* The table and the correction                                             *)

(* A list of bad pixels: no pixel is in it twice.                           *)
BadList(dims, bad) ==
  /\ bad \in Seq(Locations(dims))
  /\ \A i, j \in DOMAIN bad : bad[i] = bad[j] => i = j

LEMMA TableIs ==
  ASSUME NEW dims, NEW bad
  PROVE  CorrectionTable(dims, bad) =
           IF \A i \in DOMAIN bad : Cardinality(GoodSteps(dims, Range(bad), bad[i])) >= 4
           THEN [i \in DOMAIN bad |-> FirstFour(Walk(dims, bad[i]),
                                                GoodSteps(dims, Range(bad), bad[i]))]
           ELSE <<>>
<1> DEFINE known == [i \in DOMAIN bad |-> Range(bad)]
           good == [i \in DOMAIN bad |->
                      LET walk == Walk(dims, bad[i])
                      IN  [walk |-> walk, steps |-> {k \in Returned(dims, walk) :
                                                       walk[k] \notin known[i]}]]
<1>1. CorrectionTable(dims, bad) =
        IF \A i \in DOMAIN bad : Cardinality(good[i].steps) >= 4
        THEN [i \in DOMAIN bad |-> FirstFour(good[i].walk, good[i].steps)]
        ELSE <<>>
  BY Zenon DEF CorrectionTable, Table
<1>2. \A i \in DOMAIN bad : /\ good[i].walk = Walk(dims, bad[i])
                            /\ good[i].steps = GoodSteps(dims, Range(bad), bad[i])
  BY DEF GoodSteps
<1> HIDE DEF good
<1> QED
  BY Zenon, <1>1, <1>2

LEMMA RangeOfList ==
  ASSUME NEW dims, NEW bad, BadList(dims, bad)
  PROVE  /\ Len(bad) \in Nat /\ DOMAIN bad = 1 .. Len(bad)
         /\ \A i \in DOMAIN bad : bad[i] \in Locations(dims) /\ bad[i] \in Range(bad)
         /\ Range(bad) \subseteq Locations(dims)
         /\ \A q \in Range(bad) : \E i \in DOMAIN bad : q = bad[i]
BY DEF BadList, Range

Average(img, places) == <<"average", [j \in DOMAIN places |-> img[places[j]]]>>

(* What the correction is computed by, and what is corrected.               *)
Replaces(f, img, bad, table) ==
  f = [i \in 0 .. Len(bad) |->
         IF i = 0 THEN img
         ELSE LET im == f[i - 1]
              IN  [im EXCEPT ![bad[i]] =
                     <<"average", [j \in DOMAIN table[i] |-> im[table[i][j]]]>>]]

Replaceable(img, bad, table) ==
  /\ img = [q \in DOMAIN img |-> img[q]]
  /\ Len(bad) \in Nat /\ DOMAIN bad = 1 .. Len(bad)
  /\ \A i, j \in DOMAIN bad : bad[i] = bad[j] => i = j
  /\ \A i \in DOMAIN bad : bad[i] \in DOMAIN img
  /\ \A i \in DOMAIN bad : Range(table[i]) \subseteq DOMAIN img \ Range(bad)

(* The first i of the bad pixels corrected.                                 *)
Corrected(img, bad, table, i) ==
  [q \in DOMAIN img |->
     IF \E l \in 1 .. i : bad[l] = q
     THEN Average(img, table[CHOOSE l \in DOMAIN bad : bad[l] = q])
     ELSE img[q]]

LEMMA CorrectsNext ==
  ASSUME NEW img, NEW bad, NEW table, Replaceable(img, bad, table),
         NEW i \in 1 .. Len(bad)
  PROVE  LET im == Corrected(img, bad, table, i - 1)
         IN  Corrected(img, bad, table, i)
               = [im EXCEPT ![bad[i]] =
                    <<"average", [j \in DOMAIN table[i] |-> im[table[i][j]]]>>]
<1> DEFINE im == Corrected(img, bad, table, i - 1)
           new == <<"average", [j \in DOMAIN table[i] |-> im[table[i][j]]]>>
           value(q) == Average(img, table[CHOOSE l \in DOMAIN bad : bad[l] = q])
           before == {bad[l] : l \in 1 .. i - 1}
<1>1. /\ Len(bad) \in Nat /\ i \in DOMAIN bad /\ DOMAIN bad = 1 .. Len(bad)
      /\ \A k, j \in DOMAIN bad : bad[k] = bad[j] => k = j
      /\ bad[i] \in DOMAIN img
      /\ Range(table[i]) \subseteq DOMAIN img \ Range(bad)
  BY DEF Replaceable
<1>2. im = [q \in DOMAIN img |-> IF q \in before THEN value(q) ELSE img[q]]
  BY DEF Corrected
<1>3. Corrected(img, bad, table, i)
        = [q \in DOMAIN img |-> IF q \in before \cup {bad[i]} THEN value(q) ELSE img[q]]
  <2> DEFINE hit(q) == \E l \in 1 .. i : bad[l] = q
  <2>1. \A q : hit(q) <=> q \in before \cup {bad[i]}
    <3>1. \A l : l \in 1 .. i <=> l \in 1 .. i - 1 \/ l = i
      BY <1>1
    <3> QED
      BY <3>1
  <2>2. Corrected(img, bad, table, i)
          = [q \in DOMAIN img |-> IF hit(q) THEN value(q) ELSE img[q]]
    BY DEF Corrected
  <2> HIDE DEF before, hit, value
  <2> QED
    BY <2>1, <2>2
<1>4. value(bad[i]) = Average(img, table[i])
  <2>1. (CHOOSE l \in DOMAIN bad : bad[l] = bad[i]) = i
    BY <1>1
  <2> QED
    BY Zenon, <2>1
<1>5. new = Average(img, table[i])
  <2>1. \A j \in DOMAIN table[i] : im[table[i][j]] = img[table[i][j]]
    <3>1. before \subseteq Range(bad)
      BY <1>1 DEF Range
    <3>2. \A j \in DOMAIN table[i] : table[i][j] \in DOMAIN img \ Range(bad)
      BY <1>1 DEF Range
    <3> HIDE DEF before, im, value
    <3> QED
      BY <1>2, <3>1, <3>2
  <2> HIDE DEF im
  <2> QED
    BY Zenon, <2>1 DEF Average
<1> HIDE DEF im, new, value, before
<1>6. [im EXCEPT ![bad[i]] = new] = [q \in DOMAIN img |-> IF q = bad[i] THEN new ELSE im[q]]
  BY <1>2
<1>7. \A q \in DOMAIN img : (IF q = bad[i] THEN new ELSE im[q])
                              = IF q \in before \cup {bad[i]} THEN value(q) ELSE img[q]
  BY <1>2, <1>4, <1>5
<1>8. Corrected(img, bad, table, i) = [im EXCEPT ![bad[i]] = new]
  BY Zenon, <1>3, <1>6, <1>7
<1> QED
  BY Zenon, <1>8 DEF im, new

LEMMA ReplacedIs ==
  ASSUME NEW img, NEW bad, NEW table, Replaceable(img, bad, table)
  PROVE  ReplaceBadPixels(img, bad, table) = Corrected(img, bad, table, Len(bad))
<1> DEFINE n == Len(bad)
           f == CHOOSE f : Replaces(f, img, bad, table)
           g == [i \in 0 .. n |-> Corrected(img, bad, table, i)]
           step(i, im) == [im EXCEPT ![bad[i]] =
                             <<"average", [j \in DOMAIN table[i] |-> im[table[i][j]]]>>]
<1>1. n \in Nat
  BY DEF Replaceable
<1>2. ReplaceBadPixels(img, bad, table) = f[n]
  BY Zenon DEF ReplaceBadPixels, Replaces
<1> HIDE DEF n
<1>3. Corrected(img, bad, table, 0) = img
  <2>1. Corrected(img, bad, table, 0) = [q \in DOMAIN img |-> img[q]]
    BY DEF Corrected
  <2> QED
    BY Zenon, <2>1 DEF Replaceable
<1>4. \A i \in 0 .. n : i # 0 => i - 1 \in 0 .. n /\ i \in 1 .. n
  BY <1>1
<1>5. \A i \in 0 .. n : g[i] = IF i = 0 THEN img ELSE step(i, g[i - 1])
  <2>1. \A i \in 1 .. n : Corrected(img, bad, table, i)
                            = step(i, Corrected(img, bad, table, i - 1))
    BY CorrectsNext DEF n
  <2> HIDE DEF step
  <2> QED
    BY Zenon, <1>3, <1>4, <2>1
<1>6. Replaces(g, img, bad, table)
  <2>1. g = [i \in 0 .. n |-> g[i]]
    BY Zenon
  <2> HIDE DEF g
  <2>2. g = [i \in 0 .. n |-> IF i = 0 THEN img ELSE step(i, g[i - 1])]
    <3> HIDE DEF step
    <3> QED
      BY Zenon, <1>5, <2>1
  <2> QED
    BY Zenon, <2>2 DEF Replaces, n
<1>7. Replaces(f, img, bad, table)
  BY Zenon, <1>6
<1>8. f = [i \in 0 .. n |-> IF i = 0 THEN img ELSE step(i, f[i - 1])]
  <2> HIDE DEF f
  <2> QED
    BY Zenon, <1>7 DEF Replaces, n
<1> HIDE DEF f, step
<1>9. \A i \in 0 .. n : f[i] = IF i = 0 THEN img ELSE step(i, f[i - 1])
  BY Zenon, <1>8
<1>10. g[n] = Corrected(img, bad, table, n) /\ n \in 0 .. n
  BY <1>1
<1> HIDE DEF g
<1> DEFINE D == {i \in 0 .. n : f[i] # g[i]}
<1>11. D = {}
  <2>1. SUFFICES ASSUME D # {} PROVE FALSE
    OBVIOUS
  <2>2. PICK i \in D : \A l \in D : i <= l
    <3>1. D \in SUBSET Nat
      BY <1>1
    <3> HIDE DEF D
    <3> QED
      BY <2>1, <3>1, LeastNatural
  <2>3. i \in 0 .. n /\ f[i] # g[i]
    OBVIOUS
  <2>4. i # 0
    BY <1>5, <1>9, <2>3
  <2>5. i - 1 \in 0 .. n /\ ~(i <= i - 1)
    BY <1>1, <2>3, <2>4
  <2>6. f[i - 1] = g[i - 1]
    BY <2>2, <2>5
  <2> QED
    BY Zenon, <1>5, <1>9, <2>3, <2>4, <2>6
<1>12. f[n] = g[n]
  BY <1>10, <1>11
<1> QED
  BY Zenon, <1>2, <1>10, <1>12 DEF n

LEMMA Division ==
  ASSUME NEW d \in Nat, d > 0, NEW x \in Int
  PROVE  \E q \in Int, r \in 0..d-1 : x = d * q + r /\ x \div d = q /\ x % d = r
<1>1. x \div d \in Int /\ x % d \in 0..d-1
  OBVIOUS
<1>2. x % d = x - d * (x \div d)
  OBVIOUS
<1>3. \A q \in Int, r \in 0..d-1 : r = x - d * q => x = d * q + r
  OBVIOUS
<1> QED
  BY <1>1, <1>2, <1>3

(* A table without gaps: the image that is corrected with it.               *)
LEMMA AveragesNearest ==
  ASSUME NEW dims \in Sizes, NEW bad, BadList(dims, bad),
         \A i \in DOMAIN bad : Cardinality(GoodSteps(dims, Range(bad), bad[i])) >= 4
  PROVE  LET good  == Locations(dims) \ Range(bad)
             after == ReplaceBadPixels([q \in Locations(dims) |-> q], bad,
                                       CorrectionTable(dims, bad))
         IN  \A q \in Locations(dims) :
               /\ q \in good => after[q] = q
               /\ q \notin good => GoodEntry(dims, Range(bad), q, after[q][2])
<1> DEFINE table == CorrectionTable(dims, bad)
           img == [q \in Locations(dims) |-> q]
           after == ReplaceBadPixels(img, bad, table)
           good == Locations(dims) \ Range(bad)
<1>1. /\ Len(bad) \in Nat /\ DOMAIN bad = 1 .. Len(bad)
      /\ \A i \in DOMAIN bad : bad[i] \in Locations(dims) /\ bad[i] \in Range(bad)
      /\ \A q \in Range(bad) : \E i \in DOMAIN bad : q = bad[i]
  BY RangeOfList
<1>2. \A i, j \in DOMAIN bad : bad[i] = bad[j] => i = j
  BY DEF BadList
<1>3. \A i \in DOMAIN bad : GoodEntry(dims, Range(bad), bad[i], table[i])
  <2>1. table = [i \in DOMAIN bad |-> FirstFour(Walk(dims, bad[i]),
                                                GoodSteps(dims, Range(bad), bad[i]))]
    BY Zenon, TableIs
  <2> HIDE DEF table
  <2>2. \A i \in DOMAIN bad :
          table[i] = FirstFour(Walk(dims, bad[i]), GoodSteps(dims, Range(bad), bad[i]))
    BY Zenon, <2>1
  <2> QED
    BY <1>1, <2>2, EntryIsGood
<1> HIDE DEF table
<1>4. \A i \in DOMAIN bad : /\ DOMAIN table[i] = 1 .. 4
                            /\ \A j \in 1 .. 4 : table[i][j] \in good
                            /\ Range(table[i]) \subseteq good
  <2>1. \A i \in DOMAIN bad : DOMAIN table[i] = 1 .. 4 /\ Range(table[i]) \subseteq good
    BY <1>3 DEF GoodEntry
  <2> HIDE DEF good
  <2> QED
    BY <2>1 DEF Range
<1>5. DOMAIN img = Locations(dims) /\ \A q \in Locations(dims) : img[q] = q
  OBVIOUS
<1>6. img = [q \in DOMAIN img |-> img[q]]
  OBVIOUS
<1> HIDE DEF img
<1>7. Replaceable(img, bad, table)
  BY <1>1, <1>2, <1>4, <1>5, <1>6 DEF Replaceable
<1>8. after = Corrected(img, bad, table, Len(bad))
  BY <1>7, ReplacedIs
<1> HIDE DEF after
<1>9. ASSUME NEW q \in good
      PROVE  after[q] = q
  <2>1. q \in Locations(dims) /\ ~\E l \in 1 .. Len(bad) : bad[l] = q
    BY <1>1
  <2> HIDE DEF good
  <2> QED
    BY <1>5, <1>8, <2>1 DEF Corrected
<1>10. ASSUME NEW q \in Range(bad)
       PROVE  GoodEntry(dims, Range(bad), q, after[q][2])
  <2>1. PICK i \in 1 .. Len(bad) : q = bad[i]
    BY <1>1
  <2>2. q \in Locations(dims) /\ \E l \in 1 .. Len(bad) : bad[l] = q
    BY <1>1, <2>1
  <2>3. after[q] = Average(img, table[CHOOSE l \in DOMAIN bad : bad[l] = q])
    BY <1>5, <1>8, <2>2 DEF Corrected
  <2>4. (CHOOSE l \in DOMAIN bad : bad[l] = q) = i
    BY <1>1, <1>2, <2>1
  <2>5. after[q] = Average(img, table[i])
    BY Zenon, <2>3, <2>4
  <2>6. after[q][2] = [j \in DOMAIN table[i] |-> img[table[i][j]]]
    BY <2>5 DEF Average
  <2>7. \A j \in 1 .. 4 : img[table[i][j]] = table[i][j]
    BY <1>1, <1>4, <1>5
  <2>8. DOMAIN table[i] = 1 .. 4
    BY <1>1, <1>4, <2>1
  <2>9. DOMAIN after[q][2] = DOMAIN table[i] /\ Range(after[q][2]) = Range(table[i])
    <3> DEFINE entry == table[i]
               made == after[q][2]
    <3>1. made = [j \in DOMAIN entry |-> img[entry[j]]]
      BY <2>6
    <3>2. DOMAIN made = DOMAIN entry /\ \A j \in DOMAIN entry : made[j] = entry[j]
      <4> HIDE DEF made
      <4> QED
        BY <2>7, <2>8, <3>1
    <3> HIDE DEF made, entry
    <3>3. Range(made) = Range(entry)
      BY <3>2 DEF Range
    <3> QED
      BY <3>2, <3>3 DEF made, entry
  <2>10. GoodEntry(dims, Range(bad), q, table[i])
    BY <1>1, <1>3, <2>1
  <2> QED
    BY Zenon, <2>9, <2>10 DEF GoodEntry
<1>11. \A q \in Locations(dims) : q \notin good => q \in Range(bad)
  OBVIOUS
<1> HIDE DEF good
<1>12. \A q \in Locations(dims) :
               /\ q \in good => after[q] = q
               /\ q \notin good => GoodEntry(dims, Range(bad), q, after[q][2])
  BY Zenon, <1>9, <1>10, <1>11
<1> QED
  BY Zenon, <1>12 DEF after, img, table, good

-----------------------------------------------------------------------------
(* The list of bad pixels                                                   *)

(* What is asked of IdentifyBadPixels, the k-th place of the image, and the *)
(* list when it has been looked at.                                         *)
RowByRow(dims, k) == <<(k - 1) \div dims[2], (k - 1) % dims[2]>>

Looked(c, k, list) ==
  IF c.dark[RowByRow(c.dims, k)] > c.darkLimit \/ c.flat[RowByRow(c.dims, k)] < c.flatLimit
  THEN Append(list, RowByRow(c.dims, k)) ELSE list

Lists(f, c, n) ==
  f = [k \in 0 .. n |-> IF k = 0 THEN <<>> ELSE Looked(c, k, f[k - 1])]

LEMMA RowByRowIs ==
  ASSUME NEW dims \in Sizes
  PROVE  /\ dims[1] * dims[2] \in Nat
         /\ \A k \in 1 .. dims[1] * dims[2] : RowByRow(dims, k) \in Locations(dims)
         /\ \A k, l \in 1 .. dims[1] * dims[2] :
              RowByRow(dims, k) = RowByRow(dims, l) => k = l
<1>1. PICK d \in Nat \ {0}, e \in Nat \ {0} : dims = <<d, e>>
  BY DEF Sizes
<1>2. PICK n \in Nat : n = d * e
  OBVIOUS
<1>3. ASSUME NEW k \in 1 .. n
      PROVE  \E i \in 0 .. d - 1, j \in 0 .. e - 1 :
               RowByRow(dims, k) = <<i, j>> /\ k - 1 = e * i + j
  <2>1. k - 1 \in Int /\ e \in Nat /\ e > 0
    OBVIOUS
  <2>2. PICK i \in Int, j \in 0 .. e - 1 :
          k - 1 = e * i + j /\ (k - 1) \div e = i /\ (k - 1) % e = j
    BY <2>1, Division
  <2>3. RowByRow(dims, k) = <<i, j>>
    BY <1>1, <2>2 DEF RowByRow
  <2>4. i >= 0
    <3>1. ASSUME i <= -1 PROVE FALSE
      <4>1. e * i <= e * (-1)
        BY <3>1
      <4>2. PICK u \in Int : u = e * i
        OBVIOUS
      <4> QED
        BY <2>2, <4>1, <4>2
    <3> QED
      BY <3>1
  <2>5. i < d
    <3>1. ASSUME i >= d PROVE FALSE
      <4>1. e * i >= d * e
        BY <3>1
      <4>2. PICK u \in Int : u = e * i
        OBVIOUS
      <4> QED
        BY <1>2, <2>2, <4>1, <4>2
    <3> QED
      BY <3>1
  <2> QED
    BY <2>2, <2>3, <2>4, <2>5
<1>4. \A k \in 1 .. n : RowByRow(dims, k) \in Locations(dims)
  BY <1>1, <1>3, LocationsAre
<1>5. ASSUME NEW k \in 1 .. n, NEW l \in 1 .. n, RowByRow(dims, k) = RowByRow(dims, l)
      PROVE  k = l
  <2>1. PICK i \in 0 .. d - 1, j \in 0 .. e - 1 :
          RowByRow(dims, k) = <<i, j>> /\ k - 1 = e * i + j
    BY <1>3
  <2>2. PICK x \in 0 .. d - 1, y \in 0 .. e - 1 :
          RowByRow(dims, l) = <<x, y>> /\ l - 1 = e * x + y
    BY <1>3
  <2>3. i = x /\ j = y
    <3>1. <<i, j>> = <<x, y>>
      BY Zenon, <1>5, <2>1, <2>2
    <3> QED
      BY <3>1
  <2> QED
    BY <2>1, <2>2, <2>3
<1> QED
  BY <1>1, <1>2, <1>4, <1>5

LEMMA ListExists ==
  ASSUME NEW c
  PROVE  \A n \in Nat : \E f : Lists(f, c, n)
<1> DEFINE T == {n \in Nat : ~\E f : Lists(f, c, n)}
<1>1. SUFFICES ASSUME T # {} PROVE FALSE
  OBVIOUS
<1>2. PICK n \in T : \A m \in T : n <= m
  <2>1. T \in SUBSET Nat
    OBVIOUS
  <2> HIDE DEF T
  <2> QED
    BY <1>1, <2>1, LeastNatural
<1>3. n \in Nat /\ ~\E f : Lists(f, c, n)
  OBVIOUS
<1>4. CASE n = 0
  <2> DEFINE f == [k \in 0 .. n |-> <<>>]
  <2>1. \A k \in 0 .. n : k = 0
    BY <1>4
  <2>2. Lists(f, c, n)
    BY Zenon, <2>1 DEF Lists
  <2> QED
    BY <1>3, <2>2
<1>5. CASE n # 0
  <2>1. n - 1 \in Nat /\ ~(n <= n - 1)
    BY <1>3, <1>5
  <2>2. n - 1 \notin T
    BY <1>2, <2>1
  <2>3. PICK f : Lists(f, c, n - 1)
    BY <2>1, <2>2
  <2> DEFINE g == [k \in 0 .. n |-> IF k = n THEN Looked(c, n, f[n - 1]) ELSE f[k]]
  <2>4. \A k \in 0 .. n - 1 : f[k] = IF k = 0 THEN <<>> ELSE Looked(c, k, f[k - 1])
    BY Zenon, <2>3 DEF Lists
  <2>5. \A k \in 0 .. n : /\ k # n => k \in 0 .. n - 1
                          /\ k # 0 => k - 1 \in 0 .. n /\ k - 1 # n
    BY <1>3
  <2>6. \A k \in 0 .. n : g[k] = IF k = 0 THEN <<>> ELSE Looked(c, k, g[k - 1])
    BY Zenon, <1>5, <2>4, <2>5
  <2>7. g = [k \in 0 .. n |-> g[k]]
    BY Zenon
  <2> HIDE DEF g
  <2>8. Lists(g, c, n)
    BY Zenon, <2>6, <2>7 DEF Lists
  <2> QED
    BY <1>3, <2>8
<1> QED
  BY <1>4, <1>5

(* Whatever the fields are, no pixel is listed twice.                       *)
LEMMA ListIsBadList ==
  ASSUME NEW c, c.dims \in Sizes, NEW f, Lists(f, c, c.dims[1] * c.dims[2])
  PROVE  BadList(c.dims, f[c.dims[1] * c.dims[2]])
<1> DEFINE dims == c.dims
           n == dims[1] * dims[2]
           place(k) == RowByRow(dims, k)
           right(k) == /\ f[k] \in Seq(Locations(dims))
                       /\ \A i \in DOMAIN f[k] : \E l \in 1 .. k : f[k][i] = place(l)
                       /\ \A i, j \in DOMAIN f[k] : f[k][i] = f[k][j] => i = j
<1>1. /\ n \in Nat /\ \A k \in 1 .. n : place(k) \in Locations(dims)
      /\ \A k, l \in 1 .. n : place(k) = place(l) => k = l
  BY RowByRowIs
<1>2. \A k \in 0 .. n : f[k] = IF k = 0 THEN <<>> ELSE Looked(c, k, f[k - 1])
  BY Zenon DEF Lists
<1> HIDE DEF n
<1> DEFINE D == {k \in 0 .. n : ~right(k)}
<1>3. D = {}
  <2>1. SUFFICES ASSUME D # {} PROVE FALSE
    OBVIOUS
  <2>2. PICK k \in D : \A l \in D : k <= l
    <3>1. D \in SUBSET Nat
      BY <1>1
    <3> HIDE DEF D
    <3> QED
      BY <2>1, <3>1, LeastNatural
  <2>3. k \in 0 .. n /\ ~right(k)
    OBVIOUS
  <2> HIDE DEF right
  <2>4. k # 0
    <3>1. ASSUME k = 0 PROVE right(k)
      <4>1. f[k] = <<>>
        BY <1>2, <2>3, <3>1
      <4> QED
        BY <4>1 DEF right
    <3> QED
      BY <2>3, <3>1
  <2>5. k - 1 \in 0 .. n /\ ~(k <= k - 1) /\ k \in 1 .. n
    BY <1>1, <2>3, <2>4
  <2>6. right(k - 1)
    BY <2>2, <2>5
  <2>7. f[k] = Append(f[k - 1], place(k)) \/ f[k] = f[k - 1]
    BY <1>2, <2>4, <2>5 DEF Looked
  <2> DEFINE s == f[k - 1]
  <2>8. /\ s \in Seq(Locations(dims))
        /\ \A i \in DOMAIN s : \E l \in 1 .. k - 1 : s[i] = place(l)
        /\ \A i, j \in DOMAIN s : s[i] = s[j] => i = j
    BY <2>6 DEF right
  <2> HIDE DEF s, place
  <2>9. \A l \in 1 .. k - 1 : l \in 1 .. k /\ l \in 1 .. n /\ l # k
    BY <1>1, <2>5
  <2>10. right(k)
    <3>1. CASE f[k] = s
      BY <2>8, <2>9, <3>1 DEF right
    <3>2. CASE f[k] = Append(s, place(k))
      <4> DEFINE t == Append(s, place(k))
      <4>1. place(k) \in Locations(dims)
        BY <1>1, <2>5
      <4>2. /\ t \in Seq(Locations(dims)) /\ Len(t) = Len(s) + 1
            /\ \A i \in 1 .. Len(s) : t[i] = s[i]
            /\ t[Len(s) + 1] = place(k)
        BY <2>8, <4>1, AppendProperties
      <4> HIDE DEF t
      <4>3. /\ Len(s) \in Nat /\ DOMAIN s = 1 .. Len(s) /\ DOMAIN t = 1 .. Len(s) + 1
        BY <2>8, <4>2
      <4>4. \A i \in DOMAIN t : i \in DOMAIN s \/ i = Len(s) + 1
        BY <4>3
      <4>5. \A i \in DOMAIN s : t[i] = s[i] /\ t[i] # place(k)
        <5>1. \A i \in DOMAIN s : t[i] = s[i]
          BY <4>2, <4>3
        <5>2. \A i \in DOMAIN s : s[i] # place(k)
          BY <1>1, <2>5, <2>8, <2>9
        <5> QED
          BY Zenon, <5>1, <5>2
      <4>6. k \in 1 .. k
        BY <2>5
      <4>7. \A i \in DOMAIN t : \E l \in 1 .. k : t[i] = place(l)
        <5>1. ASSUME NEW i \in DOMAIN t PROVE \E l \in 1 .. k : t[i] = place(l)
          <6>1. CASE i \in DOMAIN s
            <7>1. t[i] = s[i]
              BY <4>5, <6>1
            <7>2. PICK l \in 1 .. k - 1 : s[i] = place(l)
              BY <2>8, <6>1
            <7> QED
              BY <2>9, <7>1, <7>2
          <6>2. CASE i = Len(s) + 1
            BY Zenon, <4>2, <4>6, <6>2
          <6> QED
            BY <4>4, <6>1, <6>2
        <5> QED
          BY <5>1
      <4>8. \A i, j \in DOMAIN t : t[i] = t[j] => i = j
        BY Zenon, <2>8, <4>2, <4>4, <4>5
      <4>9. f[k] = t
        BY <3>2 DEF t
      <4> QED
        BY <4>2, <4>7, <4>8, <4>9 DEF right
    <3> QED
      BY <2>7, <3>1, <3>2 DEF s
  <2> QED
    BY <2>3, <2>10
<1>4. right(n)
  <2>1. n \in 0 .. n
    BY <1>1
  <2> HIDE DEF right
  <2> QED
    BY <1>3, <2>1
<1> QED
  BY <1>4 DEF BadList, n

LEMMA IdentifiedIsBadList ==
  ASSUME NEW c, c.dims \in Sizes
  PROVE  BadList(c.dims,
                 IdentifyBadPixels(c.dims, c.dark, c.flat, c.darkLimit, c.flatLimit))
<1> DEFINE n == c.dims[1] * c.dims[2]
           f == CHOOSE f : Lists(f, c, n)
<1>1. IdentifyBadPixels(c.dims, c.dark, c.flat, c.darkLimit, c.flatLimit) = f[n]
  BY Zenon DEF IdentifyBadPixels, Lists, Looked, RowByRow
<1>2. n \in Nat
  BY RowByRowIs
<1>3. Lists(f, c, n)
  <2>1. \E g : Lists(g, c, n)
    BY <1>2, ListExists
  <2> QED
    BY Zenon, <2>1
<1> HIDE DEF f
<1> QED
  BY <1>1, <1>3, ListIsBadList

(* Whatever the image and its fields are, and however many pixels of it are *)
(* bad.                                                                     *)
AnyFields ==
  {c \in [dims : Sizes, dark : UNION {[Locations(d) -> Int] : d \in Sizes},
          flat : UNION {[Locations(d) -> Int] : d \in Sizes},
          darkLimit : Int, flatLimit : Int] :
     c.dark \in [Locations(c.dims) -> Int] /\ c.flat \in [Locations(c.dims) -> Int]}

CorrectsAnyBadPixels ==
  \E c \in AnyFields :
    LET bad == IdentifyBadPixels(c.dims, c.dark, c.flat, c.darkLimit, c.flatLimit)
    IN  Called([name |-> "badPixels", dims |-> c.dims, bad |-> bad],
               CorrectionTable(c.dims, bad))

BadPixelsSpec == CallsInit /\ [][CorrectsAnyBadPixels]_<<call, result>>

(* BadPixelCorrector and NeighborhoodWalker: whatever the image and its bad *)
(* pixels are, each becomes the average of the four good pixels that are    *)
(* nearest, or fewer than four are near.                                    *)
THEOREM AnyBadPixelIsReplaced == BadPixelsSpec => []BadPixelsAreReplaced
<1>1. CallsInit => BadPixelsAreReplaced
  BY DEF CallsInit, NoCall, BadPixelsAreReplaced
<1>2. ASSUME BadPixelsAreReplaced, UNCHANGED <<call, result>>
      PROVE  BadPixelsAreReplaced'
  BY <1>2 DEF BadPixelsAreReplaced, AveragesGoodPixels, GoodPixels, TooFewAround
<1>3. ASSUME CorrectsAnyBadPixels
      PROVE  BadPixelsAreReplaced'
  <2>1. PICK c \in AnyFields :
          LET list == IdentifyBadPixels(c.dims, c.dark, c.flat, c.darkLimit, c.flatLimit)
          IN  /\ call' = [name |-> "badPixels", dims |-> c.dims, bad |-> list]
              /\ result' = CorrectionTable(c.dims, list)
    BY Zenon, <1>3 DEF CorrectsAnyBadPixels, Called
  <2> DEFINE dims == c.dims
             bad == IdentifyBadPixels(dims, c.dark, c.flat, c.darkLimit, c.flatLimit)
  <2>2. dims \in Sizes
    BY DEF AnyFields
  <2>3. call' = [name |-> "badPixels", dims |-> dims, bad |-> bad]
    BY Zenon, <2>1
  <2>4. call'.dims = dims /\ call'.bad = bad /\ result' = CorrectionTable(dims, bad)
    <3>1. call'.dims = dims /\ call'.bad = bad
      <4> HIDE DEF dims, bad
      <4> QED
        BY <2>3
    <3> QED
      BY Zenon, <2>1, <3>1
  <2>5. BadList(dims, bad)
    BY Zenon, <2>2, IdentifiedIsBadList
  <2> HIDE DEF dims, bad
  <2> DEFINE good == Locations(dims) \ Range(bad)
             enough(i) == Cardinality(GoodSteps(dims, Range(bad), bad[i])) >= 4
             averages == LET after == ReplaceBadPixels([q \in Locations(dims) |-> q], bad,
                                                       CorrectionTable(dims, bad))
                         IN  \A q \in Locations(dims) :
                               IF q \in good THEN after[q] = q
                               ELSE LET used == Range(after[q][2]) IN
                                    /\ Cardinality(used) = 4 /\ used \subseteq good
                                    /\ \A s \in good \ used : \A r \in used :
                                         Distance(q, s) >= Distance(q, r)
             tooFew(q) == Cardinality({s \in good :
                            (2 * Distance(q, s) + 1) * (2 * Distance(q, s) + 1)
                              <= dims[1] * dims[2] + 1}) < 4
  <2>6. BadPixelsAreReplaced'
          <=> (call'.name = "badPixels" =>
                 IF CorrectionTable(dims, bad) # <<>> \/ bad = <<>> THEN averages
                 ELSE \E i \in DOMAIN bad : tooFew(bad[i]))
    BY Zenon, <2>4 DEF BadPixelsAreReplaced, AveragesGoodPixels, GoodPixels, TooFewAround
  <2>7. ASSUME \A i \in DOMAIN bad : enough(i)
        PROVE  averages
    <3> DEFINE after == ReplaceBadPixels([q \in Locations(dims) |-> q], bad,
                                         CorrectionTable(dims, bad))
    <3>1. \A q \in Locations(dims) :
            /\ q \in good => after[q] = q
            /\ q \notin good => GoodEntry(dims, Range(bad), q, after[q][2])
      BY <2>2, <2>5, <2>7, AveragesNearest
    <3> HIDE DEF after
    <3>2. \A q \in Locations(dims) :
            IF q \in good THEN after[q] = q
            ELSE LET used == Range(after[q][2]) IN
                 /\ Cardinality(used) = 4 /\ used \subseteq good
                 /\ \A s \in good \ used : \A r \in used :
                      Distance(q, s) >= Distance(q, r)
      BY Zenon, <3>1 DEF GoodEntry
    <3> QED
      BY Zenon, <3>2 DEF after
  <2>8. ASSUME \A i \in DOMAIN bad : enough(i), bad # <<>>
        PROVE  CorrectionTable(dims, bad) # <<>>
    <3>1. Len(bad) \in Nat /\ DOMAIN bad = 1 .. Len(bad) /\ bad \in Seq(Locations(dims))
      BY <2>5, RangeOfList DEF BadList
    <3>2. 1 \in DOMAIN bad
      BY <2>8, <3>1
    <3>3. DOMAIN CorrectionTable(dims, bad) = DOMAIN bad
      BY Zenon, <2>8, TableIs
    <3>4. DOMAIN <<>> = {}
      OBVIOUS
    <3> QED
      BY <3>2, <3>3, <3>4
  <2>9. ASSUME NEW i \in DOMAIN bad, ~enough(i)
        PROVE  CorrectionTable(dims, bad) = <<>> /\ bad # <<>> /\ tooFew(bad[i])
    <3>1. bad[i] \in Locations(dims) /\ bad[i] \in Range(bad)
      BY <2>5, RangeOfList
    <3>2. tooFew(bad[i])
      BY <2>2, <2>9, <3>1, TooFewGood
    <3>3. CorrectionTable(dims, bad) = <<>>
      BY Zenon, <2>9, TableIs
    <3>4. bad # <<>>
      OBVIOUS
    <3> QED
      BY <3>2, <3>3, <3>4
  <2> HIDE DEF averages, tooFew, enough
  <2> QED
    BY Zenon, <2>6, <2>7, <2>8, <2>9
<1> QED
  BY <1>1, <1>2, <1>3, PTL DEF BadPixelsSpec

(* The images and bad pixels that are checked are among them.               *)
LEMMA BadSetsAreAny ==
  CorrectsBadPixels => CorrectsAnyBadPixels
<1>1. ASSUME NEW b \in BadSets
      PROVE  b.dims \in Sizes
  <2>1. \A d \in {<<1, 5>>, <<2, 4>>, <<3, 3>>, <<3, 4>>} : d \in Sizes
    BY DEF Sizes
  <2>2. \/ \E d \in {<<1, 5>>, <<2, 4>>, <<3, 3>>} : \E s : b = [dims |-> d, set |-> s]
        \/ \E s : b = [dims |-> <<3, 4>>, set |-> s]
    BY Zenon DEF BadSets
  <2> QED
    BY <2>1, <2>2
<1>2. ASSUME NEW b \in BadSets
      PROVE  [dims |-> b.dims,
              dark |-> [q \in Locations(b.dims) |-> IF q \in b.set THEN 2 ELSE 0],
              flat |-> [q \in Locations(b.dims) |-> 5],
              darkLimit |-> 1, flatLimit |-> 3] \in AnyFields
  <2> DEFINE dark == [q \in Locations(b.dims) |-> IF q \in b.set THEN 2 ELSE 0]
             flat == [q \in Locations(b.dims) |-> 5]
             fields == UNION {[Locations(d) -> Int] : d \in Sizes}
  <2>1. dark \in [Locations(b.dims) -> Int] /\ flat \in [Locations(b.dims) -> Int]
    OBVIOUS
  <2>2. b.dims \in Sizes
    BY <1>1
  <2> HIDE DEF dark, flat
  <2>3. dark \in fields /\ flat \in fields
    BY <2>1, <2>2
  <2> HIDE DEF fields
  <2>4. [dims |-> b.dims, dark |-> dark, flat |-> flat, darkLimit |-> 1, flatLimit |-> 3]
          \in [dims : Sizes, dark : fields, flat : fields, darkLimit : Int, flatLimit : Int]
    BY <2>2, <2>3
  <2> QED
    BY <2>1, <2>4 DEF AnyFields, dark, flat, fields
<1>3. ASSUME CorrectsBadPixels
      PROVE  CorrectsAnyBadPixels
  <2>1. PICK b \in BadSets :
          LET list == IdentifyBadPixels(b.dims,
                        [q \in Locations(b.dims) |-> IF q \in b.set THEN 2 ELSE 0],
                        [q \in Locations(b.dims) |-> 5], 1, 3)
          IN  Called([name |-> "badPixels", dims |-> b.dims, bad |-> list],
                     CorrectionTable(b.dims, list))
    BY Zenon, <1>3 DEF CorrectsBadPixels
  <2> DEFINE c == [dims |-> b.dims,
              dark |-> [q \in Locations(b.dims) |-> IF q \in b.set THEN 2 ELSE 0],
              flat |-> [q \in Locations(b.dims) |-> 5],
              darkLimit |-> 1, flatLimit |-> 3]
  <2>2. c \in AnyFields
    BY <1>2
  <2>3. /\ c.dims = b.dims
        /\ c.dark = [q \in Locations(b.dims) |-> IF q \in b.set THEN 2 ELSE 0]
        /\ c.flat = [q \in Locations(b.dims) |-> 5]
        /\ c.darkLimit = 1 /\ c.flatLimit = 3
    OBVIOUS
  <2> HIDE DEF c
  <2>4. LET list == IdentifyBadPixels(c.dims, c.dark, c.flat, c.darkLimit, c.flatLimit)
        IN  Called([name |-> "badPixels", dims |-> c.dims, bad |-> list],
                   CorrectionTable(c.dims, list))
    BY Zenon, <2>1, <2>3
  <2> QED
    BY Zenon, <2>2, <2>4 DEF CorrectsAnyBadPixels
<1> QED
  BY <1>3
=============================================================================
