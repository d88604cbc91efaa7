---------------------------- MODULE BackoffProofs ----------------------------
(***************************************************************************)
(* The retry delay never wraps and never leaves its bounds, for every      *)
(* width of a duration, every interval and every number of failures, and   *)
(* the loop computes the closed form that the model of an instance uses.   *)
(* The provers know nothing of powers; what is needed of those of two is   *)
(* proved by counting the subsets of 1..n.                                 *)
(***************************************************************************)
EXTENDS BackoffLoop, FiniteSetTheorems, TLAPS

\* The limit of a backoff is at least its base and is a machine integer.
LEMMA LimitInRange ==
  ASSUME NEW b \in 1..MaxInt
  PROVE  DelayLimit(b, FixedMax) \in b..MaxInt
  BY LoopAssumption DEF DelayLimit, Larger

\* The ceiling stays well typed and between the base and the limit.
RangeInv == TypeOK /\ CeilingInRange

\* A ceiling of at most half the limit is doubled without wrapping.
LEMMA TwiceIsExact ==
  ASSUME TypeOK, ceil <= limit \div 2
  PROVE  Twice(ceil) = 2 * ceil /\ 2 * ceil <= limit
<1>1. limit \in Int /\ ceil \in Int /\ MaxInt \in Int /\ limit <= MaxInt
  BY LoopAssumption DEF TypeOK
<1>2. 2 * ceil <= limit
  BY <1>1
<1> QED
  BY <1>1, <1>2 DEF Twice

LEMMA RangeStep == RangeInv /\ [Next]_vars => RangeInv'
<1> SUFFICES ASSUME TypeOK, CeilingInRange, [Next]_vars
             PROVE  RangeInv'
  BY DEF RangeInv
<1> USE DEF RangeInv, TypeOK, CeilingInRange
<1>1. CASE Double
  <2>1. ceil' = 2 * ceil /\ ceil' <= limit
    BY <1>1, TwiceIsExact DEF Double
  <2>2. ceil' \in 1..MaxInt /\ base <= ceil'
    BY <2>1, LoopAssumption
  <2> QED
    BY <1>1, <2>1, <2>2 DEF Double
<1>2. CASE Jump
  BY <1>2 DEF Jump, Looping
<1>3. CASE Leave
  BY <1>3 DEF Leave
<1>4. CASE Cap
  BY <1>4 DEF Cap, Smaller
<1>5. CASE Draw
  <2>1. PICK share \in 0..(ceil - ceil \div 2) : delay' = ceil \div 2 + share
    BY <1>5 DEF Draw
  <2>2. ceil \in Nat /\ ceil <= MaxInt /\ MaxInt \in Nat
    BY LoopAssumption
  <2>3. delay' \in 0..MaxInt
    BY <2>1, <2>2
  <2> QED
    BY <1>5, <2>3 DEF Draw
<1>6. CASE UNCHANGED vars
  BY <1>6 DEF vars
<1> QED
  BY <1>1, <1>2, <1>3, <1>4, <1>5, <1>6 DEF Next, Returned

LEMMA RangeInvariant == Spec => []RangeInv
<1>1. Init => RangeInv
  BY LoopAssumption, LimitInRange
     DEF Init, RangeInv, TypeOK, CeilingInRange
<1> QED
  BY <1>1, RangeStep, PTL DEF Spec

\* No duration of the computation overflows: the ceiling and the delay drawn
\* from it are positive machine integers for every interval that is one.
THEOREM DurationsFit == Spec => []TypeOK
<1>1. RangeInv => TypeOK
  BY DEF RangeInv
<1> QED
  BY <1>1, RangeInvariant, PTL

\* In no step of the loop does the ceiling wrap, fall below the interval or
\* exceed the limit.
THEOREM CeilingStaysInRange == Spec => []CeilingInRange
<1>1. RangeInv => CeilingInRange
  BY DEF RangeInv
<1> QED
  BY <1>1, RangeInvariant, PTL

-----------------------------------------------------------------------------
(* Powers of two                                                           *)

LEMMA SubsetsOfInterval ==
  ASSUME NEW n \in Nat
  PROVE  /\ IsFiniteSet(SUBSET (1..n))
         /\ Cardinality(SUBSET (1..n)) = 2^n
<1>1. IsFiniteSet(1..n) /\ Cardinality(1..n) = n
  BY FS_Interval
<1> QED
  BY <1>1, FS_SUBSET

LEMMA PowerIsPositive ==
  ASSUME NEW n \in Nat
  PROVE  2^n \in Nat /\ 2^n >= 1
<1>1. 2^n \in Nat
  BY SubsetsOfInterval, FS_CardinalityType
<1>2. 2^n # 0
  <2>1. {} \in SUBSET (1..n)
    OBVIOUS
  <2> QED
    BY <2>1, SubsetsOfInterval, FS_EmptySet
<1> QED
  BY <1>1, <1>2

LEMMA PowerGrows ==
  ASSUME NEW m \in Nat, NEW n \in Nat, m <= n
  PROVE  2^m <= 2^n
<1>1. SUBSET (1..m) \in SUBSET (SUBSET (1..n))
  OBVIOUS
<1>2. IsFiniteSet(SUBSET (1..n))
  BY SubsetsOfInterval
<1>3. Cardinality(SUBSET (1..m)) <= Cardinality(SUBSET (1..n))
  BY <1>1, <1>2, FS_Subset, Zenon
<1>4. Cardinality(SUBSET (1..m)) = 2^m /\ Cardinality(SUBSET (1..n)) = 2^n
  BY SubsetsOfInterval
<1> QED
  BY <1>3, <1>4

\* Half of the subsets of 1..(n+1) have n+1.
LEMMA PowerDoubles ==
  ASSUME NEW n \in Nat
  PROVE  2^(n + 1) = 2 * 2^n
<1> DEFINE Without == SUBSET (1..n)
           All     == SUBSET (1..(n + 1))
           With    == All \ Without
           add     == [T \in Without |-> T \cup {n + 1}]
<1>1. \A T \in Without : n + 1 \notin T
  OBVIOUS
<1>2. Without \subseteq All /\ IsFiniteSet(All) /\ IsFiniteSet(With)
  <2>1. IsFiniteSet(All)
    BY SubsetsOfInterval
  <2> QED
    BY <2>1, FS_Subset
<1>3. add \in Bijection(Without, With)
  <2>1. \A T \in Without : add[T] \in With
    BY <1>1
  <2>2. ASSUME NEW S \in Without, NEW T \in Without, add[S] = add[T]
        PROVE  S = T
    BY <1>1, <2>2
  <2>3. ASSUME NEW T \in With
        PROVE  \E S \in Without : add[S] = T
    <3>1. T \subseteq 1..(n + 1) /\ n + 1 \in T
      BY SMT
    <3>2. T \ {n + 1} \in Without
      BY <3>1
    <3> QED
      BY <3>1, <3>2
  <2> QED
    BY <2>1, <2>2, <2>3 DEF Bijection, Injection, Surjection, IsInjective
<1>4. Cardinality(With) = Cardinality(Without)
  BY <1>3, SubsetsOfInterval, FS_Bijection DEF ExistsBijection
<1>5. Cardinality(All) = Cardinality(Without) + Cardinality(With)
  <2>1. All = Without \cup With /\ Without \cap With = {}
    BY <1>2
  <2>2. IsFiniteSet(Without)
    BY SubsetsOfInterval
  <2>3. Cardinality(Without \cap With) = 0
    BY <2>1, FS_EmptySet
  <2>4. Cardinality(Without) \in Nat /\ Cardinality(With) \in Nat
    BY <1>2, <2>2, FS_CardinalityType
  <2>5. Cardinality(Without \cup With) =
           Cardinality(Without) + Cardinality(With)
              - Cardinality(Without \cap With)
    BY <1>2, <2>2, FS_Union
  <2> HIDE DEF Without, With, All
  <2> QED
    BY <2>1, <2>3, <2>4, <2>5
<1>6. Cardinality(All) = 2^(n + 1) /\ Cardinality(Without) = 2^n
  <2>1. n + 1 \in Nat
    OBVIOUS
  <2> QED
    BY <2>1, SubsetsOfInterval, Zenon
<1>7. 2^n \in Nat
  BY PowerIsPositive
<1> HIDE DEF Without, With, All
<1> QED
  BY <1>4, <1>5, <1>6, <1>7

-----------------------------------------------------------------------------
(* The loop computes the closed form                                       *)

\* The ceiling at the head of the loop is the interval, doubled i - 1 times.
ClosedForm ==
    /\ limit >= base /\ i <= failures
    /\ pc = "loop" => ceil = base * 2^(i - 1)
    /\ pc = "min"  => Smaller(ceil, limit) = Ceiling(base, limit, failures)

FormInv == RangeInv /\ ClosedForm /\ DelayIsClosedForm

\* The ceiling does not shrink with more failures.
LEMMA MoreFailures ==
  ASSUME RangeInv, NEW m \in Nat, m < failures
  PROVE  base * 2^m <= base * 2^(failures - 1)
<1>1. failures - 1 \in Nat /\ m <= failures - 1 /\ base \in Nat
  BY DEF RangeInv, TypeOK
<1>2. 2^m \in Nat /\ 2^(failures - 1) \in Nat /\ 2^m <= 2^(failures - 1)
  BY <1>1, PowerIsPositive, PowerGrows
<1> QED
  BY <1>1, <1>2

\* Once the interval has been doubled beyond the limit, the limit it is.
LEMMA LimitReached ==
  ASSUME RangeInv, NEW m \in Nat, m < failures, limit <= base * 2^m
  PROVE  Ceiling(base, limit, failures) = limit
<1>1. failures - 1 \in Nat /\ base \in Nat /\ limit \in Nat
  BY DEF RangeInv, TypeOK
<1>2. 2^m \in Nat /\ 2^(failures - 1) \in Nat
  BY <1>1, PowerIsPositive
<1>3. base * 2^m \in Nat /\ base * 2^(failures - 1) \in Nat
  BY <1>1, <1>2
<1>4. base * 2^m <= base * 2^(failures - 1)
  BY MoreFailures
<1>5. limit <= base * 2^(failures - 1)
  BY <1>1, <1>3, <1>4
<1> QED
  BY <1>1, <1>3, <1>5 DEF Ceiling, Smaller

LEMMA FirstCeiling ==
  ASSUME RangeInv, limit >= base
  PROVE  base * 2^(1 - 1) = base /\ Ceiling(base, limit, 1) = base
<1>1. base \in Nat /\ limit \in Nat
  BY DEF RangeInv, TypeOK
<1>2. base * 2^(1 - 1) = base
  BY <1>1
<1> QED
  BY <1>1, <1>2 DEF Ceiling, Smaller

LEMMA FormStep ==
  ASSUME FormInv, [Next]_vars
  PROVE  FormInv'
<1>1. RangeInv /\ RangeInv'
  BY RangeStep DEF FormInv
<1>2. /\ base \in Nat /\ limit \in Nat /\ ceil \in Nat /\ ceil <= limit
      /\ i - 1 \in Nat /\ i \in Nat /\ failures \in Nat
      /\ limit >= base /\ i <= failures
  BY <1>1 DEF RangeInv, TypeOK, CeilingInRange, FormInv, ClosedForm
<1>3. CASE Double
  <2>1. ceil = base * 2^(i - 1) /\ ceil' = 2 * ceil /\ i' = i + 1
    BY <1>1, <1>3, TwiceIsExact
       DEF Double, Looping, FormInv, ClosedForm, RangeInv
  <2>2. 2^i = 2 * 2^(i - 1) /\ 2^(i - 1) \in Nat
    <3>1. 2^((i - 1) + 1) = 2 * 2^(i - 1) /\ 2^(i - 1) \in Nat
      BY <1>2, PowerDoubles, PowerIsPositive
    <3>2. (i - 1) + 1 = i
      BY <1>2
    <3> QED
      BY <3>1, <3>2
  <2>3. ceil' = base * 2^i
    BY <1>2, <2>1, <2>2
  <2>4. i' - 1 = i /\ i' <= failures
    BY <1>2, <1>3, <2>1 DEF Double, Looping
  <2>5. ceil' = base * 2^(i' - 1)
    BY <2>3, <2>4
  <2> QED
    BY <1>1, <1>2, <1>3, <2>4, <2>5
       DEF Double, Looping, FormInv, ClosedForm, DelayIsClosedForm
<1>4. CASE Jump
  <2>1. ceil = base * 2^(i - 1) /\ i < failures /\ limit <= 2 * ceil
    BY <1>2, <1>4 DEF Jump, Looping, FormInv, ClosedForm
  <2>2. 2^i = 2 * 2^(i - 1) /\ 2^(i - 1) \in Nat
    <3>1. 2^((i - 1) + 1) = 2 * 2^(i - 1) /\ 2^(i - 1) \in Nat
      BY <1>2, PowerDoubles, PowerIsPositive
    <3>2. (i - 1) + 1 = i
      BY <1>2
    <3> QED
      BY <3>1, <3>2
  <2>3. limit <= base * 2^i
    BY <1>2, <2>1, <2>2
  <2>4. Ceiling(base, limit, failures) = limit
    BY <1>1, <1>2, <2>1, <2>3, LimitReached
  <2>5. Smaller(limit, limit) = limit
    BY <1>2 DEF Smaller
  <2> QED
    BY <1>1, <1>2, <1>4, <2>4, <2>5
       DEF Jump, FormInv, ClosedForm, DelayIsClosedForm
<1>5. CASE Leave
  <2>1. ceil = base * 2^(i - 1) /\ (i = failures \/ ceil = limit)
    BY <1>2, <1>5 DEF Leave, Looping, FormInv, ClosedForm
  <2>2. Smaller(ceil, limit) = Ceiling(base, limit, failures)
    <3>1. CASE i = failures
      BY <2>1, <3>1 DEF Ceiling
    <3>2. CASE ceil = limit
      <4>1. i - 1 < failures /\ limit <= base * 2^(i - 1)
        BY <1>2, <2>1, <3>2
      <4>2. Ceiling(base, limit, failures) = limit
        BY <1>1, <1>2, <4>1, LimitReached
      <4> QED
        BY <1>2, <3>2, <4>2 DEF Smaller
    <3> QED
      BY <2>1, <3>1, <3>2
  <2> QED
    BY <1>1, <1>2, <1>5, <2>2
       DEF Leave, FormInv, ClosedForm, DelayIsClosedForm
<1>6. CASE Cap
  BY <1>1, <1>2, <1>6
     DEF Cap, FormInv, ClosedForm, DelayIsClosedForm
<1>7. CASE Draw
  <2>1. PICK share \in 0..(ceil - ceil \div 2) : delay' = ceil \div 2 + share
    BY <1>7 DEF Draw
  <2>2. ceil = Ceiling(base, limit, failures)
    BY <1>7 DEF Draw, FormInv, DelayIsClosedForm
  <2>3. /\ delay' \in 0..limit /\ ceil \div 2 <= delay' /\ delay' <= ceil
        /\ ceil <= 2 * delay' + 1
    BY <1>2, <2>1
  <2>4. delay' \in Delays(base, limit, failures)
    BY <2>2, <2>3 DEF Delays, Jittered
  <2>5. failures = 1 => ceil = base
    BY <1>1, <1>2, <2>2, FirstCeiling
  <2> QED
    BY <1>1, <1>2, <1>7, <2>3, <2>4, <2>5
       DEF Draw, FormInv, ClosedForm, DelayIsClosedForm
<1>8. CASE UNCHANGED vars
  BY <1>1, <1>8 DEF vars, FormInv, ClosedForm, DelayIsClosedForm
<1> QED
  BY <1>3, <1>4, <1>5, <1>6, <1>7, <1>8 DEF Next, Returned

\* backoff.delay: the loop, its early exit and the draw give one of the delays
\* of the closed form, whatever the interval, the limit and the number of
\* failures; the first one lies between half the interval and the interval.
THEOREM LoopMeetsClosedForm == Spec => []DelayIsClosedForm
<1>1. Init => FormInv
  <2> SUFFICES ASSUME Init PROVE FormInv
    OBVIOUS
  <2>1. RangeInv
    BY LoopAssumption, LimitInRange
       DEF Init, RangeInv, TypeOK, CeilingInRange
  <2>2. limit >= base
    BY LoopAssumption, LimitInRange DEF Init
  <2>3. ceil = base * 2^(i - 1)
    BY <2>1, <2>2, FirstCeiling DEF Init
  <2> QED
    BY <2>1, <2>2, <2>3 DEF Init, FormInv, ClosedForm, DelayIsClosedForm
<1>2. FormInv /\ [Next]_vars => FormInv'
  BY FormStep
<1>3. FormInv => DelayIsClosedForm
  BY DEF FormInv
<1> QED
  BY <1>1, <1>2, <1>3, PTL DEF Spec

=============================================================================
