------------------------- MODULE WeightedAlgoProofs -------------------------
(***************************************************************************)
(* gcdreduce computes the greatest common divisor of any weights, of any   *)
(* sign and however many, and divides by it exactly.                       *)
(***************************************************************************)
EXTENDS WeightedAlgo, SequenceTheorems, TLAPS

(* The bound in Divides excludes no factor.                                *)
LEMMA AnyFactor ==
  ASSUME NEW d \in Int, NEW k \in Int
  PROVE  Divides(d, d * k)
<1>1. CASE d = 0
  BY <1>1 DEF Divides, AbsVal
<1>2. CASE d # 0
  <2>1. AbsVal(k) <= AbsVal(d * k)
    BY <1>2, SMTT(30) DEF AbsVal
  <2>2. k \in -AbsVal(d * k)..AbsVal(d * k)
    BY <2>1 DEF AbsVal
  <2> QED
    BY <2>2 DEF Divides
<1> QED
  BY <1>1, <1>2

(* A number divides itself.                                                *)
LEMMA DividesItself == ASSUME NEW d \in Int PROVE Divides(d, d)
<1>1. CASE d = 0
  BY <1>1 DEF Divides, AbsVal
<1>2. CASE d # 0
  <2>1. 1 \in -AbsVal(d)..AbsVal(d) /\ d = d * 1
    BY <1>2 DEF AbsVal
  <2> QED
    BY <2>1 DEF Divides
<1> QED
  BY <1>1, <1>2

(* Division yields an integer.                                             *)
LEMMA QuotientType ==
  ASSUME NEW x \in Int, NEW y \in Int, y # 0
  PROVE  Quotient(x, y) \in Int
<1>1. AbsVal(x) \in Int /\ AbsVal(y) \in Int /\ AbsVal(y) > 0
  BY DEF AbsVal
<1>2. AbsVal(x) \div AbsVal(y) \in Int
  BY <1>1
<1> QED
  BY <1>2 DEF Quotient

(* One turn of the while loop keeps the common divisors.                   *)
LEMMA RemainderDivisors ==
  ASSUME NEW x \in Int, NEW y \in Int, y # 0, NEW d \in Int
  PROVE  Divides(d, y) /\ Divides(d, x)
           <=> Divides(d, Remainder(x, y)) /\ Divides(d, y)
<1> DEFINE q == Quotient(x, y)
<1>1. q \in Int
  BY QuotientType
<1> HIDE DEF q
<1>2. ASSUME NEW k \in Int, y = d * k, NEW m \in Int, x = d * m
      PROVE  Divides(d, x - y * q)
  <2>1. x - y * q = d * (m - k * q)
    BY <1>1, <1>2
  <2>2. m - k * q \in Int
    BY <1>1, <1>2
  <2> QED
    BY <2>1, <2>2, AnyFactor
<1>3. ASSUME NEW k \in Int, y = d * k, NEW m \in Int, x - y * q = d * m
      PROVE  Divides(d, x)
  <2>1. x = d * (m + k * q)
    BY <1>1, <1>3
  <2>2. m + k * q \in Int
    BY <1>1, <1>3
  <2> QED
    BY <2>1, <2>2, AnyFactor
<1>4. Remainder(x, y) = x - y * q
  BY DEF Remainder, q
<1>5. \A z : Divides(d, z) => \E k \in Int : z = d * k
  BY DEF Divides
<1> QED
  BY <1>2, <1>3, <1>4, <1>5

(* What divides a number divides it without a rest.                        *)
LEMMA ExactQuotient ==
  ASSUME NEW x \in Int, NEW y \in Int, y # 0, Divides(y, x)
  PROVE  /\ x = y * Quotient(x, y)
         /\ x >= 0 /\ y > 0 => Quotient(x, y) >= 0
<1>1. PICK k \in Int : x = y * k
  BY DEF Divides, AbsVal
<1>2. ASSUME NEW m \in Nat, NEW n \in Nat, n # 0
      PROVE  (n * m) \div n = m
  BY <1>2, SMTT(30)
<1>3. AbsVal(x) = AbsVal(y) * AbsVal(k) /\ AbsVal(k) \in Nat
      /\ AbsVal(y) \in Nat \ {0}
  BY <1>1, SMTT(30) DEF AbsVal
<1>4. AbsVal(x) \div AbsVal(y) = AbsVal(k)
  BY <1>2, <1>3
<1>5. Quotient(x, y) = IF (x < 0) = (y < 0) THEN AbsVal(k) ELSE -AbsVal(k)
  BY <1>4 DEF Quotient
<1>6. x = y * (IF (x < 0) = (y < 0) THEN AbsVal(k) ELSE -AbsVal(k))
  BY <1>1, SMTT(30) DEF AbsVal
<1> QED
  BY <1>3, <1>5, <1>6

-----------------------------------------------------------------------------
(* What the functions keep, for all integers as divisors.                  *)
Strong == TypeOK /\ LoopInv(Int)

(* The initial state satisfies it.                                         *)
LEMMA InitStrong == Init => Strong
BY DEF Init, Strong, TypeOK, LoopInv, Points, Reduced

(* Every step keeps it.                                                    *)
LEMMA StepStrong == Strong /\ [Next]_vars => Strong'
<1> SUFFICES ASSUME Strong, [Next]_vars PROVE Strong'
  OBVIOUS
<1>t. TypeOK
  BY DEF Strong
<1>l. LoopInv(Int)
  BY DEF Strong
<1>w. \A k \in 1..Len(weights) : weights[k] \in Int
  <2>1. \A k \in 1..Len(weights) : weights[k] \in Weights
    BY <1>t, ElementOfSeq DEF TypeOK
  <2> QED
    BY <2>1, WeightsAssumption
<1>d. DOMAIN weights = 1..Len(weights)
  BY <1>t DEF TypeOK
<1>1. CASE Call
  <2>1. weights' \in Seq(Weights)
    BY <1>1 DEF Call, SeqOf
  <2> QED
    BY <1>1, <1>t, <2>1
    DEF Call, Strong, TypeOK, LoopInv, Points, Reduced
<1>2. CASE Empty
  BY <1>2, <1>t DEF Empty, Strong, TypeOK, LoopInv, Points, Reduced
<1>3. CASE First
  <2>1. TypeOK' /\ pc' = "for" /\ i' = 2 /\ weights' = weights /\ Len(weights) >= 1
    BY <1>3, <1>t, <1>w DEF First, TypeOK, Points
  <2>2. \A d \in Int : DividesFirst(d, 1)' <=> Divides(d, r')
    BY <1>3, <2>1 DEF First, DividesFirst
  <2> QED
    BY <1>3, <2>1, <2>2 DEF Strong, LoopInv, Reduced, First
<1>4. CASE NextWeight
  <2>1. TypeOK'
    <3>1. weights[i] \in Int
      BY <1>4, <1>l, <1>t, <1>w DEF NextWeight, LoopInv, TypeOK
    <3> QED
      BY <1>4, <1>t, <3>1 DEF NextWeight, TypeOK, Points
  <2>2. \A d \in Int : DividesFirst(d, i)
                         <=> DividesFirst(d, i - 1) /\ Divides(d, weights[i])
    BY <1>4, <1>t, <1>l DEF NextWeight, TypeOK, LoopInv, DividesFirst
  <2>3. \A d \in Int : DividesFirst(d, i)' <=> DividesFirst(d, i)
    BY <1>4 DEF NextWeight, DividesFirst
  <2> QED
    BY <1>4, <1>l, <2>1, <2>2, <2>3 DEF NextWeight, Strong, LoopInv, Reduced
<1>5. CASE Euclid
  <2>1. Remainder(b, a) \in Int
    BY <1>5, <1>t, QuotientType DEF Euclid, TypeOK, Remainder
  <2>2. TypeOK'
    BY <1>5, <1>t, <2>1 DEF Euclid, TypeOK, Points
  <2>3. \A d \in Int : Divides(d, a) /\ Divides(d, b)
                         <=> Divides(d, a') /\ Divides(d, b')
    BY <1>5, <1>t, RemainderDivisors DEF Euclid, TypeOK
  <2>4. \A d \in Int : DividesFirst(d, i)' <=> DividesFirst(d, i)
    BY <1>5 DEF Euclid, DividesFirst
  <2> QED
    BY <1>5, <1>l, <2>2, <2>3, <2>4 DEF Euclid, Strong, LoopInv, Reduced
<1>6. CASE EndWhile
  <2>1. TypeOK' /\ a = 0
    BY <1>6, <1>t DEF EndWhile, TypeOK, Points
  <2>2. \A d \in Int : Divides(d, 0)
    BY DEF Divides, AbsVal
  <2>3. \A d \in Int : DividesFirst(d, i - 1)' <=> DividesFirst(d, i)
    BY <1>6, <1>t DEF EndWhile, TypeOK, DividesFirst
  <2>4. i' \in 2..Len(weights) + 1 /\ weights # <<>>
    BY <1>6, <1>t, <1>l DEF EndWhile, TypeOK, LoopInv
  <2>5. \A d \in Int : DividesFirst(d, i - 1)' <=> Divides(d, r')
    BY <1>6, <1>l, <2>1, <2>2, <2>3 DEF EndWhile, LoopInv
  <2> QED
    BY <1>6, <2>1, <2>4, <2>5 DEF EndWhile, Strong, LoopInv, Reduced
<1>7. CASE Divide
  <2>1. \A k \in DOMAIN weights : Quotient(weights[k], r) \in Int
    BY <1>7, <1>t, <1>w, <1>d, QuotientType DEF Divide, TypeOK
  <2>2. reduced' \in Seq(Int)
    <3>1. Len(weights) \in Nat
      BY <1>t DEF TypeOK
    <3>2. reduced' \in [1..Len(weights) -> Int]
      BY <1>7, <1>d, <2>1 DEF Divide
    <3> QED
      BY <3>1, <3>2
  <2>3. TypeOK'
    BY <1>7, <1>t, <2>2 DEF Divide, TypeOK, Points
  <2>4. i - 1 = Len(weights)
    BY <1>7, <1>t, <1>l DEF Divide, TypeOK, LoopInv
  <2>5. \A d \in Int : DividesAll(d)' <=> Divides(d, r')
    BY <1>7, <1>l, <2>4 DEF Divide, LoopInv, DividesAll, DividesFirst
  <2> QED
    BY <1>7, <2>3, <2>5 DEF Divide, Strong, LoopInv
<1>8. CASE DivideByZero
  BY <1>8, <1>t DEF DivideByZero, Strong, TypeOK, LoopInv, Points, Reduced
<1>9. CASE StartExpand \/ Push \/ NextIndex \/ EndExpand
  <2>1. TypeOK'
    <3>1. CASE StartExpand
      BY <3>1, <1>t DEF StartExpand, TypeOK, Points
    <3>2. CASE Push
      BY <3>2, <1>t DEF Push, TypeOK, Points
    <3>3. CASE NextIndex
      BY <3>3, <1>t DEF NextIndex, TypeOK, Points
    <3>4. CASE EndExpand
      BY <3>4, <1>t DEF EndExpand, TypeOK, Points
    <3> QED
      BY <1>9, <3>1, <3>2, <3>3, <3>4
  <2>2. /\ weights' = weights /\ r' = r
        /\ pc \in {"reduced", "expand"} /\ pc' \in {"expand", "expanded"}
    BY <1>9 DEF StartExpand, Push, NextIndex, EndExpand
  <2>3. \A d \in Int : DividesAll(d)' <=> DividesAll(d)
    BY <2>2 DEF DividesAll, DividesFirst
  <2> QED
    BY <1>l, <2>1, <2>2, <2>3 DEF Strong, LoopInv, Reduced
<1>10. CASE UNCHANGED vars
  BY <1>10, <1>t, <1>l
  DEF vars, Strong, TypeOK, LoopInv, Reduced, DividesAll, DividesFirst
<1> QED
  BY <1>1, <1>2, <1>3, <1>4, <1>5, <1>6, <1>7, <1>8, <1>9, <1>10
  DEF Next, Step, Finished

-----------------------------------------------------------------------------
(* The remainder of a number that is not negative is not negative.         *)
LEMMA RemainderSign ==
  ASSUME NEW x \in Nat, NEW y \in Nat, y # 0
  PROVE  Remainder(x, y) >= 0
<1>1. Quotient(x, y) = x \div y
  BY DEF Quotient, AbsVal
<1>2. x - y * (x \div y) >= 0
  BY SMTT(30)
<1> QED
  BY <1>1, <1>2 DEF Remainder

(* No weight is negative.                                                  *)
NonNegative == \A k \in 1..Len(weights) : weights[k] >= 0

(* gcdreduce's locals are not negative unless a weight is.                 *)
Signs ==
  NonNegative =>
    /\ pc = "for" \/ Reduced => r >= 0
    /\ pc = "while" => a >= 0 /\ b >= 0

(* The weights are r times the first of the reduced ones, to which         *)
(* expandweights appends.                                                  *)
Proportion ==
  Reduced =>
    /\ r # 0
    /\ Len(reduced) >= Len(weights)
    /\ \A k \in 1..Len(weights) :
         /\ weights[k] = r * reduced[k]
         /\ NonNegative => reduced[k] >= 0

(* The crash comes of zeros only.                                          *)
Crash ==
  pc = "crashed" =>
    weights # <<>> /\ \A k \in 1..Len(weights) : weights[k] = 0

(* The locals' signs, step by step.                                        *)
LEMMA StepSigns == Strong /\ Signs /\ [Next]_vars => Signs'
<1> SUFFICES ASSUME Strong, Signs, [Next]_vars PROVE Signs'
  OBVIOUS
<1>t. TypeOK /\ LoopInv(Int)
  BY DEF Strong
<1>1. CASE Call
  BY <1>1 DEF Call, Signs, Reduced
<1>2. CASE Empty
  BY <1>2 DEF Empty, Signs, Reduced
<1>3. CASE First
  <2>1. Len(weights) >= 1
    BY <1>3, <1>t DEF First, TypeOK
  <2> QED
    BY <1>3, <1>t, <2>1 DEF First, Signs, NonNegative, Reduced, TypeOK
<1>4. CASE NextWeight
  <2>1. i \in 1..Len(weights)
    BY <1>4, <1>t DEF NextWeight, TypeOK, LoopInv
  <2> QED
    BY <1>4, <2>1 DEF NextWeight, Signs, NonNegative, Reduced
<1>5. CASE Euclid
  <2>1. NonNegative' <=> NonNegative
    BY <1>5 DEF Euclid, NonNegative
  <2>2. NonNegative => Remainder(b, a) >= 0
    BY <1>5, <1>t, RemainderSign DEF Euclid, Signs, TypeOK
  <2> QED
    BY <1>5, <2>1, <2>2 DEF Euclid, Signs, Reduced
<1>6. CASE EndWhile
  BY <1>6 DEF EndWhile, Signs, NonNegative, Reduced
<1>7. CASE Divide
  BY <1>7 DEF Divide, Signs, NonNegative, Reduced
<1>8. CASE DivideByZero
  BY <1>8 DEF DivideByZero, Signs, NonNegative, Reduced
<1>9. CASE StartExpand \/ Push \/ NextIndex \/ EndExpand
  BY <1>9 DEF StartExpand, Push, NextIndex, EndExpand, Signs, NonNegative, Reduced
<1>10. CASE UNCHANGED vars
  BY <1>10 DEF vars, Signs, NonNegative, Reduced
<1> QED
  BY <1>1, <1>2, <1>3, <1>4, <1>5, <1>6, <1>7, <1>8, <1>9, <1>10
  DEF Next, Step, Finished

(* The proportion, step by step.                                           *)
LEMMA StepProportion ==
  Strong /\ Signs /\ Proportion /\ [Next]_vars => Proportion'
<1> SUFFICES ASSUME Strong, Signs, Proportion, [Next]_vars PROVE Proportion'
  OBVIOUS
<1>t. TypeOK /\ LoopInv(Int)
  BY DEF Strong
<1>w. \A k \in 1..Len(weights) : weights[k] \in Int
  <2>1. \A k \in 1..Len(weights) : weights[k] \in Weights
    BY <1>t, ElementOfSeq DEF TypeOK
  <2> QED
    BY <2>1, WeightsAssumption
<1>1. CASE Divide
  <2>1. i - 1 = Len(weights) /\ r \in Int /\ r # 0 /\ Len(weights) \in Nat
        /\ DOMAIN weights = 1..Len(weights)
    BY <1>1, <1>t DEF Divide, TypeOK, LoopInv
  <2>2. Divides(r, r)
    BY <2>1, DividesItself
  <2>3. DividesFirst(r, Len(weights))
    BY <1>1, <1>t, <2>1, <2>2 DEF Divide, LoopInv
  <2>4. \A k \in 1..Len(weights) :
          /\ weights[k] = r * Quotient(weights[k], r)
          /\ weights[k] >= 0 /\ r > 0 => Quotient(weights[k], r) >= 0
    BY <1>w, <2>1, <2>3, ExactQuotient DEF DividesFirst
  <2>5. NonNegative => r > 0
    BY <1>1, <2>1 DEF Divide, Signs
  <2>6. /\ weights' = weights /\ r' = r /\ (NonNegative' <=> NonNegative)
        /\ Len(reduced') = Len(weights)
        /\ \A k \in 1..Len(weights) : reduced'[k] = Quotient(weights[k], r)
    BY <1>1, <2>1 DEF Divide, NonNegative
  <2> QED
    BY <2>1, <2>4, <2>5, <2>6 DEF Proportion, NonNegative
<1>2. CASE Push
  <2> SUFFICES ASSUME Reduced' PROVE Proportion'
    BY DEF Proportion
  <2>1. weights' = weights /\ r' = r /\ Reduced /\ (NonNegative' <=> NonNegative)
    BY <1>2 DEF Push, Reduced, NonNegative
  <2>2. /\ Len(reduced') >= Len(weights)
        /\ \A k \in 1..Len(weights) : reduced'[k] = reduced[k]
    BY <1>2, <1>t, <2>1 DEF Push, Proportion, TypeOK
  <2> QED
    BY <2>1, <2>2 DEF Proportion
<1>3. CASE StartExpand \/ NextIndex \/ EndExpand
  BY <1>3 DEF StartExpand, NextIndex, EndExpand, Proportion, Reduced, NonNegative
<1>4. CASE Call \/ Empty \/ First \/ NextWeight \/ Euclid \/ EndWhile \/ DivideByZero
  BY <1>4 DEF Call, Empty, First, NextWeight, Euclid, EndWhile, DivideByZero,
              Proportion, Reduced
<1>5. CASE UNCHANGED vars
  BY <1>5 DEF vars, Proportion, Reduced, NonNegative
<1> QED
  BY <1>1, <1>2, <1>3, <1>4, <1>5 DEF Next, Step, Finished

(* Zero divides zero only.                                                 *)
LEMMA ZeroDivides == ASSUME NEW x \in Int, Divides(0, x) PROVE x = 0
BY DEF Divides, AbsVal

(* The crash, step by step.                                                *)
LEMMA StepCrash == Strong /\ Crash /\ [Next]_vars => Crash'
<1> SUFFICES ASSUME Strong, Crash, [Next]_vars PROVE Crash'
  OBVIOUS
<1>t. TypeOK /\ LoopInv(Int)
  BY DEF Strong
<1>1. CASE DivideByZero
  <2>1. i - 1 = Len(weights) /\ weights # <<>> /\ r = 0
    BY <1>1, <1>t DEF DivideByZero, TypeOK, LoopInv
  <2>2. Divides(0, 0)
    BY DEF Divides, AbsVal
  <2>3. DividesFirst(0, Len(weights))
    BY <1>1, <1>t, <2>1, <2>2 DEF DivideByZero, LoopInv
  <2>4. \A k \in 1..Len(weights) : weights[k] = 0
    BY <2>3 DEF DividesFirst, Divides, AbsVal
  <2> QED
    BY <1>1, <2>1, <2>4 DEF DivideByZero, Crash
<1>2. CASE Call \/ Empty \/ First \/ NextWeight \/ Euclid \/ EndWhile \/ Divide
           \/ StartExpand \/ Push \/ NextIndex \/ EndExpand
  BY <1>2 DEF Call, Empty, First, NextWeight, Euclid, EndWhile, Divide,
              StartExpand, Push, NextIndex, EndExpand, Crash
<1>3. CASE UNCHANGED vars
  BY <1>3 DEF vars, Crash
<1> QED
  BY <1>1, <1>2, <1>3 DEF Next, Step, Finished

-----------------------------------------------------------------------------
(* The inductive invariant of gcdreduce and expandweights.                 *)
Inductive == Strong /\ Signs /\ Proportion /\ Crash

(* It holds in every reachable state.                                      *)
LEMMA AlwaysInductive == Spec => []Inductive
<1>1. Init => Inductive
  BY InitStrong DEF Inductive, Init, Signs, Proportion, Crash, Reduced
<1>2. Inductive /\ [Next]_vars => Inductive'
  BY StepStrong, StepSigns, StepProportion, StepCrash DEF Inductive
<1> QED
  BY <1>1, <1>2, PTL DEF Spec

(* What the loops keep holds of every set of divisors.                     *)
THEOREM LoopsKeepTheDivisors == Spec => []IInv
<1>1. Inductive => IInv
  BY WeightsAssumption DEF Inductive, Strong, IInv, LoopInv
<1> QED
  BY <1>1, AlwaysInductive, PTL

(* gcdreduce returns the greatest common divisor of any weights at all.    *)
THEOREM GreatestCommonDivisor == Spec => []GcdIsGreatest
<1>1. Inductive => GcdIsGreatest
  <2> SUFFICES ASSUME Inductive, Reduced
               PROVE  /\ DividesAll(r)
                      /\ \A d \in Divisors : DividesAll(d) => Divides(d, r)
    BY DEF GcdIsGreatest
  <2>1. r \in Int /\ \A d \in Int : DividesAll(d) <=> Divides(d, r)
    BY DEF Inductive, Strong, TypeOK, LoopInv
  <2>2. Divides(r, r)
    BY <2>1, DividesItself
  <2> QED
    BY <2>1, <2>2, WeightsAssumption
<1> QED
  BY <1>1, AlwaysInductive, PTL

(* It divides every weight by it without a rest and keeps the signs of     *)
(* weights that are not negative.                                          *)
THEOREM ReductionIsExact == Spec => []ReducedInProportion
<1>1. Inductive => ReducedInProportion
  <2> SUFFICES ASSUME Inductive, Reduced, NEW k \in DOMAIN weights
               PROVE  /\ weights[k] = r * reduced[k]
                      /\ ToSet(weights) \subseteq Nat => reduced[k] \in Nat
    BY DEF ReducedInProportion
  <2>1. /\ DOMAIN weights = 1..Len(weights) /\ reduced \in Seq(Int)
        /\ Len(reduced) >= Len(weights)
    BY DEF Inductive, Strong, TypeOK, Proportion
  <2>2. k \in 1..Len(reduced)
    BY <2>1 DEF Inductive, Strong, TypeOK
  <2>3. reduced[k] \in Int
    BY <2>1, <2>2, ElementOfSeq
  <2>4. ToSet(weights) \subseteq Nat => NonNegative
    BY <2>1 DEF ToSet, NonNegative
  <2> QED
    BY <2>1, <2>3, <2>4 DEF Inductive, Proportion
<1> QED
  BY <1>1, AlwaysInductive, PTL

(* It divides by zero if, and only if, all weights are zero.               *)
THEOREM ZerosAloneCrash == Spec => []OnlyZerosCrash
<1>1. Inductive => OnlyZerosCrash
  <2> SUFFICES ASSUME Inductive PROVE OnlyZerosCrash
    OBVIOUS
  <2>1. DOMAIN weights = 1..Len(weights) /\ Len(weights) \in Nat
        /\ (weights # <<>> => Len(weights) >= 1) /\ r \in Int
    BY DEF Inductive, Strong, TypeOK
  <2>2. pc = "crashed" => ToSet(weights) = {0}
    BY <2>1 DEF Inductive, Crash, ToSet
  <2>3. ASSUME Reduced PROVE ToSet(weights) # {0}
    <3> SUFFICES ASSUME ToSet(weights) = {0} PROVE FALSE
      OBVIOUS
    <3>1. \A k \in 1..Len(weights) : weights[k] = 0
      BY <2>1 DEF ToSet
    <3>2. DividesAll(0)
      BY <3>1 DEF DividesAll, DividesFirst, Divides, AbsVal
    <3>3. Divides(0, r)
      BY <2>3, <3>2 DEF Inductive, Strong, LoopInv
    <3>4. r = 0
      BY <2>1, <3>3, ZeroDivides
    <3> QED
      BY <2>3, <3>4 DEF Inductive, Proportion
  <2> QED
    BY <2>2, <2>3 DEF OnlyZerosCrash
<1> QED
  BY <1>1, AlwaysInductive, PTL
=============================================================================
