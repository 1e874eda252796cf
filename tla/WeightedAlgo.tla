---------------------------- MODULE WeightedAlgo ----------------------------
(***************************************************************************)
(* The arithmetic behind the WEIGHTED algorithm: gcdreduce divides a       *)
(* domain's weights by their greatest common divisor, and expandweights    *)
(* then lists every record's index as often as its weight says.  The       *)
(* loops are steps, so that what holds between two of them can be stated;  *)
(* itercount, a statistic that nothing reads, is left out.                 *)
(***************************************************************************)
EXTENDS Integers, SequencesExt

CONSTANTS
  Weights,    \* the weights a record may have
  MaxRecords, \* bound: records of a domain
  Divisors    \* the numbers the properties try as divisors

ASSUME WeightsAssumption ==
  Weights \subseteq Int /\ MaxRecords \in Nat /\ Divisors \subseteq Int

VARIABLES
  pc,         \* the function's next point
  weights,    \* what gcdreduce is given
  reduced,    \* reduced_weights, then what expandweights is given
  expanded,   \* what expandweights is to fill
  i, j,       \* the loop counters, i from 1
  a, b, r     \* gcdreduce's locals

vars == <<pc, weights, reduced, expanded, i, j, a, b, r>>

AbsVal(x) == IF x < 0 THEN -x ELSE x

(* C++ division truncates towards zero and the remainder goes with it.     *)
Quotient(x, y) ==
  LET q == AbsVal(x) \div AbsVal(y)
  IN IF (x < 0) = (y < 0) THEN q ELSE -q

QuotientTaken(x, y) == Quotient(x, y)
Remainder(x, y) == x - y * Quotient(x, y)

Init ==
  /\ pc = "idle"
  /\ weights = <<>> /\ reduced = <<>> /\ expanded = <<>>
  /\ i = 0 /\ j = 0 /\ a = 0 /\ b = 0 /\ r = 0

(* The vectors are new for every call, as in maindemo's reduce command.    *)
Call ==
  /\ pc = "idle"
  /\ weights' \in SeqOf(Weights, MaxRecords)
  /\ pc' = "gcdreduce"
  /\ UNCHANGED <<reduced, expanded, i, j, a, b, r>>

Empty ==
  /\ pc = "gcdreduce"
  /\ weights = <<>>
  /\ r' = 0
  /\ pc' = "reduced"
  /\ UNCHANGED <<weights, reduced, expanded, i, j, a, b>>

First ==
  /\ pc = "gcdreduce"
  /\ weights # <<>>
  /\ r' = weights[1]
  /\ i' = 2
  /\ pc' = "for"
  /\ UNCHANGED <<weights, reduced, expanded, j, a, b>>

NextWeight ==
  /\ pc = "for"
  /\ i <= Len(weights)
  /\ a' = r
  /\ b' = weights[i]
  /\ pc' = "while"
  /\ UNCHANGED <<weights, reduced, expanded, i, j, r>>

EuclidKeepsB ==
  /\ pc = "while"
  /\ a # 0
  /\ a' = Remainder(b, a)
  /\ UNCHANGED <<pc, weights, reduced, expanded, i, j, b, r>>

Euclid ==
  /\ pc = "while"
  /\ a # 0
  /\ a' = Remainder(b, a)
  /\ b' = a
  /\ UNCHANGED <<pc, weights, reduced, expanded, i, j, r>>

EndWhileTakesA ==
  /\ pc = "while"
  /\ a = 0
  /\ r' = a
  /\ i' = i + 1
  /\ pc' = "for"
  /\ UNCHANGED <<weights, reduced, expanded, j, a, b>>

EndWhile ==
  /\ pc = "while"
  /\ a = 0
  /\ r' = b
  /\ i' = i + 1
  /\ pc' = "for"
  /\ UNCHANGED <<weights, reduced, expanded, j, a, b>>

Divide ==
  /\ pc = "for"
  /\ i > Len(weights)
  /\ r # 0
  /\ reduced' = [k \in DOMAIN weights |-> Quotient(weights[k], r)]
  /\ pc' = "reduced"
  /\ UNCHANGED <<weights, expanded, i, j, a, b, r>>

(* Integer division by zero kills the process.                             *)
DivideByZero ==
  /\ pc = "for"
  /\ i > Len(weights)
  /\ r = 0
  /\ pc' = "crashed"
  /\ UNCHANGED <<weights, reduced, expanded, i, j, a, b, r>>

(* expandweights(expanded, reduced): the index of every record, from 0, as *)
(* often as its weight says.  The indexes go to the end of the vector of   *)
(* weights, not to expanded.                                               *)
StartExpand ==
  /\ pc = "reduced"
  /\ expanded' = <<>>
  /\ i' = 1 /\ j' = 0
  /\ pc' = "expand"
  /\ UNCHANGED <<weights, reduced, a, b, r>>

Push ==
  /\ pc = "expand"
  /\ i <= Len(weights)
  /\ j < reduced[i]
  /\ reduced' = Append(reduced, i - 1)
  /\ j' = j + 1
  /\ UNCHANGED <<pc, weights, expanded, i, a, b, r>>

NextIndex ==
  /\ pc = "expand"
  /\ i <= Len(weights)
  /\ j >= reduced[i]
  /\ i' = i + 1 /\ j' = 0
  /\ UNCHANGED <<pc, weights, reduced, expanded, a, b, r>>

EndExpand ==
  /\ pc = "expand"
  /\ i > Len(weights)
  /\ pc' = "expanded"
  /\ UNCHANGED <<weights, reduced, expanded, i, j, a, b, r>>

Step ==
  \/ Empty \/ First \/ NextWeight \/ Euclid \/ EndWhile
  \/ Divide \/ DivideByZero
  \/ StartExpand \/ Push \/ NextIndex \/ EndExpand

Finished == pc \in {"expanded", "crashed"} /\ UNCHANGED vars

Next == Call \/ Step \/ Finished

Spec == Init /\ [][Next]_vars /\ WF_vars(Step)

-----------------------------------------------------------------------------
Points == {"idle", "gcdreduce", "for", "while", "reduced",
           "expand", "expanded", "crashed"}

TypeOK ==
  /\ pc \in Points
  /\ weights \in Seq(Weights)
  /\ reduced \in Seq(Int)
  /\ expanded \in Seq(Int)
  /\ i \in Nat /\ j \in Nat /\ a \in Int /\ b \in Int /\ r \in Int

(* d divides x; the bound on k excludes nothing.                           *)
Divides(d, x) == \E k \in -AbsVal(x)..AbsVal(x) : x = d * k

(* d divides the first n weights; d divides them all.                      *)
DividesFirst(d, n) == \A k \in 1..n : Divides(d, weights[k])
DividesAll(d) == DividesFirst(d, Len(weights))

Reduced == pc \in {"reduced", "expand", "expanded"} /\ weights # <<>>

(* What the loops keep: the common divisors of the weights seen so far are *)
(* the divisors of r, and those of a and b while one more is taken in.     *)
LoopInv(D) ==
  /\ pc \in {"for", "while"} => weights # <<>> /\ i \in 2..Len(weights) + 1
  /\ pc = "for" => \A d \in D : DividesFirst(d, i - 1) <=> Divides(d, r)
  /\ pc = "while" =>
       /\ i <= Len(weights)
       /\ \A d \in D : DividesFirst(d, i) <=> Divides(d, a) /\ Divides(d, b)
  /\ Reduced => \A d \in D : DividesAll(d) <=> Divides(d, r)

(* r is the greatest common divisor of all weights: it divides each, and   *)
(* whatever divides them all divides it (gcdreduce's return value).        *)
GcdIsGreatest ==
  Reduced => /\ DividesAll(r)
             /\ \A d \in Divisors : DividesAll(d) => Divides(d, r)

(* The types, and what the loops keep.                                     *)
IInv == TypeOK /\ LoopInv(Divisors)

(* Reducing loses nothing: the weights are r times the reduced ones, to    *)
(* the last unit, and weights that are not negative stay so.               *)
ReducedInProportion ==
  Reduced => \A k \in DOMAIN weights :
    /\ weights[k] = r * reduced[k]
    /\ (ToSet(weights) \subseteq Nat => reduced[k] \in Nat)

(* Only weights that are all zero crash the process, as the comment above  *)
(* gcdreduce warns; one that is not zero is enough to reduce them all.     *)
OnlyZerosCrash ==
  /\ pc = "crashed" => ToSet(weights) = {0}
  /\ Reduced => ToSet(weights) # {0}

(* gcdreduce comes to an end, whatever the signs of the weights.           *)
Ends == pc = "gcdreduce" ~> pc \in {"expanded", "crashed"}

(* What maindemo's help says of the pair, "reduce the weights then expand  *)
(* to vector list": the expansion has every index as often as its weight.  *)
ExpandedByWeight ==
  pc = "expanded" => \A k \in DOMAIN weights :
    reduced[k] > 0 =>
      Cardinality({n \in DOMAIN expanded : expanded[n] = k - 1}) = reduced[k]
=============================================================================
