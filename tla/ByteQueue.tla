----------------------------- MODULE ByteQueue -----------------------------
(***************************************************************************)
(* What a ring buffer promises: a queue of bytes with a capacity.  A write *)
(* takes what fits, a removal takes from the front, growing loses nothing. *)
(* To remove a negative number of bytes brings back as many, of whatever   *)
(* values, in front of those there are; or the queue is lost, and nothing  *)
(* is promised until there is a new one.                                   *)
(***************************************************************************)
EXTENDS Integers, SequencesExt

CONSTANTS Sizes, Texts, Amounts, NL

VARIABLES queue, capacity, result, lost

vars == <<queue, capacity, result, lost>>

Least(a, b) == IF a < b THEN a ELSE b
Prefix(s, n) == SubSeq(s, 1, n)
Suffix(s, n) == SubSeq(s, n + 1, Len(s))

(* The first line with its newline, or all there is.                       *)
LineLength(s) ==
  LET ends == {k \in DOMAIN s : s[k] = NL}
  IN IF ends = {} THEN Len(s) ELSE CHOOSE k \in ends : \A j \in ends : k <= j

Init == queue = <<>> /\ capacity = 0 /\ result = <<"none">> /\ lost = FALSE

New == \E n \in Sizes :
  /\ result' = <<"none">>
  /\ \/ n < 0 /\ UNCHANGED <<queue, capacity, lost>>
     \/ n >= 0 /\ queue' = <<>> /\ capacity' = n /\ lost' = FALSE

Write == \E text \in Texts :
  LET k == Least(Len(text), capacity - Len(queue))
  IN /\ queue' = queue \o Prefix(text, k)
     /\ result' = <<"wrote", k>>
     /\ UNCHANGED <<capacity, lost>>

Dec == \E n \in Amounts :
  LET k == Least(n, Len(queue))
  IN /\ n >= 0
     /\ queue' = Suffix(queue, k)
     /\ result' = <<"deleted", k>>
     /\ UNCHANGED <<capacity, lost>>

BringBack == \E n \in Amounts :
  /\ n < 0 /\ capacity > 0
  /\ \/ Len(queue') = Len(queue) - n /\ Suffix(queue', -n) = queue /\ lost' = FALSE
     \/ lost' = TRUE
  /\ result' = <<"deleted", n>>
  /\ UNCHANGED capacity

(* Where there is no room nothing comes back.                              *)
NothingBack ==
  /\ capacity = 0 /\ \E n \in Amounts : n < 0
  /\ result' = <<"deleted", 0>>
  /\ UNCHANGED <<queue, capacity, lost>>

PopLine ==
  LET k == LineLength(queue)
  IN /\ queue' = Suffix(queue, k)
     /\ result' = <<"line", Prefix(queue, k)>>
     /\ UNCHANGED <<capacity, lost>>

CountLines ==
  /\ result' = <<"lines", Cardinality({k \in DOMAIN queue : queue[k] = NL})>>
  /\ UNCHANGED <<queue, capacity, lost>>

Grow == capacity' = 2 * capacity /\ result' = <<"none">> /\ UNCHANGED <<queue, lost>>

(* The bytes shown as used, from the front.                                *)
Show == result' = <<"used", Len(queue)>> /\ UNCHANGED <<queue, capacity, lost>>

(* What a read of n bytes returns is left open.                            *)
Read == \E n \in Amounts :
  /\ result' = IF n < -1 THEN <<"none">> ELSE <<"read">>
  /\ UNCHANGED <<queue, capacity, lost>>

Operation ==
  \/ Write \/ Dec \/ BringBack \/ NothingBack \/ PopLine \/ CountLines \/ Grow
  \/ Show \/ Read

(* Of a lost queue only the capacity is known.                             *)
Lost == lost /\ capacity' \in {capacity, 2 * capacity}

Next == New \/ (~lost /\ Operation) \/ Lost

Spec == Init /\ [][Next]_vars
=============================================================================
