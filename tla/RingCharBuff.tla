---------------------------- MODULE RingCharBuff ----------------------------
(***************************************************************************)
(* The ring of the echo client, ringcharbuff_t: used bytes from position h *)
(* on, wrapping around.  Unlike the demo shell's ring, get leaves the      *)
(* bytes it returns where they are; dec removes them.                      *)
(***************************************************************************)
EXTENDS Integers, SequencesExt

Least(a, b) == IF a < b THEN a ELSE b

RingInit(size) == [h |-> 0, size |-> size, used |-> 0, data |-> [i \in 0..(size - 1) |-> 0]]

RingFree(r) == r.size - r.used
At(r, n) == (r.h + n) % r.size

RingGet(r, nbytes) == [k \in 1..Least(nbytes, r.used) |-> r.data[At(r, k - 1)]]

RingAdd(r, bytes) ==
  LET n == Least(Len(bytes), RingFree(r))
      Position(i) == {k \in 1..n : At(r, r.used + k - 1) = i}
  IN [r EXCEPT !.used = @ + n,
               !.data = [i \in DOMAIN r.data |->
                  IF Position(i) = {} THEN r.data[i]
                  ELSE bytes[CHOOSE k \in Position(i) : TRUE]]]

RingDec(r, nbytes) ==
  LET n == Least(nbytes, r.used)
  IN IF r.size = 0 THEN r ELSE [r EXCEPT !.h = At(r, n), !.used = @ - n]

(* The used bytes move to the front of the new array.                      *)
RingResize(r, size) ==
  IF size < r.used THEN r
  ELSE [h |-> 0, size |-> size, used |-> r.used,
        data |-> [i \in 0..(size - 1) |-> IF i < r.used THEN r.data[At(r, i)] ELSE 0]]

RingOK(r) ==
  /\ r.h \in 0..(r.size - 1) /\ r.used \in 0..r.size
  /\ DOMAIN r.data = 0..(r.size - 1)
RingBytes(r) == RingGet(r, r.used)
=============================================================================
