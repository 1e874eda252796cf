----------------------------- MODULE BitVector -----------------------------
(***************************************************************************)
(* What a bit array promises: a vector of bits, all 0 at first, of which a *)
(* write changes the one it names and a read returns what was written.     *)
(***************************************************************************)
EXTENDS Integers

CONSTANT Sizes

VARIABLES bits, answer

Positions == DOMAIN bits
Zeros(n) == [p \in 0..(n - 1) |-> 0]

Init == \E n \in Sizes : bits = Zeros(n) /\ answer = <<>>

Allocate == \E n \in Sizes : bits' = Zeros(n) /\ answer' = <<>>
Write == \E p \in Positions, b \in {0, 1} :
  bits' = [bits EXCEPT ![p] = b] /\ answer' = <<"written", p, b>>
Read == UNCHANGED bits /\ \E p \in Positions : answer' = <<"read", p, bits[p]>>
Refuse == UNCHANGED bits /\ answer' = <<>>

Spec == Init /\ [][Allocate \/ Write \/ Read \/ Refuse]_<<bits, answer>>
=============================================================================
