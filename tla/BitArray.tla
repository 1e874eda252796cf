------------------------------ MODULE BitArray ------------------------------
(***************************************************************************)
(* The bit array of the demo shell, and the shell's commands on it.  Bits  *)
(* are packed into words of INT_BITS; a word is the set of its positions   *)
(* that are 1.  An exception is caught by the shell, which goes on.        *)
(***************************************************************************)
EXTENDS Integers, SequencesExt

CONSTANTS
  INT_BITS,   \* the width of a word; a multiple of four
  Default,    \* the size the shell starts with
  Sizes,      \* the sizes, positions and values typed in
  Inputs,
  Values

WordAssumption ==
  /\ INT_BITS \in {4 * k : k \in 1..16} /\ Default \in Nat
  /\ Sizes \subseteq Int /\ Inputs \subseteq Int /\ Values \subseteq Int

VARIABLES
  ba,        \* the shell's array
  shown      \* what the last command printed

vars == <<ba, shown>>

(* The C division rounds towards zero.                                     *)
Div(a, b) == IF a < 0 THEN -((-a) \div b) ELSE a \div b

Allocated(nBits) ==
  [nBits |-> nBits, bits |-> [i \in 0..Div(nBits - 1, INT_BITS) |-> {}]]

Undefined == 2   \* what lies behind the last word: not a bit

(* The bound is nBits, one more than setBit's.                             *)
InRange(array, pos) == 0 <= pos /\ pos <= array.nBits
getBit(array, pos) ==
  LET i == pos \div INT_BITS
      r == pos % INT_BITS
  IN CASE i \notin DOMAIN array.bits -> Undefined
       [] i \in DOMAIN array.bits /\ r \in array.bits[i] -> 1
       [] OTHER -> 0

(* Mutant: the upper bound is getBit's.                                    *)
UpToNBits(array, pos) == 0 <= pos /\ pos <= array.nBits

Settable(array, pos) == 0 <= pos /\ pos < array.nBits

(* Mutant: a 0 flips the bit.                                              *)
Flipped(array, pos, val) ==
  [array EXCEPT !.bits[pos \div INT_BITS] =
     IF pos % INT_BITS \in @ THEN @ \ {pos % INT_BITS} ELSE @ \cup {pos % INT_BITS}]

WithBit(array, pos, val) ==
  [array EXCEPT !.bits[pos \div INT_BITS] =
     IF val % 2 = 0 THEN @ \ {pos % INT_BITS} ELSE @ \cup {pos % INT_BITS}]

(* Digits are numbers, the most significant first.                         *)
to_bin(array) == Reverse([k \in 1..array.nBits |-> getBit(array, k - 1)])

(* Every word is printed in full, whether or not all of its bits exist.    *)
Nibble(word, k) ==
  LET Bit(b) == IF 4 * k + b \in word THEN 1 ELSE 0
  IN Bit(0) + 2 * Bit(1) + 4 * Bit(2) + 8 * Bit(3)
to_hex(array) ==
  IF array.nBits <= 0 THEN <<>>
  ELSE LET digits == INT_BITS \div 4
           words == Div(array.nBits - 1, INT_BITS) + 1
       IN Reverse([d \in 1..(digits * words) |->
            Nibble(array.bits[(d - 1) \div digits], (d - 1) % digits)])

-----------------------------------------------------------------------------
Nothing == [cmd |-> "none"]
Exception == [cmd |-> "exception"]

Init == ba = Allocated(Default) /\ shown = Nothing

New == \E n \in Sizes :
  IF n < 0 THEN shown' = Exception /\ UNCHANGED ba
  ELSE ba' = Allocated(n) /\ shown' = Nothing

Set == \E pos \in Inputs, val \in Values :
  IF Settable(ba, pos)
  THEN ba' = WithBit(ba, pos, val) /\ shown' = [cmd |-> "bas", pos |-> pos, bit |-> val % 2]
  ELSE shown' = Exception /\ UNCHANGED ba

Get == \E pos \in Inputs :
  /\ shown' = IF InRange(ba, pos) THEN [cmd |-> "bag", pos |-> pos, bit |-> getBit(ba, pos)]
              ELSE Exception
  /\ UNCHANGED ba

Hex == shown' = [cmd |-> "bah", digits |-> to_hex(ba)] /\ UNCHANGED ba
Bin == shown' = [cmd |-> "bab", digits |-> to_bin(ba)] /\ UNCHANGED ba

Next == New \/ Set \/ Get \/ Hex \/ Bin
Spec == Init /\ [][Next]_vars

-----------------------------------------------------------------------------
(* Properties.                                                             *)

(* bah and bab print the same number: counted from the right, each digit   *)
(* of bah stands for four of bab, or for as many of them as are left.  bah *)
(* prints whole words, so the bits of the last word that do not exist must *)
(* never have been set.                                                    *)
HexAndBinAgree ==
  LET hex == Reverse(to_hex(ba))
      bin == Reverse(to_bin(ba))
      Bit(p) == IF p <= Len(bin) THEN bin[p] ELSE 0
  IN /\ Len(bin) <= 4 * Len(hex)
     /\ \A d \in DOMAIN hex :
          hex[d] = Bit(4 * d - 3) + 2 * Bit(4 * d - 2) + 4 * Bit(4 * d - 1) + 8 * Bit(4 * d)

(* The packed words are a vector of bits: bas changes the one bit it       *)
(* names, bag shows what was set last, a refused command changes nothing.  *)
(* A read at nBits, which getBit lets through, is left out.                *)
Vector == INSTANCE BitVector WITH
  Sizes <- {Default} \cup (Sizes \cap Nat),
  bits <- [p \in 0..(ba.nBits - 1) |-> getBit(ba, p)],
  answer <- CASE shown.cmd = "bas" -> <<"written", shown.pos, shown.bit>>
              [] shown.cmd = "bag" /\ shown.pos < ba.nBits ->
                   <<"read", shown.pos, shown.bit>>
              [] OTHER -> <<>>
ImplementsBitVector == Vector!Spec
=============================================================================
