----------------------------- MODULE RingBuffer -----------------------------
(***************************************************************************)
(* The ring buffer of the demo shell and the shell's commands on it: the   *)
(* used bytes start at h_idx and wrap around the end of the array.  Numbers *)
(* are typed in and go unchecked into the buffer: nrbdec with a negative   *)
(* one brings bytes back, and may take the head out of the array.          *)
(***************************************************************************)
EXTENDS Integers, SequencesExt

CONSTANTS
  Sizes,     \* the sizes typed after nrb
  Words,     \* the texts typed after nrbw, and "X" repeated for nrbws
  Amounts,   \* the numbers of bytes typed after nrbdec and nrbr
  MaxSize,   \* bound: nrbdc is not typed beyond this size
  MaxUsed,   \* bound: no more bytes than these are brought back
  NL

NumbersAssumption ==
  /\ Sizes \subseteq Int /\ Amounts \subseteq Int
  /\ \A w \in Words : w \in Seq(ToSet(w))

VARIABLES
  rb,       \* the shell's buffer
  result    \* what the last command printed

vars == <<rb, result>>

Unset == "junk"           \* what lies outside of the array
Leftovers == {Unset, NL}  \* what an allocated byte may hold before it is written
Fresh(ds, old) == [data_size |-> ds, h_idx |-> 0, used |-> 0,
                   data |-> [i \in 0..(ds - 1) |-> old]]

(* The remainder has the sign of the dividend.                             *)
Rem(a, m) == IF a >= 0 THEN a % m ELSE -((-a) % m)

(* The used positions in order, and the position n bytes after the first.  *)
At(b, n) == Rem(b.h_idx + n, b.data_size)
Byte(b, n) == IF At(b, n) \in DOMAIN b.data THEN b.data[At(b, n)] ELSE Unset
Used(b) == [k \in 1..b.used |-> Byte(b, k - 1)]
free_size(b) == b.data_size - b.used

(* The head is inside, and there is a place for every used byte.           *)
Sound(b) == 0 <= b.h_idx /\ b.used <= b.data_size

(* Assignment copies the used bytes to the same positions.                 *)
Assigned(orig, old) ==
  [orig EXCEPT !.data = [i \in DOMAIN orig.data |->
     IF \E n \in 0..(orig.used - 1) : At(orig, n) = i THEN orig.data[i] ELSE old]]

Without(b, n) ==
  IF b.data_size = 0 THEN b
  ELSE [b EXCEPT !.h_idx = At(b, n), !.used = @ - n]

Removed(b, dec_size) == IF dec_size < b.used THEN dec_size ELSE b.used

(* Bytes are written behind the used ones until the text or the room ends. *)
Written(b, text) ==
  CASE Len(text) < free_size(b) -> Len(text)
    [] 0 <= free_size(b) /\ free_size(b) <= Len(text) -> free_size(b)
    [] free_size(b) < 0 -> 0
With(b, text) ==
  LET n == Written(b, text)
      Put(i) == {k \in 1..n : At(b, b.used + k - 1) = i}
  IN [b EXCEPT !.used = @ + n,
               !.data = [i \in DOMAIN b.data |->
                  IF Put(i) = {} THEN b.data[i] ELSE text[CHOOSE k \in Put(i) : TRUE]]]

(* The line's length counts its newline; without one it is all there is.   *)
LineBytes(b) ==
  LET ends == {n \in 1..b.used : Byte(b, n - 1) = NL}
  IN IF ends = {} THEN b.used ELSE Min(ends)

LinesAvailable(b) == Cardinality({n \in 1..b.used : Byte(b, n - 1) = NL})

(* Mutant: the array is copied as it lies.                                 *)
DoubledAsItLies(b, old) ==
  [b EXCEPT !.data_size = 2 * @,
            !.data = [i \in 0..(2 * b.data_size - 1) |->
               IF i < b.data_size THEN b.data[i] ELSE old]]

(* The used bytes move to the front of an array twice the size.            *)
Doubled(b, old) ==
  [data_size |-> 2 * b.data_size, h_idx |-> 0, used |-> b.used,
   data |-> [i \in 0..(2 * b.data_size - 1) |->
               IF i < b.used THEN Used(b)[i + 1] ELSE old]]

(* read(int): the string has max_size bytes, one more for a NUL, and all   *)
(* used_size bytes are written to it, from the front of the array.  What   *)
(* does not fit overwrites whatever follows.                               *)
ReadBytes(b, max_size) ==
  LET nBytes == Removed(b, max_size)
  IN [i \in 1..nBytes |-> b.data[(i - 1) % b.data_size]]

(* debug_str marks the used bytes in a bit array, which throws if one is   *)
(* not inside.                                                             *)
Marks(b) == {At(b, n) : n \in 0..(b.used - 1)}

-----------------------------------------------------------------------------
Init == rb = Fresh(0, Unset) /\ result = <<"none">>

(* There is no array of a negative size: the shell catches the exception.  *)
New == \E ds \in Sizes, old \in Leftovers :
  rb' = (IF ds < 0 THEN rb ELSE Assigned(Fresh(ds, old), old)) /\ result' = <<"none">>

(* nrbw appends a newline to its words; nrbws writes byte by byte.         *)
Write == \E text \in Words :
  rb' = With(rb, text) /\ result' = <<"wrote", Written(rb, text)>>

Dec == \E n \in Amounts :
  LET k == Removed(rb, n)
  IN /\ n < 0 => rb.used - n <= MaxUsed
     /\ rb' = Without(rb, k)
     /\ result' = <<"deleted", IF rb.data_size = 0 THEN 0 ELSE k>>

PopLine ==
  LET k == LineBytes(rb)
  IN rb' = Without(rb, k) /\ result' = <<"line", SubSeq(Used(rb), 1, k)>>

CountLines == result' = <<"lines", LinesAvailable(rb)>> /\ UNCHANGED rb

Grow ==
  /\ rb.data_size <= MaxSize
  /\ \E old \in Leftovers : rb' = Doubled(rb, old)
  /\ result' = <<"none">>

Show ==
  /\ result' = IF \E p \in Marks(rb) : p < 0 THEN <<"none">>
               ELSE <<"used", Cardinality(Marks(rb))>>
  /\ UNCHANGED rb

(* A string of less than no bytes throws.                                  *)
Read == \E n \in Amounts :
  /\ result' = IF n < -1 THEN <<"none">> ELSE <<"read", ReadBytes(rb, n)>>
  /\ UNCHANGED rb

Next == New \/ Write \/ Dec \/ PopLine \/ CountLines \/ Grow \/ Show \/ Read
Spec == Init /\ [][Next]_vars

-----------------------------------------------------------------------------
(* Properties.                                                             *)

(* The ring is a queue of the bytes written, wherever the head has         *)
(* wandered and however often the array has grown, until a negative nrbdec *)
(* takes the head out of the array or brings back more bytes than it has.  *)
Queue == INSTANCE ByteQueue WITH
  Texts <- Words, queue <- Used(rb), capacity <- rb.data_size, lost <- ~Sound(rb),
  result <- IF result[1] = "read" THEN <<"read">> ELSE result
ImplementsByteQueue == Queue!Spec
=============================================================================
