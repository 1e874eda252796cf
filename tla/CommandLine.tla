---------------------------- MODULE CommandLine ----------------------------
(***************************************************************************)
(* How lines become words.  string2vector, of which the shells and the     *)
(* ring buffer have a copy each, goes through a line with a buffer for one *)
(* word; it is modelled character by character.  splitStr, of the servers, *)
(* leaves that to boost::split, and is an operator here.  joinStr and      *)
(* vectorToString put words together again.                                *)
(***************************************************************************)
EXTENDS Integers, SequencesExt

CONSTANTS
  Chars,        \* the characters of lines
  NUL,          \* what ends a string
  Junk,         \* what the buffer holds before anything is written to it
  Delims,       \* the characters that end a word: a blank, with skipLF newlines
  Texts,        \* the lines
  STRBUFFSIZE   \* the longest word the buffer holds

CommandLineAssumption ==
  /\ NUL \notin Chars /\ Junk \in Chars /\ Delims \subseteq Chars
  /\ Texts \subseteq Seq(Chars)
  /\ STRBUFFSIZE \in Nat \ {0}

VARIABLES
  text,        \* the line
  ci, cb,      \* the index of the next character, and of the word's first
  buff,        \* the word, up to the first NUL
  strVector    \* the words found

vars == <<text, ci, cb, buff, strVector>>

Init ==
  /\ text \in Texts
  /\ ci = 0 /\ cb = 0
  /\ buff = [k \in 0..STRBUFFSIZE |-> IF k = 0 THEN NUL ELSE Junk]
  /\ strVector = <<>>

-----------------------------------------------------------------------------
(* string2vector; indexes count from 0, and the NUL after the last         *)
(* character is read, too.                                                 *)

cl == ci - cb
Char == IF ci = Len(text) THEN NUL ELSE text[ci + 1]
Ends == Char \in Delims \cup {NUL}
Continues == ci <= Len(text) /\ ci' = ci + 1 /\ UNCHANGED text

(* Mutant: the buffer is taken to hold one character more.                 *)
OneMore == Ends \/ cl > STRBUFFSIZE

(* A word that fills the buffer is cut, and the character there goes lost. *)
Cut == Ends \/ cl >= STRBUFFSIZE

Skip ==
  /\ Continues /\ Cut /\ cl <= 0
  /\ cb' = ci + 1 /\ buff' = [buff EXCEPT ![0] = NUL]
  /\ UNCHANGED strVector

(* string(buff): the characters before the first NUL.                      *)
Word(b) ==
  LET n == CHOOSE k \in DOMAIN b : b[k] = NUL /\ \A j \in 0..k - 1 : b[j] # NUL
  IN [k \in 1..n |-> b[k - 1]]

(* Mutant: the terminator is not written.                                  *)
PushUnterminated ==
  /\ Continues /\ Cut /\ cl > 0
  /\ strVector' = Append(strVector, Word([buff EXCEPT ![STRBUFFSIZE] = NUL]))
  /\ cb' = ci + 1 /\ buff' = [buff EXCEPT ![0] = NUL]

Push ==
  /\ Continues /\ Cut /\ cl > 0
  /\ strVector' = Append(strVector, Word([buff EXCEPT ![cl] = NUL]))
  /\ cb' = ci + 1 /\ buff' = [buff EXCEPT ![cl] = NUL, ![0] = NUL]

Copy ==
  /\ Continues /\ ~Cut
  /\ buff' = [buff EXCEPT ![cl] = Char]
  /\ UNCHANGED <<cb, strVector>>

Returned == ci > Len(text)
Next == Skip \/ Push \/ Copy \/ (Returned /\ UNCHANGED vars)

Spec == Init /\ [][Next]_vars

-----------------------------------------------------------------------------
(* splitStr: delimiters in a row count as one, but there is a field before *)
(* the first of them and one after the last, if empty; newlines are taken  *)
(* out before.                                                             *)

(* Mutant: every delimiter separates two fields.                           *)
Apart(line, k, blank) == line[k] = blank

Separates(line, k, blank) == line[k] = blank /\ (k = 1 \/ line[k - 1] # blank)

(* The fields once k characters are read.                                  *)
Fields(line, blank) ==
  LET read[k \in 0..Len(line)] ==
        IF k = 0 THEN <<<<>>>>
        ELSE LET f == read[k - 1]
             IN CASE Separates(line, k, blank) -> Append(f, <<>>)
                  [] ~Separates(line, k, blank) /\ line[k] = blank -> f
                  [] OTHER -> [f EXCEPT ![Len(f)] = Append(@, line[k])]
  IN read[Len(line)]

Without(line, newlines) ==
  LET kept[k \in 0..Len(line)] ==
        IF k = 0 THEN <<>>
        ELSE IF line[k] \in newlines THEN kept[k - 1] ELSE Append(kept[k - 1], line[k])
  IN kept[Len(line)]

splitStr(line, blank, newlines) == Fields(Without(line, newlines), blank)

(* Mutant: the loop runs to the end, and the last delimiter stays.         *)
DelimAfterEach(strings, delim) ==
  FoldLeft(LAMBDA x, y : x \o y \o <<delim>>, <<>>, strings)

vectorToString(strings, delim) ==
  LET joined[k \in 0..Len(strings)] ==
        CASE k = 0 -> <<>>
          [] k = 1 -> strings[1]
          [] OTHER -> joined[k - 1] \o <<delim>> \o strings[k]
  IN joined[Len(strings)]

(* joinStr with a start index: always with blanks.                         *)
joinStr(strings, start, blank) ==
  vectorToString(SubSeq(strings, start + 1, Len(strings)), blank)

-----------------------------------------------------------------------------
(* Properties.                                                             *)

(* The runs of characters of a line between delimiters.  The words of the  *)
(* line are these, in order; strings has them, if those of it that are not *)
(* empty are the words.                                                    *)
Runs(line, delims) ==
  {r \in (1..Len(line)) \X (1..Len(line)) :
     /\ r[1] <= r[2] /\ \A k \in r[1]..r[2] : line[k] \notin delims
     /\ r[1] = 1 \/ line[r[1] - 1] \in delims
     /\ r[2] = Len(line) \/ line[r[2] + 1] \in delims}

NotEmpty(strings) == {k \in DOMAIN strings : strings[k] # <<>>}
HasTheWords(strings, line, delims) ==
  \E at \in [NotEmpty(strings) -> Runs(line, delims)] :
    /\ \A k \in NotEmpty(strings) : strings[k] = SubSeq(line, at[k][1], at[k][2])
    /\ \A j, k \in NotEmpty(strings) : j < k => at[j][2] < at[k][1]
    /\ \A r \in Runs(line, delims) : \E k \in NotEmpty(strings) : at[k] = r

(* The buffer is never written beyond its end, whatever the line, and what *)
(* is in it so far is the word that ci is in.                              *)
BufferInv ==
  /\ text \in Seq(Chars) /\ ci \in 0..Len(text) + 1 /\ cb \in 0..ci
  /\ buff \in [0..STRBUFFSIZE -> Chars \cup {NUL}]
  /\ cl <= STRBUFFSIZE
  /\ \A k \in 0..cl - 1 : buff[k] = text[cb + k + 1]

(* The words found are those of the line, if none is too long for the      *)
(* buffer.  getline's LINE_SIZE sees to that in the shells.                *)
WordsAreFound ==
  Returned /\ (\A r \in Runs(text, Delims) : r[2] - r[1] < STRBUFFSIZE)
    => NotEmpty(strVector) = DOMAIN strVector /\ HasTheWords(strVector, text, Delims)

(* splitStr finds the same words; what it finds besides are empty, at the  *)
(* ends of the line, so a leading blank makes an empty command.            *)
SplitFindsTheWords ==
  ci = 0 => \A blank \in Delims :
    LET newlines == Delims \ {blank}
        line == Without(text, newlines)
        f == splitStr(text, blank, newlines)
    IN /\ HasTheWords(f, line, {blank})
       /\ \A k \in DOMAIN f : f[k] = <<>> => k \in {1, Len(f)}
       /\ line # <<>> => (f[1] = <<>> <=> line[1] = blank)

(* Words joined with blanks are split into the same words again, from      *)
(* whichever one on: what a handler joins to echo it, or to store it, is   *)
(* what was sent.                                                          *)
JoinedSplitsAgain ==
  ci = 0 => \A blank \in Delims :
    LET f == splitStr(text, blank, Delims \ {blank})
    IN \A start \in 0..Len(f) - 1 :
         splitStr(joinStr(f, start, blank), blank, {}) = SubSeq(f, start + 1, Len(f))
=============================================================================
