----------------------------- MODULE RapidJson -----------------------------
(***************************************************************************)
(* The part of rapidjson the replies go through: values, Accept, which     *)
(* turns a value into events one after the other, the Writer that prints   *)
(* events, and, for whoever reads a reply, the Reader that parses text     *)
(* into events and the Document that rebuilds a value from them.  The      *)
(* calls inside each other, of Accept and of the reader, are sequences.    *)
(*                                                                         *)
(* A value is a pair <<type, contents>>.  Text is a sequence of lexical    *)
(* units, Lit(c) for a character and Num(minus, m) for the digits of a     *)
(* number: what the conversions do to a number's width is kept, decimal    *)
(* digits are not.  A string is a sequence of characters; "NL" stands for  *)
(* a line break (an echoed line can have a carriage return, getline takes  *)
(* newlines away) and "SOH" for a control character that has no escape of  *)
(* its own, punctuation goes by its name, and any other name is a run of   *)
(* plain characters.  A NUL ends the strings the program sets.             *)
(***************************************************************************)
EXTENDS Integers, SequencesExt

CONSTANTS
  IntHalf,    \* int ranges over -IntHalf..(IntHalf - 1), unsigned up to twice that
  Int64Half   \* the same of int64_t, which holds every unsigned

ASSUME WidthsAssumption ==
  IntHalf \in Nat \ {0} /\ Int64Half \in Nat /\ Int64Half >= 2 * IntHalf

VARIABLES
  calls,      \* the calls of Accept under way, the innermost last: the value of
              \*   each, and how many of its members it has come to
  writer      \* the writer that handles the events

Lit(c) == <<"char", c>>
Num(minus, m) == <<"number", <<minus, m>>>>

Unsigned(n, half) == n % (2 * half)
Signed(n, half) == ((n + half) % (2 * half)) - half

(* Values, and the calls that build them: a moved value leaves its source. *)
Null == <<"null", 0>>
Bool(b) == <<"bool", b>>
SetObject == <<"object", <<>>>>
SetArray == <<"array", <<>>>>
SetString(s) == <<"string", s>>   \* of its length; see CStr
SetInt64(n) == <<"int64", n>>
AddMember(obj, name, value) == <<"object", Append(obj[2], <<<<name>>, value>>)>>
PushBack(arr, value) == <<"array", Append(arr[2], value)>>

-----------------------------------------------------------------------------
(* The flags the int64_t constructor gives a number, and the handler that  *)
(* Accept picks by them.                                                   *)
Flags(n) ==
  {"Int64"}
    \cup (IF n >= 0 THEN {"Uint64"} ELSE {})
    \cup (IF n >= 0 /\ n < 2 * IntHalf THEN {"Uint"} ELSE {})
    \cup (IF -IntHalf <= n /\ n < IntHalf THEN {"Int"} ELSE {})

NumberEvent(n) ==
  CASE "Int" \in Flags(n) -> <<"Int", Signed(n, IntHalf)>>
    [] "Int" \notin Flags(n) /\ "Uint" \in Flags(n) -> <<"Uint", Unsigned(n, IntHalf)>>
    [] OTHER -> <<"Int64", n>>

-----------------------------------------------------------------------------
(* Writer.  A level counts the values in it: in an object the odd ones are *)
(* names.  ok is FALSE once a RAPIDJSON_ASSERT has failed.                 *)
Writer(levels, out, ok) == [levels |-> levels, out |-> out, ok |-> ok]
NewWriter == Writer(<<>>, <<>>, TRUE)
Level(inArray, n) == [inArray |-> inArray, valueCount |-> n]
Counted(levels) ==
  [levels EXCEPT ![Len(levels)] = Level(@.inArray, @.valueCount + 1)]
IsName(level) == ~level.inArray /\ level.valueCount % 2 = 0

Put(w, units) == Writer(w.levels, w.out \o units, w.ok)
Push(w, inArray) == Writer(Append(w.levels, Level(inArray, 0)), w.out, w.ok)
(* Mutant: the level stays open.                                           *)
LeaveOpen(w, inArray) == w

Pop(w, inArray) ==
  Writer(Front(w.levels), w.out,
         w.ok /\ w.levels # <<>> /\ Last(w.levels).inArray = inArray)

(* Mutant: names and values are told apart the wrong way around.           *)
SeparatorSwapped(l) ==
  CASE l.valueCount = 0 -> <<>>
    [] l.valueCount > 0 /\ (l.inArray \/ ~IsName(l)) -> <<Lit("comma")>>
    [] l.valueCount > 0 /\ ~(l.inArray \/ ~IsName(l)) -> <<Lit("colon")>>

Separator(l) ==
  CASE l.valueCount = 0 -> <<>>
    [] l.valueCount > 0 /\ (l.inArray \/ IsName(l)) -> <<Lit("comma")>>
    [] l.valueCount > 0 /\ ~(l.inArray \/ IsName(l)) -> <<Lit("colon")>>

Prefix(w, type) ==
  IF w.levels = <<>> THEN Writer(<<>>, w.out, w.ok /\ type \in {"object", "array"})
  ELSE LET l == Last(w.levels)
       IN Writer(Counted(w.levels), w.out \o Separator(l),
                 w.ok /\ (IsName(l) => type = "string"))

(* Mutant: the table misses an entry.                                      *)
EscapedButNewline == {"quote", "backslash", "SOH"}

(* The escape table; "u" is followed by four hexadecimal digits.           *)
Escaped == {"quote", "backslash", "NL", "SOH"}

WriteChar(c) ==
  CASE c \notin Escaped -> <<Lit(c)>>
    [] c \in Escaped /\ c \in {"quote", "backslash"} -> <<Lit("backslash"), Lit(c)>>
    [] c \in Escaped /\ c = "NL" -> <<Lit("backslash"), Lit("n")>>
    [] c \in Escaped /\ c = "SOH" -> <<Lit("backslash"), Lit("u"), Lit("0001")>>

WriteString(s) ==
  <<Lit("quote")>> \o FlattenSeq([k \in DOMAIN s |-> WriteChar(s[k])]) \o <<Lit("quote")>>

(* -i of the least int is itself; the unsigned it is then read as is right.*)
WriteInt(i, half) ==
  <<Num(i < 0, Unsigned(IF i < 0 THEN Signed(-i, half) ELSE i, half))>>

WriteBool(b) == IF b THEN <<Lit("true")>> ELSE <<Lit("false")>>

Handle(w, e) ==
  CASE e[1] = "StartObject" -> Put(Push(Prefix(w, "object"), FALSE), <<Lit("beginObject")>>)
    [] e[1] = "EndObject"   -> Put(Pop(w, FALSE), <<Lit("endObject")>>)
    [] e[1] = "StartArray"  -> Put(Push(Prefix(w, "array"), TRUE), <<Lit("beginArray")>>)
    [] e[1] = "EndArray"    -> Put(Pop(w, TRUE), <<Lit("endArray")>>)
    [] e[1] = "String"      -> Put(Prefix(w, "string"), WriteString(e[2]))
    [] e[1] = "Null"        -> Put(Prefix(w, "null"), <<Lit("null")>>)
    [] e[1] = "Bool"        -> Put(Prefix(w, "bool"), WriteBool(e[2]))
    [] e[1] \in {"Int", "Uint"} -> Put(Prefix(w, "number"), WriteInt(e[2], IntHalf))
    [] e[1] = "Int64"       -> Put(Prefix(w, "number"), WriteInt(e[2], Int64Half))

-----------------------------------------------------------------------------
(* Accept.  A value without members is one event; the members of an object *)
(* or an array are accepted one after the other, between its two events.   *)
Compound(v) == v[1] \in {"object", "array"}
ScalarEvent(v) ==
  CASE v[1] = "string" -> <<"String", v[2]>>
    [] v[1] = "int64" -> NumberEvent(v[2])
    [] v[1] = "null" -> <<"Null", 0>>
    [] v[1] = "bool" -> <<"Bool", v[2]>>

AcceptCall(v, n) == [value |-> v, done |-> n]
Accept(cs, w, v) ==
  IF Compound(v)
  THEN /\ calls' = Append(cs, AcceptCall(v, 0))
       /\ writer' = Handle(w, <<IF v[1] = "object" THEN "StartObject" ELSE "StartArray", 0>>)
  ELSE calls' = cs /\ writer' = Handle(w, ScalarEvent(v))

Call == Last(calls)
Elements == Call.value[2]
OneMore == [calls EXCEPT ![Len(calls)] = AcceptCall(@.value, @.done + 1)]

AcceptMember ==
  /\ calls # <<>> /\ Call.value[1] = "object" /\ Call.done < Len(Elements)
  /\ LET m == Elements[Call.done + 1]
     IN Accept(OneMore, Handle(writer, <<"String", m[1]>>), m[2])

AcceptElement ==
  /\ calls # <<>> /\ Call.value[1] = "array" /\ Call.done < Len(Elements)
  /\ Accept(OneMore, writer, Elements[Call.done + 1])

AcceptEnd ==
  /\ calls # <<>> /\ Call.done = Len(Elements)
  /\ calls' = Front(calls)
  /\ writer' = Handle(writer,
       <<IF Call.value[1] = "object" THEN "EndObject" ELSE "EndArray", Len(Elements)>>)

-----------------------------------------------------------------------------
(* Reader.  open are the objects and arrays it is in, each with the names  *)
(* and values met there; at is where it stands: at an item, a name or a    *)
(* value, which right after a bracket may be missing ("first"), behind     *)
(* one, in a string or an escape sequence, or at the end.  docs is the     *)
(* document's stack.  After an error longjmp leaves every level.           *)
Reader(at, open, chars, docs) ==
  [at |-> at, open |-> open, chars |-> chars, docs |-> docs]
Start == Reader("root", <<>>, <<>>, <<>>)
Goes(r, at) == Reader(at, r.open, r.chars, r.docs)
Fail(r) == Goes(r, "failed")

(* The document's own handlers: values go onto a stack, and the end of an  *)
(* array or object takes its elements off again.                           *)
Build(stack, e) ==
  LET Top(n) == SubSeq(stack, Len(stack) - n + 1, Len(stack))
      Under(n) == SubSeq(stack, 1, Len(stack) - n - 1)
  IN CASE e[1] = "StartObject" -> Append(stack, SetObject)
       [] e[1] = "StartArray" -> Append(stack, SetArray)
       [] e[1] = "EndArray" -> Append(Under(e[2]), <<"array", Top(e[2])>>)
       [] e[1] = "EndObject" ->
            LET m == Top(2 * e[2])
            IN Append(Under(2 * e[2]),
                 <<"object", [k \in 1..e[2] |-> <<m[2 * k - 1][2], m[2 * k]>>]>>)
       [] e[1] = "String" -> Append(stack, SetString(e[2]))
       [] e[1] = "Null" -> Append(stack, Null)
       [] e[1] = "Bool" -> Append(stack, Bool(e[2]))
       [] e[1] = "Double" -> Append(stack, <<"double", e[2]>>)
       [] OTHER -> Append(stack, SetInt64(e[2]))

Item(r, e) == Reader("behind", Counted(r.open), r.chars, Build(r.docs, e))

Opens(r, inArray) ==
  Reader("first",
         Append(IF r.open = <<>> THEN <<>> ELSE Counted(r.open), Level(inArray, 0)),
         r.chars,
         Build(r.docs, <<IF inArray THEN "StartArray" ELSE "StartObject", 0>>))

Closes(r) ==
  LET l == Last(r.open)
  IN Reader(IF Len(r.open) = 1 THEN "end" ELSE "behind",
            Front(r.open),
            r.chars,
            Build(r.docs, IF l.inArray THEN <<"EndArray", l.valueCount>>
                          ELSE <<"EndObject", l.valueCount \div 2>>))
IsClosing(r, u) == u = Lit(IF Last(r.open).inArray THEN "endArray" ELSE "endObject")

(* The characters of a string, up to the closing quote.                    *)
Takes(r, c) == Reader("string", r.open, Append(r.chars, c), r.docs)
ReadString(r, u) ==
  CASE u = Lit("quote") -> Item(r, <<"String", r.chars>>)
    [] u = Lit("backslash") -> Goes(r, "escape")
    [] u \in {Lit("NL"), Lit("SOH")} \/ u[1] # "char" -> Fail(r)
    [] OTHER -> Takes(r, u[2])
ReadEscape(r, u) ==
  CASE u \in {Lit("quote"), Lit("backslash")} -> Takes(r, u[2])
    [] u = Lit("n") -> Takes(r, "NL")
    [] u = Lit("u") -> Goes(r, "hex")
    [] OTHER -> Fail(r)
ReadHex4(r, u) == IF u = Lit("0001") THEN Takes(r, "SOH") ELSE Fail(r)

(* The digits are taken into the narrowest of four integers that holds     *)
(* them, whose least value has no counterpart above zero.  A fraction or   *)
(* an exponent, and the double they make, are left out.                    *)
IsWithin(minus, m, half) == IF minus THEN m <= half ELSE m < 2 * half

IntegerEvent(minus, m) ==
  CASE IsWithin(minus, m, IntHalf) ->
         IF minus THEN <<"Int", Signed(-Signed(m, IntHalf), IntHalf)>> ELSE <<"Uint", m>>
    [] ~IsWithin(minus, m, IntHalf) /\ IsWithin(minus, m, Int64Half) ->
         IF minus THEN <<"Int64", Signed(-m, Int64Half)>> ELSE <<"Uint64", m>>
    [] OTHER -> <<"Double", m>>
ReadNumber(r, u) ==
  IF u[1] = "number" THEN Item(r, IntegerEvent(u[2][1], u[2][2])) ELSE Fail(r)

ReadValue(r, u) ==
  CASE u = Lit("beginObject") -> Opens(r, FALSE)
    [] u = Lit("beginArray") -> Opens(r, TRUE)
    [] u = Lit("quote") -> Reader("string", r.open, <<>>, r.docs)
    [] u = Lit("null") -> Item(r, <<"Null", 0>>)
    [] u = Lit("true") -> Item(r, <<"Bool", TRUE>>)
    [] u = Lit("false") -> Item(r, <<"Bool", FALSE>>)
    [] OTHER -> ReadNumber(r, u)

(* The name of a member is a string.                                       *)
ReadItem(r, u) ==
  IF IsName(Last(r.open)) /\ u # Lit("quote") THEN Fail(r) ELSE ReadValue(r, u)

(* A colon behind a name, a comma or the end behind a value.               *)
ReadBehind(r, u) ==
  LET l == Last(r.open)
      named == ~l.inArray /\ ~IsName(l)
  IN CASE u = Lit(IF named THEN "colon" ELSE "comma") -> Goes(r, "item")
       [] ~named /\ IsClosing(r, u) -> Closes(r)
       [] OTHER -> Fail(r)

ReadFirst(r, u) == IF IsClosing(r, u) THEN Closes(r) ELSE ReadItem(r, u)
ReadRoot(r, u) == IF u \in {Lit("beginObject"), Lit("beginArray")} THEN ReadValue(r, u) ELSE Fail(r)

(* Newlines between them are skipped.                                      *)
ReadBetween(r, u) ==
  CASE u = Lit("NL") -> r
    [] u # Lit("NL") /\ r.at = "root" -> ReadRoot(r, u)
    [] u # Lit("NL") /\ r.at = "first" -> ReadFirst(r, u)
    [] u # Lit("NL") /\ r.at = "item" -> ReadItem(r, u)
    [] u # Lit("NL") /\ r.at = "behind" -> ReadBehind(r, u)
    [] u # Lit("NL") /\ r.at = "end" -> Fail(r)

Read(r, u) ==
  CASE r.at = "failed" -> r
    [] r.at = "string" -> ReadString(r, u)
    [] r.at = "escape" -> ReadEscape(r, u)
    [] r.at = "hex" -> ReadHex4(r, u)
    [] r.at \notin {"failed", "string", "escape", "hex"} -> ReadBetween(r, u)

Reading(text) ==
  LET after[k \in 0..Len(text)] ==
        IF k = 0 THEN Start ELSE Read(after[k - 1], text[k])
  IN after[Len(text)]

(* The document stays null after an error.                                 *)
Parse(text) ==
  LET r == Reading(text) IN IF r.at = "end" THEN r.docs[1] ELSE Null
=============================================================================
