------------------------- MODULE ServerJsonBuilder -------------------------
(***************************************************************************)
(* The replies.  A handler of GLBCommandServer fills a ServerJsonBuilder   *)
(* and calls toJson.  The document toJson builds holds pointers to the     *)
(* characters of the builder's strings; for the addresses they point into  *)
(* the loop's own copy of each IpJson, which is gone when the document is  *)
(* written.  Whether the characters are gone, too, depends on the string:  *)
(* with reference-counted buffers the copy shares those of the builder;    *)
(* without, each pointer reads whatever is left there.                     *)
(***************************************************************************)
EXTENDS RapidJson, FiniteSets

CONSTANTS
  Strings,    \* the strings handlers fill in
  Garbage,    \* what may be read where a string was
  Counts,     \* the values of nLookups
  MaxItems    \* bound: entries of a list member

ASSUME StringsAssumption ==
  /\ \A s \in Strings \cup Garbage : s \in Seq({s[k] : k \in DOMAIN s})
  /\ Counts \subseteq -Int64Half..(Int64Half - 1)

VARIABLES
  shared,     \* copies of a string share their buffer
  copies,     \* what the pointers into the loop's copies of ips read
  type, fqdn, status, error,       \* sequences of at most one string
  counts, errors, ips, nsRecords   \* what addCount and so on have pushed

fields == <<type, fqdn, status, error, counts, errors, ips, nsRecords>>
jsonVars == <<shared, copies, fields, calls, writer>>

JsonInit ==
  /\ shared \in BOOLEAN /\ copies = <<>>
  /\ type = <<>> /\ fqdn = <<>> /\ status = <<>> /\ error = <<>>
  /\ counts = <<>> /\ errors = <<>> /\ ips = <<>> /\ nsRecords = <<>>
  /\ calls = <<>> /\ writer = NewWriter

-----------------------------------------------------------------------------
(* The setters, as the handlers of each type of reply call them.  The      *)
(* has-flag of a member is that it is not empty.                           *)

Filling ==
  writer = NewWriter /\ type # <<>> /\ UNCHANGED <<shared, copies, type, calls, writer>>
For(types) == Filling /\ type[1][1] \in types
One == {<<s>> : s \in Strings}

setType ==
  /\ type = <<>>
  /\ type' \in {<<<<t>>>> : t \in {"ADD_DOMAIN", "SET_NS", "SNAPSHOT", "GET_COUNTS"}}
  /\ UNCHANGED <<shared, copies, fqdn, status, error, counts, errors, ips, nsRecords,
                 calls, writer>>
setFqdn ==
  /\ For({"ADD_DOMAIN", "SNAPSHOT"})
  /\ fqdn = <<>> /\ fqdn' \in One
  /\ UNCHANGED <<status, error, counts, errors, ips, nsRecords>>
setStatus ==
  /\ Filling
  /\ status = <<>> /\ status' \in {<<<<"PASSED">>>>, <<<<"FAILED">>>>}
  /\ UNCHANGED <<fqdn, error, counts, errors, ips, nsRecords>>
setError ==
  /\ For({"ADD_DOMAIN", "SET_NS", "SNAPSHOT"})
  /\ error = <<>> /\ error' \in One
  /\ UNCHANGED <<fqdn, status, counts, errors, ips, nsRecords>>
addError ==
  /\ For({"GET_COUNTS"}) /\ Len(errors) < MaxItems
  /\ \E s \in Strings : errors' = Append(errors, s)
  /\ UNCHANGED <<fqdn, status, error, counts, ips, nsRecords>>
addNSRecord ==
  /\ For({"SET_NS"}) /\ Len(nsRecords) < MaxItems
  /\ \E s \in Strings : nsRecords' = Append(nsRecords, s)
  /\ UNCHANGED <<fqdn, status, error, counts, errors, ips>>
addCount ==
  /\ For({"GET_COUNTS"}) /\ Len(counts) < MaxItems
  /\ \E s \in Strings, n \in Counts :
       counts' = Append(counts, [fqdn |-> s, count |-> n])
  /\ UNCHANGED <<fqdn, status, error, errors, ips, nsRecords>>

IpJson(ip, e) == [ip |-> ip, error |-> e, hasError |-> e # <<>>]
addIp ==
  /\ For({"SNAPSHOT"}) /\ Len(ips) < MaxItems
  /\ \E s \in Strings, e \in Strings \cup {<<>>} : ips' = Append(ips, IpJson(s, e))
  /\ UNCHANGED <<fqdn, status, error, counts, errors, nsRecords>>

-----------------------------------------------------------------------------
(* toJson.  Members are added in this order, those whose flag is set.      *)

(* StrLen of a c_str(): a string ends before its first NUL.                *)
StrLen(s) == Cardinality({n \in 1..Len(s) : \A k \in 1..n : s[k] # "NUL"})
CStr(s) == SetString(SubSeq(s, 1, StrLen(s)))

(* What may be read through the pointers into the loop's copies.           *)
Copies ==
  IF shared THEN {ips}
  ELSE {c \in [DOMAIN ips -> [ip : Garbage, error : Garbage, hasError : BOOLEAN]] :
          \A k \in DOMAIN ips : c[k].hasError = ips[k].hasError}

Optional(obj, name, one) ==
  IF one = <<>> THEN obj ELSE AddMember(obj, name, CStr(one[1]))
List(obj, name, list, Element(_)) ==
  IF list = <<>> THEN obj
  ELSE AddMember(obj, name, <<"array", [k \in DOMAIN list |-> Element(list[k])]>>)

CountElement(fc) ==
  PushBack(PushBack(SetArray, CStr(fc.fqdn)), SetInt64(fc.count))
IpObj(ij) ==
  LET ip == AddMember(SetObject, "ip", CStr(ij.ip))
  IN IF ij.hasError THEN AddMember(ip, "error", CStr(ij.error)) ELSE ip

Members(read) ==
  LET one == Optional(Optional(Optional(Optional(SetObject, "type", type),
               "fqdn", fqdn), "status", status), "error", error)
  IN List(List(List(one, "counts", counts, CountElement), "errors", errors, CStr),
          "ips", read, IpObj)

(* doc.Accept(wr), which goes on in Accepts.                               *)
toJson ==
  /\ type # <<>> /\ writer = NewWriter
  /\ copies' \in Copies
  /\ Accept(<<>>, NewWriter, Members(copies'))
  /\ UNCHANGED <<shared, fields>>

Accepts ==
  (AcceptMember \/ AcceptElement \/ AcceptEnd) /\ UNCHANGED <<shared, copies, fields>>

Replied == writer # NewWriter /\ calls = <<>>
Sent == Replied /\ UNCHANGED jsonVars

JsonNext ==
  \/ setType \/ setFqdn \/ setStatus \/ setError
  \/ addError \/ addNSRecord \/ addCount \/ addIp
  \/ toJson \/ Accepts \/ Sent

JsonSpec == JsonInit /\ [][JsonNext]_jsonVars

-----------------------------------------------------------------------------
(* Properties.  All are of the replies.                                    *)

(* No assertion of the writer fails: names and values alternate, and what  *)
(* is opened is closed, the innermost first.                               *)
WriterAssertionsHold ==
  /\ writer.ok
  /\ Len(writer.levels) = Len(calls)

(* The controller reads a reply up to the end of a line: whatever was sent *)
(* to be echoed, and whatever memory a dangling pointer reads, a reply is  *)
(* one line, and it parses.                                                *)
RepliesAreOneLine ==
  /\ \A k \in DOMAIN writer.out : writer.out[k] # Lit("NL")
  /\ Replied => Parse(writer.out) # Null

(* A reader gets back what the handler set: every string, up to a NUL,     *)
(* with its special characters, every count at its value whatever its      *)
(* width.  Of a SNAPSHOT the texts of addresses and of their errors come   *)
(* back only where string copies share their buffer; elsewhere each may    *)
(* read as anything, but nothing else of the reply is touched.  The name   *)
(* servers of SET_NS never come back.                                      *)
RepliesReadBack ==
  /\ RepliesAreOneLine
  /\ Replied => \E read \in Copies : Parse(writer.out) = Members(read)
=============================================================================
