----------------------------- MODULE DemoShell -----------------------------
(***************************************************************************)
(* The commands of maindemo that keep something between lines: the wasted  *)
(* bytes, the shared pointers, the map and the deque.  Its ring buffer and *)
(* bit array have modules of their own; what it prints of numbers, points  *)
(* and times is left out.  Words stand for numbers by way of atoi.         *)
(***************************************************************************)
EXTENDS SillyShell, SequencesExt

CONSTANTS
  atoi,       \* the numbers that words stand for
  Keys, Vals, \* of the map; Vals are the strings of the deque, too
  NoVal,      \* the key is not in the map
  MaxSize,    \* bound: entries of a list
  MaxNew      \* bound: the strings of ss are numbered 0..MaxNew

DemoShellAssumption ==
  /\ LinesAssumption /\ NoVal \notin Vals /\ MaxNew > MaxSize
  /\ \A l \in Lines : Len(l.words) >= 2 /\ l.words[1] \in {"wb", "as", "rs"}
       => atoi[l.words[2]] \in Int

VARIABLES
  nwb, strVector,   \* the bytes wasted, as counted, and the strings, by length
  strPtr, strPtrs,  \* the string pointed to, and the list of pointers; the
                    \*   strings made with ss are numbered
  strMap, dq,       \* the map and the deque
  reply,            \* what the last command has printed
  written, taken    \* history: the strings written to dq and taken off it
                    \*   since it was clear

demoVars == <<nwb, strVector, strPtr, strPtrs, strMap, dq, reply, written, taken>>
vars == <<shellVars, demoVars>>

Init ==
  /\ ShellInit
  /\ nwb = 0 /\ strVector = <<>>
  /\ strPtr = 0 /\ strPtrs = <<>>
  /\ strMap = [k \in Keys |-> NoVal]
  /\ dq = <<>> /\ written = <<>> /\ taken = <<>>
  /\ reply = <<>>

Prints(r) == Done /\ reply' = r
KeepsBytes == UNCHANGED <<nwb, strVector>>
KeepsPtrs == UNCHANGED <<strPtr, strPtrs>>
KeepsData == UNCHANGED <<strMap, dq, written, taken>>

-----------------------------------------------------------------------------
(* Wasted bytes.  wb of -1 allocates an array of none and counts it; below *)
(* that new throws, and nothing is changed.                                *)
Wb ==
  /\ Is("wb", 2) /\ Len(strVector) < MaxSize
  /\ Prints(<<"wasting", atoi[cmd[2]]>>)
  /\ IF atoi[cmd[2]] < -1 THEN KeepsBytes
     ELSE /\ strVector' = Append(strVector, IF atoi[cmd[2]] < 0 THEN 0 ELSE atoi[cmd[2]])
          /\ nwb' = nwb + atoi[cmd[2]]
  /\ KeepsPtrs /\ KeepsData

(* Mutant: the strings are freed and the count stays.                      *)
FbKeepsCount ==
  /\ Is("fb", 1) /\ Prints(<<"freeing", nwb>>)
  /\ strVector' = <<>> /\ nwb' = nwb /\ KeepsPtrs /\ KeepsData

Fb ==
  /\ Is("fb", 1) /\ Prints(<<"freeing", nwb>>)
  /\ strVector' = <<>> /\ nwb' = 0 /\ KeepsPtrs /\ KeepsData

Total(s) ==
  LET sum[k \in 0..Len(s)] == IF k = 0 THEN 0 ELSE sum[k - 1] + s[k] IN sum[Len(s)]
Nwb ==
  /\ Is("nwb", 1) /\ Prints(<<"wasted", nwb, Total(strVector)>>)
  /\ KeepsBytes /\ KeepsPtrs /\ KeepsData

-----------------------------------------------------------------------------
(* Shared pointers.  A string lives as long as someone points to it.       *)

use_count(s) ==
  Cardinality({j \in DOMAIN strPtrs : strPtrs[j] = s}) + IF strPtr = s THEN 1 ELSE 0

Alive == {strPtr} \cup {strPtrs[j] : j \in DOMAIN strPtrs}
Ss ==
  /\ Is("ss", 2) /\ Prints(<<"set">>)
  /\ strPtr' = CHOOSE s \in 0..MaxNew : s \notin Alive
  /\ UNCHANGED strPtrs /\ KeepsBytes /\ KeepsData

Count(default) == IF Len(cmd) >= 2 THEN atoi[cmd[2]] ELSE default

As ==
  /\ Is("as", 1) /\ Len(strPtrs) + Count(1) <= MaxSize /\ Prints(<<"attaching">>)
  /\ strPtrs' = strPtrs \o [j \in 1..Count(1) |-> strPtr]
  /\ UNCHANGED strPtr /\ KeepsBytes /\ KeepsData

Sc ==
  /\ Is("sc", 1)
  /\ Prints(<<"counts", [s \in Alive |-> use_count(s)]>>)
  /\ KeepsBytes /\ KeepsPtrs /\ KeepsData

(* Mutant: one more is popped than counted.                                *)
RemovedOneMore ==
  IF Count(1) < 0 \/ Count(1) >= Len(strPtrs) THEN Len(strPtrs) ELSE Count(1) + 1

(* The count is compared as an unsigned number: one below zero is larger   *)
(* than any size.                                                          *)
Removed == IF Count(1) < 0 \/ Count(1) > Len(strPtrs) THEN Len(strPtrs) ELSE Count(1)

Pops(n) == strPtrs' = SubSeq(strPtrs, 1, Len(strPtrs) - n)
Rs ==
  /\ Is("rs", 1) /\ Prints(<<"removing", Count(1)>>) /\ Pops(Removed)
  /\ UNCHANGED strPtr /\ KeepsBytes /\ KeepsData

Cs ==
  /\ Is("cs", 1) /\ Prints(<<"clearing">>) /\ strPtrs' = <<>>
  /\ UNCHANGED strPtr /\ KeepsBytes /\ KeepsData

-----------------------------------------------------------------------------
(* The map and the deque.                                                  *)

MapTo(m, r) ==
  /\ Prints(r) /\ strMap' = m
  /\ UNCHANGED <<dq, written, taken>> /\ KeepsBytes /\ KeepsPtrs

Present == {k \in Keys : strMap[k] # NoVal}
ClearMap == Is("clearmap", 1) /\ MapTo([k \in Keys |-> NoVal], <<"clearing map">>)
Put == Is("put", 3) /\ MapTo([strMap EXCEPT ![cmd[2]] = cmd[3]], <<"setting">>)
DKey == Is("dkey", 2) /\ MapTo([strMap EXCEPT ![cmd[2]] = NoVal], <<"deleting">>)
Get == Is("get", 2) /\ MapTo(strMap, <<"value", IF cmd[2] \in Present THEN strMap[cmd[2]] ELSE "null">>)
AllMap ==
  /\ Is("allmap", 1) \/ Is("keys", 1)
  /\ MapTo(strMap, <<"map", [k \in Present |-> strMap[k]]>>)

DqTo(d, w, t, r) ==
  /\ Prints(r) /\ dq' = d /\ written' = w /\ taken' = t
  /\ UNCHANGED strMap /\ KeepsBytes /\ KeepsPtrs

Dqs == Is("dqs", 1) /\ DqTo(dq, written, taken, <<"size", Len(dq)>>)
Dqc == Is("dqc", 1) /\ DqTo(<<>>, <<>>, <<>>, <<"clearing">>)
Dqw ==
  /\ Is("dqw", 2) /\ Len(written) < MaxSize
  /\ DqTo(Append(dq, cmd[2]), Append(written, cmd[2]), taken, <<"adding">>)

(* Mutant: the last string is taken off instead of the first.              *)
DqrPopsBack ==
  /\ Is("dqr", 1) /\ dq # <<>>
  /\ DqTo(Front(dq), written, Append(taken, Head(dq)), <<"first", Head(dq)>>)

Dqr ==
  /\ Is("dqr", 1) /\ dq # <<>>
  /\ DqTo(Tail(dq), written, Append(taken, Head(dq)), <<"first", Head(dq)>>)

(* begin() of an empty deque points nowhere: what happens is undefined,    *)
(* and the program is taken to end there.                                  *)
DqrEmpty ==
  /\ Is("dqr", 1) /\ dq = <<>>
  /\ shell = "obeying" /\ shell' = "exited"
  /\ UNCHANGED <<input, closed, stream, cmd, demoVars>>

-----------------------------------------------------------------------------
Known == {"help", "exit", "wb", "fb", "nwb", "ss", "as", "sc", "rs", "cs", "clearmap",
          "put", "dkey", "get", "allmap", "keys", "dqs", "dqc", "dqw", "dqr"}
Unknown == ~(\E c \in Known : Is(c, 1)) /\ Done /\ UNCHANGED demoVars

Obey ==
  \/ Wb \/ Fb \/ Nwb \/ Ss \/ As \/ Sc \/ Rs \/ Cs
  \/ ClearMap \/ Put \/ DKey \/ Get \/ AllMap
  \/ Dqs \/ Dqc \/ Dqw \/ Dqr \/ DqrEmpty

Next ==
  \/ (User \/ Reads \/ Help \/ Exit) /\ UNCHANGED demoVars
  \/ Obey \/ Unknown

Spec == Init /\ [][Next]_vars

-----------------------------------------------------------------------------
(* Properties.                                                             *)

(* nwb counts the bytes in strVector, but for one byte less for each empty *)
(* string, which wb of 0 or of -1 has left there.                          *)
BytesAreCounted ==
  LET empty == Cardinality({j \in DOMAIN strVector : strVector[j] = 0})
  IN Total(strVector) - nwb \in 0..empty

(* What is taken off the deque is what was written, in order, once each.   *)
DequeIsInOrder == taken \o dq = written

(* rs and cs let go of the newest pointers alone, so a string that some    *)
(* older entry points to is not freed; rs takes at most as many as there   *)
(* are, and exactly as many as asked for if there are.                     *)
OldPointersStay ==
  [][/\ strPtrs' # strPtrs /\ ~Is("as", 1) => IsPrefix(strPtrs', strPtrs)
     /\ Is("rs", 1) /\ strPtrs' # strPtrs /\ Count(1) \in 0..Len(strPtrs) =>
          Len(strPtrs') + Count(1) = Len(strPtrs)]_vars
=============================================================================
