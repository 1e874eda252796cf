------------------------------ MODULE MapShell ------------------------------
(***************************************************************************)
(* The shell around an unordered_map of shared strings.  nlookups and      *)
(* nlookupsl search for a key a number of times and add up the lengths of  *)
(* what they find; the lock nlookupsl is named for is a variable           *)
(* declaration that locks nothing, and nobody else uses the map.           *)
(***************************************************************************)
EXTENDS SillyShell

CONSTANTS
  Keys, Vals,
  Length,     \* the lengths of the values
  Times,      \* what atoi makes of the third word of nlookups
  NoVal       \* the key is not in the map

MapShellAssumption == LinesAssumption /\ NoVal \notin Vals

VARIABLES
  strMap,     \* the map
  reply       \* what the last command has printed

vars == <<shellVars, strMap, reply>>

Init == ShellInit /\ strMap = [k \in Keys |-> NoVal] /\ reply = <<>>

Present == {k \in Keys : strMap[k] # NoVal}

Put ==
  /\ Is("put", 3) /\ Done /\ reply' = cmd
  /\ strMap' = [strMap EXCEPT ![cmd[2]] = cmd[3]]

Answer == <<"value", IF cmd[2] \in Present THEN strMap[cmd[2]] ELSE "not found">>

(* Mutant: operator[] is used to look the key up, and makes it up.         *)
GetInserts ==
  /\ Is("get", 2) /\ Done /\ reply' = Answer
  /\ strMap' = [strMap EXCEPT ![cmd[2]] = IF @ = NoVal THEN CHOOSE v \in Vals : TRUE ELSE @]

Get == Is("get", 2) /\ Done /\ reply' = Answer /\ UNCHANGED strMap

ListKeys ==
  /\ Is("keys", 1) /\ Done /\ UNCHANGED strMap
  /\ reply' = <<"map", [k \in Present |-> strMap[k]]>>

Del ==
  /\ Is("del", 2) /\ Done /\ reply' = cmd
  /\ strMap' = [strMap EXCEPT ![cmd[2]] = NoVal]

Clear ==
  /\ Is("clear", 2) /\ Done /\ reply' = cmd
  /\ strMap' = [k \in Keys |-> NoVal]

SumLength(key) ==
  IF key \in Present THEN Times[cmd[3]] * Length[strMap[key]] ELSE 0

NLookups ==
  /\ Is("nlookups", 3) \/ Is("nlookupsl", 3)
  /\ Done /\ reply' = <<"length", SumLength(cmd[2])>> /\ UNCHANGED strMap

Arity == [help |-> 1, exit |-> 1, put |-> 3, get |-> 2, keys |-> 1, del |-> 2,
          clear |-> 2, nlookups |-> 3, nlookupsl |-> 3]
Unrecognized ==
  /\ \A c \in DOMAIN Arity : ~Is(c, Arity[c])
  /\ Done /\ reply' = <<"unrecognized">> /\ UNCHANGED strMap

Shell ==
  \/ (Reads \/ Help \/ Exit) /\ UNCHANGED <<strMap, reply>>
  \/ Put \/ Get \/ ListKeys \/ Del \/ Clear \/ NLookups \/ Unrecognized

Next == (User /\ UNCHANGED <<strMap, reply>>) \/ Shell

Spec == Init /\ [][Next]_vars

=============================================================================
