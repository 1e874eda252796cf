------------------------------ MODULE MCShells ------------------------------
(***************************************************************************)
(* maindemo: the numbers -2 to 2; two keys, two values, one of which is    *)
(* "null"; three threads.  The map: every command with and without its     *)
(* arguments, and lines that do not fit, cut at each place of a put.       *)
(* Bits: words of four; arrays of less than a word, of one, of more, of    *)
(* none; positions on both sides of every bound.  Rings of up to three     *)
(* bytes, and four once doubled, from which a negative number brings back  *)
(* more than there is room for.  Lines of up to five characters, with a   *)
(* buffer for two.                                                         *)
(***************************************************************************)
EXTENDS Shells, TLC

Fits(lines) == {[words |-> w, fits |-> TRUE] : w \in lines}
TooLong(lines) == {[words |-> w, fits |-> FALSE] : w \in lines}

MCatoi == ("-2" :> -2) @@ ("-1" :> -1) @@ ("0" :> 0) @@ ("1" :> 1) @@ ("2" :> 2)

MCMenus == [
  bytes |-> Fits({<<"wb", k>> : k \in DOMAIN MCatoi} \cup {<<"fb">>, <<"nwb">>}),
  pointers |->
    Fits({<<"as", "0">>, <<"as", "2">>, <<"as">>, <<"rs", "-1">>, <<"rs", "2">>, <<"rs">>,
          <<"ss", "x">>, <<"sc">>, <<"cs">>})
      \cup TooLong({<<>>, <<"a">>, <<"as">>, <<"as", "1">>}),
  entries |->
    Fits({<<"put", k, v>> : k \in Keys, v \in Vals}
           \cup {<<c, k>> : c \in {"get", "dkey"}, k \in Keys}
           \cup {<<"clearmap">>, <<"keys">>, <<"allmap">>, <<"help">>, <<"exit">>, <<"what">>}),
  deque |-> Fits({<<"dqw", v>> : v \in Vals} \cup {<<"dqr">>, <<"dqc">>, <<"dqs">>})]

MCLength == [v |-> 1, null |-> 4]
MCTimes == [three |-> 3, none |-> 0]
MCMapLines ==
  Fits({<<"put", k, v>> : k \in Keys, v \in Vals}
         \cup {<<c, k>> : c \in {"get", "del", "put"}, k \in Keys}
         \cup {<<c, k, t>> : c \in {"nlookups", "nlookupsl"}, k \in Keys, t \in DOMAIN MCTimes}
         \cup {<<"clear">>, <<"clear", "map">>, <<"keys">>, <<"help">>, <<"exit">>, <<"nonsense">>})
    \cup TooLong({<<>>, <<"pu">>, <<"put">>} \cup {<<"put", k>> : k \in Keys}
                   \cup {<<"put", k, v>> : k \in Keys, v \in Vals \cup {"nu"}})

MCBitSizes == {-1, 0, 3, 4, 6}
MCInputs == -1..7
MCValues == {-1, 0, 1, 2}

MCRingSizes == -1..3
MCAmounts == -2..2
MCTexts == {<<"a", "NL">>, <<"b", "X", "X">>}

MCTypedLines == UNION {[1..k -> Chars] : k \in 0..5}
=============================================================================
