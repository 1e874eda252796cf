------------------------------- MODULE Shells -------------------------------
(***************************************************************************)
(* The experiments behind a prompt: maindemo, whose commands fall into     *)
(* groups that share nothing but the prompt, and the shell around an       *)
(* unordered_map.  A session uses one group of commands only; which one is *)
(* open.  In a session of words a line is looked at character by           *)
(* character, instead of the commands.                                     *)
(***************************************************************************)
EXTENDS Integers, Sequences

CONSTANTS
  Menus,                           \* DemoShell's lines, for each group of them
  MapLines,                        \* MapShell's lines
  Keys, Vals, NoVal,               \* the entries of the maps
  atoi, MaxSize, MaxNew,           \* see DemoShell
  Length, Times,                   \* see MapShell
  INT_BITS, Default, BitSizes, Inputs, Values,    \* see BitArray
  RingSizes, Texts, Amounts, MaxRing, MaxUsed, NL,    \* see RingBuffer
  MaxThreads, MaxTimes, NoThread,                 \* see ThreadManager
  Chars, NUL, Junk, Delims, TypedLines, STRBUFFSIZE   \* see CommandLine

VARIABLES
  session,                              \* the group of commands used
  input, closed, stream, cmd, shell,    \* the prompt
  nwb, strVector, strPtr, strPtrs, strMap, dq, written, taken,   \* DemoShell
  ba, shown,                            \* BitArray
  rb, result,                           \* RingBuffer
  threads, deleted, main, j, n, state, left, coutMtx,   \* ThreadManager
  text, ci, cb, buff, words,            \* CommandLine
  reply                                 \* what was printed last

promptVars == <<input, closed, stream, cmd, shell>>
demoVars == <<nwb, strVector, strPtr, strPtrs, dq, written, taken>>
arrayVars == <<ba, shown, rb, result>>
threadVars == <<threads, deleted, main, j, n, state, left, coutMtx>>
wordVars == <<text, ci, cb, buff, words>>
vars == <<session, promptVars, demoVars, strMap, arrayVars, threadVars, wordVars, reply>>

Demo == INSTANCE DemoShell WITH Lines <- UNION {Menus[m] : m \in DOMAIN Menus}
Map == INSTANCE MapShell WITH Lines <- MapLines
Bits == INSTANCE BitArray WITH Sizes <- BitSizes
Ring == INSTANCE RingBuffer WITH Sizes <- RingSizes, Words <- Texts, MaxSize <- MaxRing
Threads == INSTANCE ThreadManager
Line == INSTANCE CommandLine WITH Texts <- TypedLines, strVector <- words

DemoSessions == DOMAIN Menus
Sessions == DemoSessions \cup {"map", "bits", "ring", "threads", "words"}

ASSUME ShellsAssumption ==
  /\ DemoSessions \cap {"map", "bits", "ring", "threads", "words"} = {}
  /\ Demo!DemoShellAssumption
  /\ Map!MapShellAssumption
  /\ Bits!WordAssumption
  /\ Ring!NumbersAssumption
  /\ Threads!ThreadManagerAssumption
  /\ Line!CommandLineAssumption

(* Nothing but the last group of variables has more than one initial value. *)
Init ==
  /\ session \in Sessions
  /\ Demo!Init /\ Bits!Init /\ Ring!Init /\ Threads!Init
  /\ IF session = "words" THEN Line!Init ELSE Line!Init /\ text = <<>>

-----------------------------------------------------------------------------
DemoActs ==
  /\ session \in DemoSessions /\ Demo!Next
  /\ input' # <<>> => input'[1] \in Menus[session]
  /\ UNCHANGED <<session, arrayVars, threadVars, wordVars>>

MapActs ==
  /\ session = "map" /\ Map!Next
  /\ UNCHANGED <<session, demoVars, arrayVars, threadVars, wordVars>>

BitsActs ==
  /\ session = "bits" /\ Bits!Next
  /\ UNCHANGED <<session, promptVars, demoVars, strMap, rb, result, threadVars, wordVars, reply>>

RingActs ==
  /\ session = "ring" /\ Ring!Next
  /\ UNCHANGED <<session, promptVars, demoVars, strMap, ba, shown, threadVars, wordVars, reply>>

OthersOfThreads ==
  <<session, promptVars, demoVars, strMap, arrayVars, wordVars>>
ThreadsAct == session = "threads" /\ Threads!Next /\ UNCHANGED OthersOfThreads

LineActs ==
  /\ session = "words" /\ Line!Next
  /\ UNCHANGED <<session, promptVars, demoVars, strMap, arrayVars, threadVars, reply>>

Next == DemoActs \/ MapActs \/ BitsActs \/ RingActs \/ ThreadsAct \/ LineActs

(* The shell runs, and so do its threads; the user need not do anything.   *)
Fairness ==
  /\ WF_vars(MapActs /\ Map!Shell)
  /\ \A t \in Threads!All :
       WF_vars(session = "threads" /\ main # "exited" /\ Threads!Runner(t)
               /\ UNCHANGED OthersOfThreads)
  /\ WF_vars(session = "threads" /\ Threads!Joining /\ UNCHANGED OthersOfThreads)

Spec == Init /\ [][Next]_vars /\ Fairness

-----------------------------------------------------------------------------
(* Properties, each put together from those of the parts.                  *)

(* What is kept is in order: the strings written to the deque and taken    *)
(* off it, the threads created, joined and detached, of which one writes   *)
(* at a time, and string2vector's buffer, which is never written beyond    *)
(* its end and holds the word read so far.                                 *)
ShellsInv ==
  /\ Demo!DequeIsInOrder
  /\ Threads!HandlesAreAlive /\ Threads!OneWriter
  /\ Line!BufferInv

(* What is worked out is right: the bytes wasted and freed, the bits in    *)
(* both notations, the words string2vector and splitStr find in a line;    *)
(* joinStr undoes splitStr.                                                *)
ResultsAreRight ==
  /\ Demo!BytesAreCounted /\ Bits!HexAndBinAgree
  /\ Line!WordsAreFound /\ Line!SplitFindsTheWords /\ Line!JoinedSplitsAgain

(* The packed words are a vector of bits; the ring is a queue of bytes, as *)
(* long as its user does not drive the head out of the array.              *)
ImplementsAbstractTypes == Bits!ImplementsBitVector /\ Ring!ImplementsByteQueue

(* Only a key the user named changes, or all when all are cleared: no      *)
(* look-up, and no line half read, leaves an entry behind.                 *)
OnlyNamedKeysChange ==
  [][\A k \in Keys : strMap'[k] # strMap[k] =>
       \/ Map!Is("clear", 2) \/ Demo!Is("clearmap", 1)
       \/ /\ Map!Is("del", 2) \/ Demo!Is("dkey", 2)
          /\ cmd[2] = k /\ strMap'[k] = NoVal
       \/ Map!Is("put", 3) /\ cmd[2] = k /\ strMap'[k] = cmd[3]]_vars

(* A command changes what it names and leaves the rest: the older pointers *)
(* of strPtrs, the other keys of strMap, the threads that still run; and a *)
(* line that could not be read is no command.                              *)
CommandsKeepTheRest ==
  /\ Demo!OldPointersStay /\ Demo!NothingIsObeyedTwice
  /\ OnlyNamedKeysChange /\ Threads!JoinedAreOver

(* joinThreads comes back, and the end of the input ends the map's shell,  *)
(* unless a line before did not fit.                                       *)
CommandsReturn ==
  /\ Threads!JoinReturns
  /\ (session = "map" /\ closed) ~> (shell = "exited" \/ stream = "failed")
=============================================================================
