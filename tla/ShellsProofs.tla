---------------------------- MODULE ShellsProofs ----------------------------
(***************************************************************************)
(* What is proved of the experiments behind a prompt, for any lines typed, *)
(* any number of threads and a buffer for words of any size: what the      *)
(* shells keep stays in order, what they work out is right, a command      *)
(* changes what it names and leaves the rest, packed bits are a vector of  *)
(* bits, and the ring is a queue.                                          *)
(***************************************************************************)
EXTENDS Shells, SequenceTheorems, FiniteSetTheorems, WellFoundedInduction, TLAPS

-----------------------------------------------------------------------------
(* The thread manager.                                                     *)

All == Threads!All
ThreadStates == {"none", "sleeping", "writing", "over"}

ThreadsOK ==
  /\ n \in 0..MaxThreads /\ j \in Nat \ {0} /\ main \in {"idle", "joining", "exited"}
  /\ threads \in Seq(All) /\ deleted \subseteq 1..n
  /\ state \in [All -> ThreadStates] /\ left \in [All -> Nat]
  /\ \A t \in All : state[t] = "none" <=> t > n

(* Pointers in the list are not in it twice, and are those of the objects  *)
(* that exist; joinThreads has deleted the first j - 1 of them.            *)
ListInv ==
  /\ Threads!IsInjective(threads)
  /\ main = "idle" => Threads!ToSet(threads) = 1..n \ deleted
  /\ main = "joining" =>
       /\ 1..n = deleted \cup Threads!ToSet(threads)
       /\ j <= Len(threads) + 1
       /\ \A i \in 1..Len(threads) : threads[i] \in deleted <=> i < j

RunnersInv ==
  /\ Threads!OneWriter
  /\ main # "exited" => \A t \in All :
       /\ state[t] = "over" => left[t] = 0
       /\ state[t] = "writing" => left[t] > 0

ThreadsInv == ThreadsOK /\ ListInv /\ RunnersInv

LEMMA ThreadsAssumed == MaxThreads \in Nat /\ NoThread \notin All /\ All = 1..MaxThreads
  BY ShellsAssumption DEF Threads!ThreadManagerAssumption, All, Threads!All

LEMMA ThreadsInit == Threads!Init => ThreadsInv
<1> SUFFICES ASSUME Threads!Init PROVE ThreadsInv
  OBVIOUS
<1>1. ThreadsOK
  BY ThreadsAssumed DEF Threads!Init, ThreadsOK, ThreadStates, All
<1>2. ListInv
  BY DEF Threads!Init, ListInv, Threads!IsInjective, Threads!ToSet
<1>3. RunnersInv
  BY ThreadsAssumed DEF Threads!Init, RunnersInv, Threads!OneWriter, All
<1> QED BY <1>1, <1>2, <1>3 DEF ThreadsInv

(* A thread holds the mutex while it writes, and returns when it has       *)
(* written its lines.                                                      *)
LEMMA RunnerStep ==
  ASSUME ThreadsInv, main # "exited", NEW t \in All, Threads!Runner(t)
  PROVE  ThreadsInv'
<1>1. /\ UNCHANGED <<threads, deleted, main, j, n>>
      /\ state[t] \in {"sleeping", "writing"}
      /\ \E s \in ThreadStates \ {"none"} : state' = [state EXCEPT ![t] = s]
  BY DEF Threads!Runner, Threads!Lock, Threads!Unlock, Threads!Return, Threads!Goes,
     Threads!KeepsManager, ThreadStates
<1>2. left' \in [All -> Nat]
  <2>1. left \in [All -> Nat] /\ (state[t] = "writing" => left[t] > 0)
    BY DEF ThreadsInv, ThreadsOK, RunnersInv
  <2>2. \/ left' = left
        \/ left' = [left EXCEPT ![t] = @ - 1] /\ state[t] = "writing"
    BY DEF Threads!Runner, Threads!Lock, Threads!Unlock, Threads!Return, Threads!Goes
  <2> QED BY <2>1, <2>2
<1>3. ThreadsOK'
  BY <1>1, <1>2 DEF ThreadsInv, ThreadsOK
<1>4. ListInv'
  BY <1>1 DEF ThreadsInv, ListInv
<1>5. RunnersInv'
  BY <1>1, ThreadsAssumed DEF ThreadsInv, ThreadsOK, RunnersInv, Threads!OneWriter, Threads!Runner,
     Threads!Lock, Threads!Unlock, Threads!Return, Threads!Goes, Threads!KeepsManager, All, ThreadStates
<1> QED BY <1>3, <1>4, <1>5 DEF ThreadsInv

(* A new thread is put into the list.                                      *)
LEMMA NewThreadStep == ASSUME ThreadsInv, Threads!newThread PROVE ThreadsInv'
<1>1. /\ main = "idle" /\ n < MaxThreads /\ n' = n + 1 /\ threads' = Append(threads, n + 1)
      /\ state' = [state EXCEPT ![n + 1] = "sleeping"]
      /\ \E k \in 0..MaxTimes : left' = [left EXCEPT ![n + 1] = k]
      /\ UNCHANGED <<deleted, main, j, coutMtx>>
  BY DEF Threads!newThread
<1>2. /\ n + 1 \in All /\ n \in Nat /\ threads \in Seq(All) /\ Len(threads) \in Nat
      /\ state \in [All -> ThreadStates] /\ left \in [All -> Nat] /\ deleted \subseteq 1..n
      /\ \A t \in All : state[t] = "none" <=> t > n
  BY <1>1, ThreadsAssumed DEF ThreadsInv, ThreadsOK
<1>3. ThreadsOK'
  <2>1. threads' \in Seq(All)
    BY <1>1, <1>2
  <2>2. n' \in 0..MaxThreads /\ deleted' \subseteq 1..n'
    BY <1>1, <1>2, ThreadsAssumed
  <2>3. state' \in [All -> ThreadStates]
    BY <1>1, <1>2 DEF ThreadStates
  <2>4. left' \in [All -> Nat]
    BY <1>1, <1>2
  <2>5. \A t \in All : state'[t] = "none" <=> t > n'
    BY <1>1, <1>2, ThreadsAssumed
  <2>6. j' \in Nat \ {0} /\ main' \in {"idle", "joining", "exited"}
    BY <1>1 DEF ThreadsInv, ThreadsOK
  <2> QED BY <2>1, <2>2, <2>3, <2>4, <2>5, <2>6 DEF ThreadsOK
<1>4. /\ Len(threads') = Len(threads) + 1 /\ threads'[Len(threads) + 1] = n + 1
      /\ \A i \in 1..Len(threads) : threads'[i] = threads[i] /\ threads[i] \in 1..n
      /\ DOMAIN threads = 1..Len(threads) /\ DOMAIN threads' = 1..(Len(threads) + 1)
      /\ 1..n = Threads!ToSet(threads) \cup deleted
  <2>1. Threads!ToSet(threads) = 1..n \ deleted
    BY <1>1 DEF ThreadsInv, ListInv
  <2>2. DOMAIN threads = 1..Len(threads)
    BY <1>2
  <2>3. ASSUME NEW i \in 1..Len(threads) PROVE threads[i] \in 1..n
    BY <2>1, <2>2 DEF Threads!ToSet
  <2>4. /\ Len(threads') = Len(threads) + 1 /\ threads'[Len(threads) + 1] = n + 1
        /\ \A i \in 1..Len(threads) : threads'[i] = threads[i]
        /\ DOMAIN threads' = 1..(Len(threads) + 1)
    BY <1>1, <1>2, AppendProperties
  <2>5. 1..n = Threads!ToSet(threads) \cup deleted
    BY <1>2, <2>1
  <2> QED BY <2>2, <2>3, <2>4, <2>5
<1>5. ListInv'
  <2>1. Threads!IsInjective(threads')
    <3>1. Threads!IsInjective(threads)
      BY DEF ThreadsInv, ListInv
    <3> SUFFICES ASSUME NEW a \in 1..(Len(threads) + 1), NEW b \in 1..(Len(threads) + 1),
                        threads'[a] = threads'[b]
                 PROVE  a = b
      BY <1>4 DEF Threads!IsInjective
    <3>2. \A i \in 1..(Len(threads) + 1) : i \in 1..Len(threads) \/ i = Len(threads) + 1
      BY <1>2
    <3>3. n + 1 \notin 1..n
      BY <1>2
    <3> QED BY <3>1, <3>2, <3>3, <1>4 DEF Threads!IsInjective
  <2>2. Threads!ToSet(threads') = 1..n' \ deleted'
    <3>1. Threads!ToSet(threads') = Threads!ToSet(threads) \cup {n + 1}
      <4>1. 1..(Len(threads) + 1) = 1..Len(threads) \cup {Len(threads) + 1}
        BY <1>2
      <4> QED BY <4>1, <1>4 DEF Threads!ToSet
    <3>2. Threads!ToSet(threads) = 1..n \ deleted
      BY <1>1 DEF ThreadsInv, ListInv
    <3>3. 1..(n + 1) = 1..n \cup {n + 1} /\ n + 1 \notin deleted
      BY <1>2
    <3> QED BY <3>1, <3>2, <3>3, <1>1
  <2> QED BY <2>1, <2>2, <1>1 DEF ListInv
<1>6. RunnersInv'
  <2>1. state[n + 1] = "none"
    BY <1>2
  <2>2. \A t \in All : t # n + 1 => state'[t] = state[t] /\ left'[t] = left[t]
    BY <1>1, <1>2
  <2>3. state'[n + 1] = "sleeping"
    BY <1>1, <1>2
  <2> QED BY <1>1, <2>1, <2>2, <2>3, <1>2 DEF ThreadsInv, RunnersInv, Threads!OneWriter, All
<1> QED BY <1>3, <1>5, <1>6 DEF ThreadsInv

(* joinThreads waits for each thread in turn, and deletes its object.      *)
LEMMA JoinStep ==
  ASSUME ThreadsInv, Threads!Join
  PROVE  /\ ThreadsInv'
         /\ \A t \in deleted' \ deleted : state[t] = "over" /\ left[t] = 0
<1>1. /\ main = "joining" /\ j <= Len(threads) /\ state[threads[j]] = "over"
      /\ deleted' = deleted \cup {threads[j]} /\ j' = j + 1
      /\ UNCHANGED <<threads, main, n, state, left, coutMtx>>
  BY DEF Threads!Join, Threads!KeepsThreads
<1>2. /\ threads \in Seq(All) /\ Len(threads) \in Nat /\ j \in 1..Len(threads) /\ j \in Nat
      /\ threads[j] \in All /\ threads[j] \in 1..n /\ n \in Nat
  <2>1. j \in Nat \ {0} /\ threads \in Seq(All) /\ n \in Nat
    BY <1>1 DEF ThreadsInv, ThreadsOK
  <2>2. j \in 1..Len(threads)
    BY <1>1, <2>1
  <2>3. threads[j] \in All
    BY <2>1, <2>2, ElementOfSeq
  <2>4. threads[j] \in 1..n
    BY <1>1, <2>1, <2>2 DEF ThreadsInv, ListInv, Threads!ToSet
  <2> QED BY <2>1, <2>2, <2>3, <2>4
<1>3. ThreadsOK'
  <2>1. deleted \subseteq 1..n
    BY DEF ThreadsInv, ThreadsOK
  <2>2. threads[j] \in 1..n /\ deleted' = deleted \cup {threads[j]} /\ n' = n
    BY <1>1, <1>2
  <2>3. deleted' \subseteq 1..n'
    BY <2>1, <2>2, Zenon
  <2>4. j' \in Nat \ {0}
    BY <1>1, <1>2
  <2> QED BY <2>3, <2>4, <1>1 DEF ThreadsInv, ThreadsOK
<1>4. RunnersInv' /\ left[threads[j]] = 0
  <2>1. RunnersInv'
    BY <1>1 DEF ThreadsInv, RunnersInv, Threads!OneWriter
  <2>2. main # "exited"
    BY <1>1
  <2>3. \A t \in All : state[t] = "over" => left[t] = 0
    BY <2>2 DEF ThreadsInv, RunnersInv
  <2> QED BY <2>1, <2>3, <1>1, <1>2
<1>5. ListInv'
  <2>1. /\ \A a, b \in DOMAIN threads : threads[a] = threads[b] => a = b
        /\ \A i \in 1..Len(threads) : threads[i] \in deleted <=> i < j
        /\ 1..n = deleted \cup Threads!ToSet(threads)
    BY <1>1 DEF ThreadsInv, ListInv, Threads!IsInjective
  <2>2. \A i \in 1..Len(threads) : threads[i] \in deleted' <=> i < j'
    <3> TAKE i \in 1..Len(threads)
    <3>1. threads[i] = threads[j] <=> i = j
      BY <2>1, <1>2
    <3> QED BY <3>1, <2>1, <1>1, <1>2
  <2>3. 1..n' = deleted' \cup Threads!ToSet(threads') /\ j' <= Len(threads') + 1
    BY <2>1, <1>1, <1>2
  <2> QED BY <2>1, <2>2, <2>3, <1>1 DEF ListInv, Threads!IsInjective
<1> QED BY <1>1, <1>3, <1>4, <1>5 DEF ThreadsInv

(* When all are joined the list is emptied.                                *)
LEMMA AllJoinedStep == ASSUME ThreadsInv, Threads!AllJoined PROVE ThreadsInv'
<1>1. /\ main = "joining" /\ main' = "idle" /\ j > Len(threads) /\ threads' = <<>>
      /\ UNCHANGED <<deleted, j, n, state, left, coutMtx>>
  BY DEF Threads!AllJoined, Threads!KeepsThreads
<1>2. ThreadsOK' /\ RunnersInv'
  BY <1>1 DEF ThreadsInv, ThreadsOK, RunnersInv, Threads!OneWriter
<1>3. Threads!ToSet(threads) \subseteq deleted
  <2>1. threads \in Seq(All) /\ j \in Nat
    BY DEF ThreadsInv, ThreadsOK
  <2>2. \A i \in 1..Len(threads) : threads[i] \in deleted
    BY <1>1, <2>1 DEF ThreadsInv, ListInv
  <2> QED BY <2>1, <2>2 DEF Threads!ToSet
<1>4. ListInv'
  BY <1>1, <1>3 DEF ThreadsInv, ListInv, Threads!ToSet, Threads!IsInjective
<1> QED BY <1>2, <1>4 DEF ThreadsInv

(* The manager's other steps.                                              *)
LEMMA ManagerStep ==
  ASSUME ThreadsInv,
         \/ Threads!detachThreads \/ Threads!joinThreads \/ Threads!ShowThreads
         \/ Threads!getNThreads \/ Threads!Exit
  PROVE  ThreadsInv' /\ deleted' = (IF main = "joining" THEN deleted ELSE deleted')
<1> USE DEF Threads!KeepsThreads
<1>1. main = "idle" /\ Threads!ToSet(threads) = 1..n \ deleted /\ n' = n /\ threads \in Seq(All)
  BY DEF Threads!detachThreads, Threads!joinThreads, Threads!ShowThreads, Threads!getNThreads,
     Threads!Exit, Threads!Show, Threads!ShowCount, ThreadsInv, ListInv, ThreadsOK
<1>2. CASE Threads!detachThreads
  <2>1. ThreadsOK' /\ RunnersInv'
    BY <1>1, <1>2 DEF Threads!detachThreads, ThreadsInv, ThreadsOK, RunnersInv, Threads!OneWriter
  <2>2. ListInv'
    BY <1>1, <1>2 DEF Threads!detachThreads, ThreadsInv, ListInv, ThreadsOK, Threads!ToSet, Threads!IsInjective
  <2> QED BY <2>1, <2>2, <1>1 DEF ThreadsInv
<1>3. CASE Threads!joinThreads
  <2>1. ThreadsOK' /\ RunnersInv'
    BY <1>1, <1>3 DEF Threads!joinThreads, ThreadsInv, ThreadsOK, RunnersInv, Threads!OneWriter
  <2>2. /\ main' = "joining" /\ j' = 1 /\ threads' = threads /\ deleted' = deleted
        /\ Threads!IsInjective(threads) /\ deleted \subseteq 1..n /\ Len(threads) \in Nat
    BY <1>3, <1>1 DEF Threads!joinThreads, ThreadsInv, ThreadsOK, ListInv
  <2>3. \A i \in 1..Len(threads) : threads[i] \notin deleted
    <3>1. DOMAIN threads = 1..Len(threads)
      BY <1>1
    <3> QED BY <3>1, <1>1 DEF Threads!ToSet
  <2>4. 1..n' = deleted' \cup Threads!ToSet(threads') /\ j' <= Len(threads') + 1
    <3>1. 1..n = deleted \cup Threads!ToSet(threads)
      BY <1>1, <2>2
    <3>2. j' <= Len(threads') + 1
      BY <2>2
    <3> QED BY <3>1, <3>2, <1>1, <2>2
  <2>5. \A i \in 1..Len(threads) : threads[i] \in deleted' <=> i < j'
    BY <2>2, <2>3
  <2>6. ListInv'
    BY <2>2, <2>4, <2>5 DEF ListInv, Threads!IsInjective
  <2> QED BY <2>1, <2>6, <1>1 DEF ThreadsInv
<1>4. CASE Threads!Exit
  <2>1. ThreadsOK'
    BY <1>1, <1>4 DEF Threads!Exit, ThreadsInv, ThreadsOK, ThreadStates, All
  <2>2. ListInv' /\ RunnersInv'
    BY <1>1, <1>4 DEF Threads!Exit, ThreadsInv, ListInv, RunnersInv, Threads!OneWriter
  <2> QED BY <2>1, <2>2, <1>1 DEF ThreadsInv
<1>5. CASE Threads!ShowThreads \/ Threads!getNThreads
  BY <1>1, <1>5 DEF Threads!ShowThreads, Threads!getNThreads, Threads!Show, Threads!ShowCount,
     ThreadsInv, ThreadsOK, ListInv, RunnersInv, Threads!OneWriter
<1> QED BY <1>2, <1>3, <1>4, <1>5

LEMMA ThreadsStep ==
  ASSUME ThreadsInv, Threads!Next
  PROVE  /\ ThreadsInv'
         /\ main = "joining" /\ deleted' # deleted =>
              \A t \in deleted' \ deleted : state[t] = "over" /\ left[t] = 0
<1>1. CASE \E t \in All : main # "exited" /\ Threads!Runner(t)
  BY <1>1, RunnerStep DEF Threads!Runner, Threads!Lock, Threads!Unlock, Threads!Return,
     Threads!KeepsManager
<1>2. CASE Threads!newThread
  BY <1>2, NewThreadStep DEF Threads!newThread
<1>3. CASE Threads!Join
  BY <1>3, JoinStep
<1>4. CASE Threads!AllJoined
  BY <1>4, AllJoinedStep DEF Threads!AllJoined
<1>5. CASE \/ Threads!detachThreads \/ Threads!joinThreads \/ Threads!ShowThreads
           \/ Threads!getNThreads \/ Threads!Exit
  BY <1>5, ManagerStep
<1> QED BY <1>1, <1>2, <1>3, <1>4, <1>5 DEF Threads!Next, Threads!Joining, All

-----------------------------------------------------------------------------
(* The prompt.                                                             *)

DemoLines == UNION {Menus[m] : m \in DOMAIN Menus}
Typed(s) == IF s = "map" THEN MapLines ELSE DemoLines
AllWords == Demo!WordsOf(DemoLines) \cup Map!WordsOf(MapLines)

(* What the demo's commands take for a number is one.                      *)
Counts(s, c) ==
  s \in DemoSessions /\ Len(c) >= 2 /\ c[1] \in {"wb", "as", "rs"} => atoi[c[2]] \in Int

PromptInv ==
  /\ session \in Sessions
  /\ input = <<>> \/ \E l \in Typed(session) : input = <<l>>
  /\ cmd \in Seq(AllWords) /\ Counts(session, cmd)

(* What is read is the words of a line typed, or the first of them.        *)
LEMMA LinesAreWords ==
  ASSUME NEW s \in Sessions, NEW l \in Typed(s)
  PROVE  l.words \in Seq(AllWords) /\ Counts(s, l.words)
<1>1. CASE s = "map"
  <2>1. s \notin DemoSessions
    BY <1>1, ShellsAssumption
  <2>2. l.words \in Seq(Map!WordsOf(MapLines))
    BY <1>1, ShellsAssumption DEF Typed, Map!MapShellAssumption, Map!LinesAssumption
  <2>3. l.words \in Seq(AllWords)
    BY <2>2 DEF AllWords
  <2> QED BY <2>1, <2>3 DEF Counts
<1>2. CASE s # "map"
  <2>1. l \in DemoLines
    BY <1>2 DEF Typed
  <2>2. l.words \in Seq(Demo!WordsOf(DemoLines))
    BY <2>1, ShellsAssumption DEF DemoLines, Demo!DemoShellAssumption, Demo!LinesAssumption
  <2>3. l.words \in Seq(AllWords)
    BY <2>2 DEF AllWords
  <2>4. Len(l.words) >= 2 /\ l.words[1] \in {"wb", "as", "rs"} => atoi[l.words[2]] \in Int
    BY <2>1, ShellsAssumption DEF DemoLines, Demo!DemoShellAssumption
  <2> QED BY <2>3, <2>4 DEF Counts
<1> QED BY <1>1, <1>2

(* Both shells read through one prompt.                                    *)
LEMMA OnePrompt == Demo!Reads => Map!Reads
  BY DEF Demo!Reads, Demo!GetLine, Demo!GetLastLine, Demo!GetEnd, Demo!GetTooLong, Demo!GetNothing,
     Demo!Obeys, Map!Reads, Map!GetLine, Map!GetLastLine, Map!GetEnd, Map!GetTooLong, Map!GetNothing,
     Map!Obeys

(* A line that could not be read is empty.                                 *)
LEMMA ReadsStep ==
  ASSUME PromptInv, session' = session, Map!Reads
  PROVE  /\ PromptInv'
         /\ shell = "reading" /\ (stream = "failed" => cmd' = <<>>)
<1> USE DEF Map!Obeys
<1>1. PICK c \in Seq(AllWords) :
        /\ Counts(session, c) /\ cmd' = c
        /\ input' = input \/ input' = <<>>
        /\ stream = "failed" => c = <<>>
  <2>1. <<>> \in Seq(AllWords) /\ Counts(session, <<>>)
    BY DEF Counts
  <2>2. CASE input = <<>>
    BY <2>1, <2>2 DEF Map!Reads, Map!GetLine, Map!GetLastLine, Map!GetEnd, Map!GetTooLong, Map!GetNothing
  <2>3. CASE input # <<>>
    <3>1. PICK l \in Typed(session) : input = <<l>>
      BY <2>3 DEF PromptInv
    <3>2. l.words \in Seq(AllWords) /\ Counts(session, l.words) /\ input[1] = l
      BY <3>1, LinesAreWords DEF PromptInv
    <3>4. \/ cmd' = <<>> /\ (input' = input \/ input' = <<>>)
          \/ cmd' = input[1].words /\ input' = <<>> /\ stream = "good"
      BY DEF Map!Reads, Map!GetLine, Map!GetLastLine, Map!GetEnd, Map!GetTooLong, Map!GetNothing
    <3>5. CASE cmd' = <<>> /\ (input' = input \/ input' = <<>>)
      BY <3>5, <2>1
    <3>6. CASE cmd' = input[1].words /\ input' = <<>> /\ stream = "good"
      BY <3>6, <3>2
    <3> QED BY <3>4, <3>5, <3>6
  <2> QED BY <2>2, <2>3
<1>2. shell = "reading"
  BY DEF Map!Reads, Map!GetLine, Map!GetLastLine, Map!GetEnd, Map!GetTooLong, Map!GetNothing
<1>3. PromptInv'
  BY <1>1 DEF PromptInv
<1> QED BY <1>1, <1>2, <1>3

(* What the user does, and what a command does: the words stay.            *)
LEMMA UserStep ==
  ASSUME PromptInv, session' = session, NEW lines, lines \subseteq Typed(session),
         \/ input' = input
         \/ \E l \in lines : input' = <<l>>,
         cmd' = cmd
  PROVE  PromptInv'
  BY DEF PromptInv

LEMMA DemoCommandKeeps ==
  ASSUME Demo!Obey \/ Demo!Unknown \/ Demo!Help \/ Demo!Exit
  PROVE  shell = "obeying" /\ UNCHANGED <<input, closed, stream, cmd>>
  BY DEF Demo!Obey, Demo!Unknown, Demo!Help, Demo!Exit, Demo!Wb, Demo!Fb, Demo!Nwb, Demo!Ss, Demo!As,
     Demo!Sc, Demo!Rs, Demo!Cs, Demo!ClearMap, Demo!Put, Demo!DKey, Demo!Get, Demo!AllMap,
     Demo!Dqs, Demo!Dqc, Demo!Dqw, Demo!Dqr, Demo!DqrEmpty, Demo!Prints, Demo!Done, Demo!MapTo, Demo!DqTo

(* A command of the map's shell.                                           *)
MapCommand ==
  \/ (Map!Help \/ Map!Exit) /\ UNCHANGED strMap
  \/ Map!Put \/ Map!Get \/ Map!ListKeys \/ Map!Del \/ Map!Clear
  \/ Map!NLookups \/ Map!Unrecognized

LEMMA MapCommandKeeps ==
  ASSUME MapCommand
  PROVE  shell = "obeying" /\ UNCHANGED <<input, closed, stream, cmd>>
  BY DEF MapCommand, Map!Help, Map!Exit, Map!Put, Map!Get, Map!ListKeys, Map!Del, Map!Clear,
     Map!NLookups, Map!Unrecognized, Map!Done

-----------------------------------------------------------------------------
(* The demo's deque, pointers and map.                                     *)

DequeInv == dq \in Seq(AllWords) /\ written \in Seq(AllWords) /\ taken \in Seq(AllWords)
            /\ Demo!DequeIsInOrder
PointersInv == strPtrs \in Seq(Demo!Alive)
MapInv == DOMAIN strMap = Keys

(* Each command of the demo touches one group of variables at most.        *)
LEMMA ObeyTouches ==
  ASSUME Demo!Obey
  PROVE  /\ UNCHANGED <<dq, written, taken>> \/ Demo!Dqc \/ Demo!Dqw \/ Demo!Dqr
         /\ UNCHANGED <<strPtr, strPtrs>> \/ Demo!Ss \/ Demo!As \/ Demo!Rs \/ Demo!Cs
         /\ UNCHANGED strMap \/ Demo!ClearMap \/ Demo!Put \/ Demo!DKey
<1> USE DEF Demo!Obey, Demo!Wb, Demo!Fb, Demo!Nwb, Demo!Sc,
     Demo!Get, Demo!AllMap, Demo!Dqs, Demo!DqrEmpty, Demo!KeepsPtrs, Demo!KeepsData, Demo!demoVars, 
     Demo!MapTo, Demo!DqTo
<1>1. UNCHANGED <<dq, written, taken>> \/ Demo!Dqc \/ Demo!Dqw \/ Demo!Dqr
  BY DEF Demo!Ss, Demo!As, Demo!Rs, Demo!Cs, Demo!ClearMap, Demo!Put, Demo!DKey
<1>2. UNCHANGED <<strPtr, strPtrs>> \/ Demo!Ss \/ Demo!As \/ Demo!Rs \/ Demo!Cs
  BY DEF Demo!ClearMap, Demo!Put, Demo!DKey, Demo!Dqc, Demo!Dqw, Demo!Dqr
<1>3. UNCHANGED strMap \/ Demo!ClearMap \/ Demo!Put \/ Demo!DKey
  BY DEF Demo!Ss, Demo!As, Demo!Rs, Demo!Cs, Demo!Dqc, Demo!Dqw, Demo!Dqr
<1> QED BY <1>1, <1>2, <1>3

(* What is appended to the deque is written, what leaves its front is      *)
(* taken.                                                                  *)
LEMMA DequeStep == ASSUME PromptInv, DequeInv, Demo!Obey PROVE DequeInv'
<1>1. CASE UNCHANGED <<dq, written, taken>>
  BY <1>1 DEF DequeInv, Demo!DequeIsInOrder
<1>2. CASE Demo!Dqc
  <2>1. dq' = <<>> /\ written' = <<>> /\ taken' = <<>>
    BY <1>2 DEF Demo!Dqc, Demo!DqTo
  <2>2. <<>> \in Seq(AllWords) /\ <<>> \o <<>> = <<>>
    OBVIOUS
  <2> QED BY <2>1, <2>2 DEF DequeInv, Demo!DequeIsInOrder
<1>3. CASE Demo!Dqw
  <2>1. /\ dq' = Append(dq, cmd[2]) /\ written' = Append(written, cmd[2]) /\ taken' = taken
        /\ Len(cmd) >= 2 /\ cmd \in Seq(AllWords)
    BY <1>3 DEF Demo!Dqw, Demo!DqTo, Demo!Is, PromptInv
  <2>2. cmd[2] \in AllWords
    BY <2>1, ElementOfSeq
  <2>3. dq \in Seq(AllWords) /\ written = taken \o dq /\ taken \in Seq(AllWords)
    BY DEF DequeInv, Demo!DequeIsInOrder
  <2>4. taken \o Append(dq, cmd[2]) = Append(taken \o dq, cmd[2])
    <3> DEFINE w == cmd[2]
    <3>1. w \in AllWords
      BY <2>2
    <3> HIDE DEF w
    <3>2. /\ Append(dq, w) = dq \o <<w>> /\ Append(taken \o dq, w) = (taken \o dq) \o <<w>>
          /\ <<w>> \in Seq(AllWords)
      BY <2>3, <3>1, AppendIsConcat, ConcatProperties
    <3>3. taken \o Append(dq, w) = Append(taken \o dq, w)
      BY <2>3, <3>2, ConcatAssociative
    <3> QED BY <3>3 DEF w
  <2>5. dq' \in Seq(AllWords) /\ written' \in Seq(AllWords) /\ taken' \in Seq(AllWords)
    BY <2>1, <2>2, <2>3, AppendProperties DEF DequeInv
  <2> QED BY <2>1, <2>3, <2>4, <2>5 DEF DequeInv, Demo!DequeIsInOrder
<1>4. CASE Demo!Dqr
  <2>1. dq # <<>> /\ dq' = Tail(dq) /\ taken' = Append(taken, Head(dq)) /\ written' = written
    BY <1>4 DEF Demo!Dqr, Demo!DqTo
  <2>2. dq \in Seq(AllWords) /\ written = taken \o dq /\ taken \in Seq(AllWords)
    BY DEF DequeInv, Demo!DequeIsInOrder
  <2>3. /\ Head(dq) \in AllWords /\ Tail(dq) \in Seq(AllWords) /\ dq = <<Head(dq)>> \o Tail(dq)
    BY <2>1, <2>2, HeadTailProperties
  <2>4. /\ Append(taken, Head(dq)) = taken \o <<Head(dq)>> /\ <<Head(dq)>> \in Seq(AllWords)
        /\ Append(taken, Head(dq)) \in Seq(AllWords)
    BY <2>2, <2>3, AppendIsConcat, AppendProperties
  <2>5. (taken \o <<Head(dq)>>) \o Tail(dq) = taken \o (<<Head(dq)>> \o Tail(dq))
    BY <2>2, <2>3, <2>4, ConcatAssociative
  <2> QED BY <2>1, <2>2, <2>3, <2>4, <2>5 DEF DequeInv, Demo!DequeIsInOrder
<1> QED BY <1>1, <1>2, <1>3, <1>4, ObeyTouches

(* A list's elements are among its elements and any other.                 *)
LEMMA PointersAreAlive ==
  ASSUME NEW T, NEW s \in Seq(T), NEW x
  PROVE  s \in Seq({x} \cup {s[i] : i \in DOMAIN s})
<1> DEFINE R == {x} \cup {s[i] : i \in DOMAIN s}
<1>1. Len(s) \in Nat /\ DOMAIN s = 1..Len(s) /\ s = [i \in 1..Len(s) |-> s[i]]
  BY LenProperties
<1>2. \A i \in 1..Len(s) : s[i] \in R
  BY <1>1
<1> HIDE DEF R
<1>3. [i \in 1..Len(s) |-> s[i]] \in Seq(R)
  BY <1>1, <1>2
<1>4. s \in Seq(R)
  BY <1>1, <1>3
<1> QED BY <1>4 DEF R

(* The front of the list stays, whatever rs takes for the number of words  *)
(* to remove.                                                              *)
LEMMA PointersStep ==
  ASSUME PromptInv, PointersInv, session \in DemoSessions, Demo!Obey
  PROVE  /\ PointersInv'
         /\ strPtrs' # strPtrs /\ ~Demo!Is("as", 1) => Demo!IsPrefix(strPtrs', strPtrs)
         /\ Demo!Is("rs", 1) /\ strPtrs' # strPtrs /\ Demo!Count(1) \in 0..Len(strPtrs) =>
              Len(strPtrs') + Demo!Count(1) = Len(strPtrs)
<1> DEFINE S == Demo!Alive
           k == Demo!Count(1)
<1>0. strPtrs \in Seq(S) /\ Len(strPtrs) \in Nat
  BY DEF PointersInv
<1>1. CASE UNCHANGED <<strPtr, strPtrs>>
  BY <1>1, <1>0 DEF PointersInv, Demo!Alive
<1>2. CASE Demo!Ss
  <2>1. strPtrs' = strPtrs
    BY <1>2 DEF Demo!Ss
  <2>2. strPtrs' \in Seq({strPtr'} \cup {strPtrs'[i] : i \in DOMAIN strPtrs'})
    BY <2>1, <1>0, PointersAreAlive
  <2> QED BY <2>1, <2>2 DEF PointersInv, Demo!Alive
<1>3. CASE Demo!As
  <2> DEFINE new == [i \in 1..k |-> strPtr]
  <2>1. /\ Len(cmd) >= 1 /\ cmd[1] = "as" /\ strPtr' = strPtr /\ strPtrs' = strPtrs \o new
    BY <1>3 DEF Demo!As, Demo!Is
  <2>2. k \in Int
    BY <2>1 DEF PromptInv, Counts, Demo!Count
  <2>3. strPtr \in S
    BY DEF Demo!Alive
  <2>4. new \in Seq(S)
    <3>1. CASE k \in Nat
      <4> HIDE DEF k, S
      <4> QED BY <3>1, <2>3
    <3>2. CASE k \notin Nat
      <4>1. 1..k = 1..0
        <5> HIDE DEF k
        <5> QED BY <3>2, <2>2
      <4>2. new = [i \in 1..0 |-> strPtr]
        BY <4>1
      <4> HIDE DEF new, S
      <4> QED BY <4>2, <2>3
    <3> QED BY <3>1, <3>2
  <2>5. strPtrs' \in Seq(S)
    <3> HIDE DEF S, new
    <3> QED BY <2>1, <2>4, <1>0, ConcatProperties
  <2>6. strPtrs' \in Seq({strPtr'} \cup {strPtrs'[i] : i \in DOMAIN strPtrs'})
    BY <2>5, PointersAreAlive
  <2>7. PointersInv'
    BY <2>6 DEF PointersInv, Demo!Alive
  <2> QED BY <2>1, <2>7 DEF Demo!Is
<1>4. CASE Demo!Rs
  <2> DEFINE m == Demo!Removed
  <2>1. /\ Len(cmd) >= 1 /\ cmd[1] = "rs" /\ strPtr' = strPtr
        /\ strPtrs' = SubSeq(strPtrs, 1, Len(strPtrs) - m)
    BY <1>4 DEF Demo!Rs, Demo!Is, Demo!Pops
  <2>2. k \in Int
    BY <2>1 DEF PromptInv, Counts, Demo!Count
  <2>3. m \in 0..Len(strPtrs) /\ (k \in 0..Len(strPtrs) => m = k)
    <3> HIDE DEF k
    <3>1. m = IF k < 0 \/ k > Len(strPtrs) THEN Len(strPtrs) ELSE k
      BY DEF Demo!Removed, k
    <3> HIDE DEF m
    <3> QED BY <3>1, <2>2, <1>0
  <2> HIDE DEF m, S, k
  <2>4. \A i \in 1..(Len(strPtrs) - m) : strPtrs[i] \in S
    BY <1>0, <2>3, ElementOfSeq
  <2>5. /\ strPtrs' \in Seq(S) /\ Len(strPtrs') = Len(strPtrs) - m
        /\ \A i \in 1..(Len(strPtrs) - m) : strPtrs'[i] = strPtrs[i]
    BY <2>1, <2>3, <2>4, <1>0, SubSeqProperties
  <2>6. PointersInv'
    <3>1. strPtrs' \in Seq({strPtr'} \cup {strPtrs'[i] : i \in DOMAIN strPtrs'})
      BY <2>5, PointersAreAlive
    <3> QED BY <3>1 DEF PointersInv, Demo!Alive
  <2>7. Demo!IsPrefix(strPtrs', strPtrs)
    <3>1. Len(strPtrs') <= Len(strPtrs)
      BY <2>3, <2>5, <1>0
    <3>2. SubSeq(strPtrs', 1, Len(strPtrs')) = strPtrs'
      BY <2>5, SubSeqFull
    <3>3. SubSeq(strPtrs, 1, Len(strPtrs')) = strPtrs'
      BY <2>1, <2>5
    <3> QED BY <3>1, <3>2, <3>3 DEF Demo!IsPrefix
  <2>8. k \in 0..Len(strPtrs) => Len(strPtrs') + k = Len(strPtrs)
    BY <2>3, <2>5, <1>0
  <2> QED BY <2>6, <2>7, <2>8 DEF k
<1>5. CASE Demo!Cs
  <2>1. Len(cmd) >= 1 /\ cmd[1] = "cs" /\ strPtrs' = <<>>
    BY <1>5 DEF Demo!Cs, Demo!Is
  <2>2. PointersInv'
    BY <2>1 DEF PointersInv, Demo!Alive
  <2>3. Demo!IsPrefix(strPtrs', strPtrs)
    BY <2>1, <1>0 DEF Demo!IsPrefix
  <2> QED BY <2>1, <2>2, <2>3 DEF Demo!Is
<1> QED BY <1>1, <1>2, <1>3, <1>4, <1>5, ObeyTouches

(* An entry changes by a command that names its key or clears them all.    *)
LEMMA DemoMapStep ==
  ASSUME MapInv, Demo!Obey
  PROVE  /\ MapInv'
         /\ \A x \in Keys : strMap'[x] # strMap[x] =>
              \/ Demo!Is("clearmap", 1)
              \/ Demo!Is("dkey", 2) /\ cmd[2] = x /\ strMap'[x] = NoVal
              \/ Map!Is("put", 3) /\ cmd[2] = x /\ strMap'[x] = cmd[3]
<1>1. CASE UNCHANGED strMap
  BY <1>1 DEF MapInv
<1>2. CASE Demo!ClearMap
  BY <1>2 DEF MapInv, Demo!ClearMap, Demo!MapTo
<1>3. CASE Demo!Put
  BY <1>3 DEF MapInv, Demo!Put, Demo!MapTo, Demo!Is, Map!Is
<1>4. CASE Demo!DKey
  BY <1>4 DEF MapInv, Demo!DKey, Demo!MapTo
<1> QED BY <1>1, <1>2, <1>3, <1>4, ObeyTouches

LEMMA MapShellStep ==
  ASSUME MapInv, MapCommand
  PROVE  /\ MapInv'
         /\ \A x \in Keys : strMap'[x] # strMap[x] =>
              \/ Map!Is("clear", 2)
              \/ Map!Is("del", 2) /\ cmd[2] = x /\ strMap'[x] = NoVal
              \/ Map!Is("put", 3) /\ cmd[2] = x /\ strMap'[x] = cmd[3]
<1>1. CASE UNCHANGED strMap
  BY <1>1 DEF MapInv
<1>2. CASE Map!Put
  BY <1>2 DEF MapInv, Map!Put
<1>3. CASE Map!Del
  BY <1>3 DEF MapInv, Map!Del
<1>4. CASE Map!Clear
  BY <1>4 DEF MapInv, Map!Clear
<1>5. CASE Map!Get \/ Map!ListKeys \/ Map!NLookups \/ Map!Unrecognized
  BY <1>5, <1>1 DEF Map!Get, Map!ListKeys, Map!NLookups, Map!Unrecognized
<1> QED BY <1>1, <1>2, <1>3, <1>4, <1>5 DEF MapCommand

-----------------------------------------------------------------------------
(* string2vector.                                                          *)

(* Each character either continues the word, which the comparison with     *)
(* STRBUFFSIZE keeps shorter than the buffer, or ends it.                  *)
LEMMA CharactersFit ==
  Line!BufferInv /\ [Line!Next]_(Line!vars) => Line!BufferInv'
<1> SUFFICES ASSUME Line!BufferInv, [Line!Next]_(Line!vars) PROVE Line!BufferInv'
  OBVIOUS
<1>0. \A x \in Int : x - x = 0
  OBVIOUS
<1> USE ShellsAssumption DEF Line!BufferInv, Line!CommandLineAssumption
<1>1. CASE Line!Skip
  <2>1. ci' \in 0..Len(text') + 1 /\ cb' = ci' /\ text' = text
    BY <1>1 DEF Line!Skip, Line!Continues
  <2>2. QED
    BY <1>1, <2>1 DEF Line!Skip, Line!cl
<1>2. CASE Line!Push
  <2>1. ci' \in 0..Len(text') + 1 /\ cb' = ci' /\ text' = text
    BY <1>2 DEF Line!Push, Line!Continues
  <2>2. buff' \in [0..STRBUFFSIZE -> Chars \cup {NUL}]
    <3>1. buff' = [[buff EXCEPT ![Line!cl] = NUL] EXCEPT ![0] = NUL]
      BY <1>2, Zenon DEF Line!Push
    <3>2. QED
      BY <3>1
  <2>3. (Line!cl)' = 0
    <3>1. (Line!cl)' = ci' - cb'
      BY DEF Line!cl
    <3>2. ci' \in Int
      BY <2>1
    <3>3. QED
      BY <1>0, <2>1, <3>1, <3>2, Zenon
  <2>4. QED
    BY <2>1, <2>2, <2>3
<1>3. CASE Line!Copy
  <2>1. ci \in 0..Len(text) - 1 /\ Line!Char = text[ci + 1] /\ Line!Char \in Chars
    BY <1>3 DEF Line!Copy, Line!Continues, Line!Cut, Line!Ends, Line!Char
  <2>2. Line!cl \in 0..STRBUFFSIZE - 1 /\ Line!cl' = Line!cl + 1
    BY <1>3 DEF Line!Copy, Line!Continues, Line!Cut, Line!cl
  <2>3. text' = text /\ cb' = cb /\ ci' = ci + 1
    BY <1>3 DEF Line!Copy, Line!Continues
  <2>4. buff' = [buff EXCEPT ![Line!cl] = text[ci + 1]]
    BY <1>3, <2>1 DEF Line!Copy
  <2>5. ASSUME NEW k \in 0..Line!cl' - 1 PROVE buff'[k] = text'[cb' + k + 1]
    <3>1. CASE k = Line!cl
      BY <3>1, <2>2, <2>3, <2>4 DEF Line!cl
    <3>2. CASE k \in 0..Line!cl - 1
      BY <3>2, <2>2, <2>3, <2>4
    <3>3. QED
      BY <3>1, <3>2, <2>2
  <2>6. QED
    BY <2>1, <2>2, <2>3, <2>4, <2>5
<1>4. CASE UNCHANGED Line!vars
  BY <1>4 DEF Line!vars, Line!cl
<1>5. QED
  BY <1>1, <1>2, <1>3, <1>4 DEF Line!Next

-----------------------------------------------------------------------------
(* Packed bits.                                                            *)

(* An array has the words its bits need, and one if it has none.           *)
BitsOK(b) ==
  /\ b.nBits \in Nat /\ DOMAIN b = {"nBits", "bits"}
  /\ DOMAIN b.bits = 0..Bits!Div(b.nBits - 1, INT_BITS)
BitsInv == BitsOK(ba)

(* What the abstract vector sees of the array and of the last command.     *)
BitsOf(b) == [p \in 0..(b.nBits - 1) |-> Bits!getBit(b, p)]
AnswerOf(s, b) ==
  CASE s.cmd = "bas" -> <<"written", s.pos, s.bit>>
    [] s.cmd = "bag" /\ s.pos < b.nBits -> <<"read", s.pos, s.bit>>
    [] OTHER -> <<>>

LEMMA BitsAssumed ==
  /\ INT_BITS \in Nat /\ INT_BITS > 0 /\ Default \in Nat
  /\ BitSizes \subseteq Int /\ Inputs \subseteq Int /\ Values \subseteq Int
<1>1. PICK k \in 1..16 : INT_BITS = 4 * k
  BY ShellsAssumption DEF Bits!WordAssumption
<1> QED BY <1>1, ShellsAssumption DEF Bits!WordAssumption

LEMMA Division ==
  ASSUME NEW w \in Nat, w > 0, NEW p \in Nat
  PROVE  p \div w \in Nat /\ p % w \in 0..(w - 1) /\ p = w * (p \div w) + (p % w)
  OBVIOUS

LEMMA DivisionGrows ==
  ASSUME NEW w \in Nat, w > 0, NEW p \in Nat, NEW q \in Nat, p <= q
  PROVE  p \div w <= q \div w
<1> DEFINE a == p \div w
           b == q \div w
           x == p % w
           y == q % w
<1>1. a \in Nat /\ b \in Nat /\ x \in 0..(w - 1) /\ y \in 0..(w - 1) /\ p = w * a + x /\ q = w * b + y
  BY Division
<1> HIDE DEF a, b, x, y
<1>2. SUFFICES ASSUME a >= b + 1 PROVE FALSE
  BY <1>1 DEF a, b
<1>3. w * a >= w * (b + 1)
  BY <1>1, <1>2
<1>4. w * (b + 1) = w * b + w
  BY <1>1
<1> QED BY <1>1, <1>3, <1>4

(* A position that exists has a word, and shares its place with no other.  *)
LEMMA Places ==
  ASSUME BitsInv, NEW p \in 0..(ba.nBits - 1)
  PROVE  /\ p \in Nat /\ p \div INT_BITS \in DOMAIN ba.bits
         /\ \A q \in 0..(ba.nBits - 1) :
              p \div INT_BITS = q \div INT_BITS /\ p % INT_BITS = q % INT_BITS => p = q
<1> DEFINE w == INT_BITS
           last == ba.nBits - 1
<1>1. w \in Nat /\ w > 0 /\ last \in Nat /\ p \in Nat /\ p <= last
  BY BitsAssumed DEF BitsInv, BitsOK
<1>2. Bits!Div(last, w) = last \div w
  <2> HIDE DEF w, last
  <2> QED BY <1>1 DEF Bits!Div
<1>3. p \div w \in 0..(last \div w)
  <2> HIDE DEF w, last
  <2> QED BY <1>1, Division, DivisionGrows
<1>4. ASSUME NEW q \in 0..last, p \div w = q \div w, p % w = q % w
      PROVE  p = q
  <2> HIDE DEF w, last
  <2>1. q \in Nat
    BY <1>1
  <2>2. p = w * (p \div w) + (p % w) /\ q = w * (q \div w) + (q % w)
    BY <2>1, <1>1, Division
  <2> QED BY <2>2, <1>4
<1> QED BY <1>1, <1>2, <1>3, <1>4 DEF BitsInv, BitsOK

LEMMA BitOf ==
  ASSUME NEW b, NEW p, p \div INT_BITS \in DOMAIN b.bits
  PROVE  Bits!getBit(b, p) = IF p % INT_BITS \in b.bits[p \div INT_BITS] THEN 1 ELSE 0
  BY DEF Bits!getBit

(* setBit sets one bit.                                                    *)
LEMMA OneBitIsSet ==
  ASSUME BitsInv, NEW pos \in 0..(ba.nBits - 1), NEW val \in Int
  PROVE  LET b == Bits!WithBit(ba, pos, val)
         IN  /\ BitsOK(b) /\ b.nBits = ba.nBits
             /\ \A p \in 0..(ba.nBits - 1) :
                  Bits!getBit(b, p) = IF p = pos THEN val % 2 ELSE Bits!getBit(ba, p)
<1> DEFINE b == Bits!WithBit(ba, pos, val)
           i == pos \div INT_BITS
           r == pos % INT_BITS
           w == IF val % 2 = 0 THEN ba.bits[i] \ {r} ELSE ba.bits[i] \cup {r}
<1>1. i \in DOMAIN ba.bits
  BY Places
<1>2. /\ DOMAIN b = DOMAIN ba /\ b.nBits = ba.nBits /\ DOMAIN b.bits = DOMAIN ba.bits
      /\ \A k \in DOMAIN ba.bits : b.bits[k] = IF k = i THEN w ELSE ba.bits[k]
  BY <1>1 DEF Bits!WithBit, BitsInv, BitsOK
<1> HIDE DEF b, i, r, w
<1>3. BitsOK(b)
  BY <1>2 DEF BitsInv, BitsOK
<1>4. val % 2 \in {0, 1}
  OBVIOUS
<1>5. ASSUME NEW p \in 0..(ba.nBits - 1)
      PROVE  Bits!getBit(b, p) = IF p = pos THEN val % 2 ELSE Bits!getBit(ba, p)
  <2> DEFINE k == p \div INT_BITS
             q == p % INT_BITS
  <2>1. k \in DOMAIN ba.bits /\ (k = i /\ q = r => p = pos)
    BY Places DEF i, r
  <2>2. /\ Bits!getBit(b, p) = IF q \in b.bits[k] THEN 1 ELSE 0
        /\ Bits!getBit(ba, p) = IF q \in ba.bits[k] THEN 1 ELSE 0
    BY <1>2, <2>1, BitOf
  <2>3. p = pos => k = i /\ q = r
    BY DEF i, r
  <2> HIDE DEF k, q
  <2>4. b.bits[k] = IF k = i THEN w ELSE ba.bits[k]
    BY <1>2, <2>1
  <2> QED BY <2>1, <2>2, <2>3, <2>4, <1>4 DEF w
<1> QED BY <1>2, <1>3, <1>5 DEF b

(* A new array is all 0.                                                   *)
LEMMA NewBits ==
  ASSUME NEW k \in Nat
  PROVE  /\ BitsOK(Bits!Allocated(k))
         /\ BitsOf(Bits!Allocated(k)) = [p \in 0..(k - 1) |-> 0]
<1> DEFINE b == Bits!Allocated(k)
<1>1. /\ b.nBits = k /\ DOMAIN b = {"nBits", "bits"}
      /\ DOMAIN b.bits = 0..Bits!Div(k - 1, INT_BITS)
      /\ \A i \in DOMAIN b.bits : b.bits[i] = {}
  BY DEF Bits!Allocated
<1> HIDE DEF b
<1>2. ASSUME NEW p \in 0..(k - 1) PROVE Bits!getBit(b, p) = 0
  <2>1. k - 1 \in Nat /\ p \in Nat /\ p <= k - 1
    OBVIOUS
  <2>2. Bits!Div(k - 1, INT_BITS) = (k - 1) \div INT_BITS
    BY <2>1 DEF Bits!Div
  <2>3. p \div INT_BITS \in 0..((k - 1) \div INT_BITS)
    BY <2>1, BitsAssumed, Division, DivisionGrows
  <2>4. p \div INT_BITS \in DOMAIN b.bits
    BY <1>1, <2>2, <2>3
  <2> QED BY <1>1, <2>4, BitOf
<1>3. BitsOf(b) = [p \in 0..(k - 1) |-> 0]
  BY <1>1, <1>2 DEF BitsOf
<1> QED BY <1>1, <1>3 DEF BitsOK, b

LEMMA BitsInit ==
  ASSUME Bits!Init
  PROVE  BitsInv /\ Bits!Vector!Init
<1>1. ba = Bits!Allocated(Default) /\ shown = Bits!Nothing /\ Default \in Nat
  BY BitsAssumed DEF Bits!Init
<1>2. BitsInv /\ BitsOf(ba) = [p \in 0..(Default - 1) |-> 0]
  BY <1>1, NewBits DEF BitsInv
<1>3. AnswerOf(shown, ba) = <<>>
  BY <1>1 DEF AnswerOf, Bits!Nothing
<1> QED BY <1>1, <1>2, <1>3 DEF Bits!Vector!Init, Bits!Vector!Zeros, BitsOf, AnswerOf

LEMMA BitsStep ==
  ASSUME BitsInv, Bits!Next
  PROVE  /\ BitsInv'
         /\ Bits!Vector!Allocate \/ Bits!Vector!Write \/ Bits!Vector!Read \/ Bits!Vector!Refuse
<1>0. ba.nBits \in Nat
  BY DEF BitsInv, BitsOK
<1>1. CASE Bits!New
  <2>1. PICK k \in BitSizes : IF k < 0 THEN shown' = Bits!Exception /\ ba' = ba
                              ELSE ba' = Bits!Allocated(k) /\ shown' = Bits!Nothing
    BY <1>1 DEF Bits!New
  <2>2. k \in Int
    BY BitsAssumed
  <2>3. CASE k < 0
    <3>1. AnswerOf(shown', ba') = <<>> /\ ba' = ba
      BY <2>1, <2>3 DEF AnswerOf, Bits!Exception
    <3> QED BY <3>1 DEF Bits!Vector!Refuse, AnswerOf, BitsInv
  <2>4. CASE k >= 0
    <3>1. k \in Nat /\ ba' = Bits!Allocated(k) /\ shown' = Bits!Nothing
      BY <2>1, <2>2, <2>4
    <3>2. AnswerOf(shown', ba') = <<>>
      BY <3>1 DEF AnswerOf, Bits!Nothing
    <3>3. BitsOf(ba') = [p \in 0..(k - 1) |-> 0] /\ BitsInv'
      BY <3>1, NewBits DEF BitsInv
    <3>4. k \in {Default} \cup (BitSizes \cap Nat)
      BY <3>1
    <3> QED BY <3>2, <3>3, <3>4 DEF Bits!Vector!Allocate, Bits!Vector!Zeros, BitsOf, AnswerOf
  <2> QED BY <2>2, <2>3, <2>4
<1>2. CASE Bits!Set
  <2>1. PICK pos \in Inputs, val \in Values :
          IF Bits!Settable(ba, pos)
          THEN /\ ba' = Bits!WithBit(ba, pos, val)
               /\ shown' = [cmd |-> "bas", pos |-> pos, bit |-> val % 2]
          ELSE shown' = Bits!Exception /\ ba' = ba
    BY <1>2 DEF Bits!Set
  <2>2. pos \in Int /\ val \in Int
    BY BitsAssumed
  <2>3. CASE ~Bits!Settable(ba, pos)
    <3>1. AnswerOf(shown', ba') = <<>> /\ ba' = ba
      BY <2>1, <2>3 DEF AnswerOf, Bits!Exception
    <3> QED BY <3>1 DEF Bits!Vector!Refuse, AnswerOf, BitsInv
  <2>4. CASE Bits!Settable(ba, pos)
    <3> DEFINE bit == val % 2
    <3>1. pos \in 0..(ba.nBits - 1)
      BY <2>2, <2>4, <1>0 DEF Bits!Settable
    <3>2. ba' = Bits!WithBit(ba, pos, val) /\ shown' = [cmd |-> "bas", pos |-> pos, bit |-> bit]
      BY <2>1, <2>4
    <3>3. /\ BitsOK(ba') /\ ba'.nBits = ba.nBits
          /\ \A p \in 0..(ba.nBits - 1) :
               Bits!getBit(ba', p) = IF p = pos THEN bit ELSE Bits!getBit(ba, p)
      BY <2>2, <3>1, <3>2, OneBitIsSet
    <3>4. bit \in {0, 1}
      BY <2>2
    <3> HIDE DEF bit
    <3>5. AnswerOf(shown', ba') = <<"written", pos, bit>>
      BY <3>2 DEF AnswerOf
    <3>6. /\ BitsOf(ba') = [BitsOf(ba) EXCEPT ![pos] = bit]
          /\ pos \in DOMAIN BitsOf(ba)
      BY <3>1, <3>3 DEF BitsOf
    <3> QED BY <3>3, <3>4, <3>5, <3>6 DEF Bits!Vector!Write, Bits!Vector!Positions, AnswerOf,
               BitsOf, BitsInv
  <2> QED BY <2>3, <2>4
<1>3. CASE Bits!Get
  <2>1. PICK pos \in Inputs :
          /\ shown' = IF Bits!InRange(ba, pos)
                      THEN [cmd |-> "bag", pos |-> pos, bit |-> Bits!getBit(ba, pos)]
                      ELSE Bits!Exception
          /\ ba' = ba
    BY <1>3 DEF Bits!Get
  <2>2. pos \in Int
    BY BitsAssumed
  <2>3. CASE Bits!InRange(ba, pos) /\ pos < ba.nBits
    <3>1. pos \in 0..(ba.nBits - 1)
      BY <2>2, <2>3, <1>0 DEF Bits!InRange
    <3>2. AnswerOf(shown', ba') = <<"read", pos, Bits!getBit(ba, pos)>>
      BY <2>1, <2>3 DEF AnswerOf
    <3>3. pos \in DOMAIN BitsOf(ba) /\ BitsOf(ba)[pos] = Bits!getBit(ba, pos)
      BY <3>1 DEF BitsOf
    <3> QED BY <2>1, <3>2, <3>3 DEF Bits!Vector!Read, Bits!Vector!Positions, AnswerOf, BitsOf, BitsInv
  <2>4. CASE ~(Bits!InRange(ba, pos) /\ pos < ba.nBits)
    <3>1. AnswerOf(shown', ba') = <<>>
      BY <2>1, <2>4 DEF AnswerOf, Bits!Exception
    <3> QED BY <2>1, <3>1 DEF Bits!Vector!Refuse, AnswerOf, BitsInv
  <2> QED BY <2>3, <2>4
<1>4. CASE Bits!Hex \/ Bits!Bin
  <2>1. ba' = ba /\ shown'.cmd \in {"bah", "bab"}
    BY <1>4 DEF Bits!Hex, Bits!Bin
  <2>2. AnswerOf(shown', ba') = <<>>
    BY <2>1 DEF AnswerOf
  <2> QED BY <2>1, <2>2 DEF Bits!Vector!Refuse, AnswerOf, BitsInv
<1> QED BY <1>1, <1>2, <1>3, <1>4 DEF Bits!Next

LEMMA BitsImplementVector == Spec => Bits!ImplementsBitVector
<1>1. Init => BitsInv /\ Bits!Vector!Init
  BY BitsInit DEF Init
<1>2. BitsInv /\ [Next]_vars =>
        /\ BitsInv'
        /\ [Bits!Vector!Allocate \/ Bits!Vector!Write \/ Bits!Vector!Read \/ Bits!Vector!Refuse]_(<<
              [p \in 0..(ba.nBits - 1) |-> Bits!getBit(ba, p)],
              CASE shown.cmd = "bas" -> <<"written", shown.pos, shown.bit>>
                [] shown.cmd = "bag" /\ shown.pos < ba.nBits -> <<"read", shown.pos, shown.bit>>
                [] OTHER -> <<>> >>)
  <2> SUFFICES ASSUME BitsInv, [Next]_vars PROVE
        /\ BitsInv'
        /\ \/ Bits!Vector!Allocate \/ Bits!Vector!Write \/ Bits!Vector!Read \/ Bits!Vector!Refuse
           \/ ba' = ba /\ shown' = shown
    OBVIOUS
  <2>1. CASE BitsActs
    BY <2>1, BitsStep DEF BitsActs
  <2>2. ~BitsActs => ba' = ba /\ shown' = shown
    BY DEF Next, DemoActs, MapActs, RingActs, ThreadsAct, LineActs, arrayVars, OthersOfThreads, vars
  <2> QED BY <2>1, <2>2 DEF BitsInv
<1> QED BY <1>1, <1>2, PTL DEF Spec, Bits!ImplementsBitVector, Bits!Vector!Spec

(* Both notations print the same bits, because those of the last word that *)
(* do not exist are 0.                                                     *)
BitsExist(b) ==
  \A i \in DOMAIN b.bits : \A r \in b.bits[i] :
    r \in 0..(INT_BITS - 1) /\ INT_BITS * i + r < b.nBits

LEMMA PlaceIsUnique ==
  ASSUME NEW w \in Nat, w > 0, NEW i \in Nat, NEW r \in 0..(w - 1)
  PROVE  (w * i + r) \div w = i /\ (w * i + r) % w = r
<1> DEFINE p == w * i + r
           a == p \div w
           x == p % w
<1>0. w * i \in Nat
  OBVIOUS
<1>1. p \in Nat
  BY <1>0
<1>2. a \in Nat /\ x \in 0..(w - 1) /\ w * i + r = w * a + x
  BY <1>1, Division DEF p
<1> HIDE DEF a, x
<1>3. ASSUME a >= i + 1 PROVE FALSE
  <2>1. w * a >= w * (i + 1)
    BY <1>2, <1>3
  <2>2. w * (i + 1) = w * i + w
    OBVIOUS
  <2> DEFINE wa == w * a
             wi == w * i
  <2>3. wa >= wi + w /\ wa \in Int /\ wi \in Int /\ wi + r = wa + x
    BY <1>2, <2>1, <2>2
  <2> HIDE DEF wa, wi
  <2> QED BY <1>2, <2>3
<1>4. ASSUME i >= a + 1 PROVE FALSE
  <2>1. w * i >= w * (a + 1)
    BY <1>2, <1>4
  <2>2. w * (a + 1) = w * a + w
    BY <1>2
  <2> DEFINE wa == w * a
             wi == w * i
  <2>3. wi >= wa + w /\ wa \in Int /\ wi \in Int /\ wi + r = wa + x
    BY <1>2, <2>1, <2>2
  <2> HIDE DEF wa, wi
  <2> QED BY <1>2, <2>3
<1>5. a = i
  BY <1>2, <1>3, <1>4
<1>6. x = r
  BY <1>2, <1>5
<1> QED BY <1>5, <1>6 DEF a, x, p

LEMMA DigitsAreFourBits ==
  ASSUME BitsInv, BitsExist(ba)
  PROVE  Bits!HexAndBinAgree
<1> DEFINE w == INT_BITS
           n0 == ba.nBits
           hx == Bits!to_hex(ba)
           bn == Bits!to_bin(ba)
           hex == Bits!Reverse(hx)
           bin == Bits!Reverse(bn)
           Bit(p) == IF p <= Len(bin) THEN bin[p] ELSE 0
<1>1. n0 \in Nat /\ DOMAIN ba.bits = 0..Bits!Div(n0 - 1, w)
  BY DEF BitsInv, BitsOK
<1>2. PICK q \in Nat : q > 0 /\ w = 4 * q /\ w \div 4 = q
  <2>1. PICK q \in 1..16 : w = 4 * q
    BY ShellsAssumption DEF Bits!WordAssumption
  <2> QED BY <2>1
<1>3. /\ Len(bin) = n0
      /\ \A p \in 1..n0 : bin[p] = Bits!getBit(ba, p - 1)
  <2>1. Len(bn) = n0 /\ \A p \in 1..n0 : bn[p] = Bits!getBit(ba, n0 - p + 1 - 1)
    BY <1>1 DEF Bits!to_bin, Bits!Reverse
  <2> HIDE DEF bn, n0
  <2>2. Len(bin) = n0 /\ \A p \in 1..n0 : bin[p] = bn[(n0 - p) + 1]
    BY <1>1, <2>1 DEF Bits!Reverse
  <2>3. \A p \in 1..n0 : (n0 - p) + 1 \in 1..n0 /\ n0 - ((n0 - p) + 1) + 1 - 1 = p - 1
    BY <1>1
  <2> QED BY <2>1, <2>2, <2>3
<1>4. CASE n0 = 0
  <2>1. hx = <<>>
    BY <1>4 DEF Bits!to_hex
  <2>2. Len(hex) = 0 /\ DOMAIN hex = {}
    BY <2>1 DEF Bits!Reverse
  <2> QED BY <1>3, <1>4, <2>2 DEF Bits!HexAndBinAgree
<1>5. CASE n0 > 0
  <2> DEFINE a == (n0 - 1) \div w
             m == q * (a + 1)
             Nib(d) == Bits!Nibble(ba.bits[(d - 1) \div q], (d - 1) % q)
  <2>1. a \in Nat /\ n0 - 1 \in Nat /\ Bits!Div(n0 - 1, w) = a /\ DOMAIN ba.bits = 0..a
    <3> DEFINE last == n0 - 1
    <3>1. last \in Nat /\ w \in Nat /\ w > 0
      BY <1>1, <1>2, <1>5
    <3> HIDE DEF last, w
    <3>2. last \div w \in Nat /\ Bits!Div(last, w) = last \div w
      BY <3>1, Division DEF Bits!Div
    <3> QED BY <1>1, <3>1, <3>2 DEF last, w
  <2>2. m \in Nat /\ n0 <= 4 * m
    <3>1. (n0 - 1) % w \in 0..(w - 1) /\ n0 - 1 = w * a + ((n0 - 1) % w)
      <4> DEFINE last == n0 - 1
      <4>1. last \in Nat /\ w \in Nat /\ w > 0
        BY <1>2, <2>1
      <4> HIDE DEF last, w
      <4>2. last % w \in 0..(w - 1) /\ last = w * (last \div w) + (last % w)
        BY <4>1, Division
      <4> QED BY <4>2 DEF last
    <3>2. m \in Nat /\ 4 * m = w * a + w
      <4>1. m = q * a + q /\ q * a \in Nat /\ w * a = 4 * (q * a)
        BY <1>2, <2>1
      <4> QED BY <1>2, <4>1
    <3> DEFINE wa == w * a
               x == (n0 - 1) % w
    <3>3. w * a \in Int
      <4>1. w \in Int /\ a \in Int
        BY <1>2, <2>1
      <4> HIDE DEF w, a
      <4> QED BY <4>1
    <3>4. wa \in Int /\ x \in 0..(w - 1) /\ n0 - 1 = wa + x /\ 4 * m = wa + w
      BY <3>1, <3>2, <3>3
    <3>5. n0 \in Nat /\ w \in Nat
      BY <1>1, BitsAssumed
    <3> HIDE DEF wa, x, m, a, n0, w
    <3>6. n0 <= 4 * m
      BY ONLY <3>4, <3>5
    <3> QED BY <3>2, <3>6
  <2>3. hx = Bits!Reverse([d \in 1..m |-> Nib(d)])
    <3>1. ~(n0 <= 0) /\ INT_BITS \div 4 = q /\ Bits!Div(ba.nBits - 1, INT_BITS) = a
      BY <1>1, <1>2, <1>5, <2>1
    <3>2. hx = Bits!Reverse([d \in 1..((INT_BITS \div 4) * (Bits!Div(ba.nBits - 1, INT_BITS) + 1)) |->
                 Bits!Nibble(ba.bits[(d - 1) \div (INT_BITS \div 4)], (d - 1) % (INT_BITS \div 4))])
      BY <3>1 DEF Bits!to_hex
    <3> HIDE DEF hx, a
    <3> QED BY <3>1, <3>2
  <2> DEFINE f == [d \in 1..m |-> Nib(d)]
  <2>4. Len(hex) = m /\ DOMAIN hex = 1..m /\ \A d \in 1..m : hex[d] = Nib(d)
    <3>1. Len(f) = m /\ \A d \in 1..m : f[d] = Nib(d)
      BY <2>2
    <3> HIDE DEF f, Nib, m
    <3>2. Len(hx) = m /\ \A d \in 1..m : hx[d] = f[(m - d) + 1]
      BY <2>2, <2>3, <3>1 DEF Bits!Reverse, f
    <3> HIDE DEF hx
    <3>3. Len(hex) = m /\ DOMAIN hex = 1..m /\ \A d \in 1..m : hex[d] = hx[(m - d) + 1]
      BY <2>2, <3>2 DEF Bits!Reverse
    <3>4. \A d \in 1..m : (m - d) + 1 \in 1..m /\ (m - ((m - d) + 1)) + 1 = d
      BY <2>2
    <3> QED BY <3>1, <3>2, <3>3, <3>4
  <2>5. ASSUME NEW d \in 1..m
        PROVE  Nib(d) = Bit(4 * d - 3) + 2 * Bit(4 * d - 2) + 4 * Bit(4 * d - 1) + 8 * Bit(4 * d)
    <3> DEFINE i == (d - 1) \div q
               k == (d - 1) % q
               wd == ba.bits[i]
               At(b) == IF 4 * k + b \in wd THEN 1 ELSE 0
    <3>1. d \in Nat /\ d - 1 \in Nat /\ i \in Nat /\ k \in 0..(q - 1) /\ d - 1 = q * i + k
      BY <1>2, <2>2, Division
    <3>2. i \in 0..a
      <4>1. q * a + q = m /\ q * a \in Nat /\ q * i \in Nat
        BY <1>2, <2>1, <3>1
      <4>2. ASSUME i >= a + 1 PROVE FALSE
        <5>1. q * i >= q * (a + 1)
          <6>1. q \in Nat /\ a \in Nat /\ i \in Nat
            BY <1>2, <2>1, <3>1
          <6> HIDE DEF i, a
          <6> QED BY <4>2, <6>1
        <5> DEFINE qi == q * i
        <5>2. qi >= m /\ qi \in Nat /\ d - 1 = qi + k
          BY <5>1, <4>1, <3>1
        <5> HIDE DEF qi, i, k, m
        <5> QED BY <5>2, <3>1, <2>2
      <4> HIDE DEF i, a
      <4> QED BY <3>1, <4>2, <2>1
    <3>3. ASSUME NEW b \in 0..3 PROVE Bit(4 * d - 3 + b) = At(b)
      <4> DEFINE p == 4 * d - 3 + b
                 r == 4 * k + b
      <4>1. r \in 0..(w - 1)
        <5> HIDE DEF k, w
        <5> QED BY <1>2, <3>1
      <4>2. p - 1 = w * i + r /\ p \in Nat /\ p >= 1
        <5> DEFINE qi == q * i
        <5>1. qi \in Nat /\ d - 1 = qi + k /\ w * i = 4 * qi
          BY <1>2, <3>1
        <5> HIDE DEF qi, k, i, w
        <5> QED BY <3>1, <5>1
      <4>3. w \in Nat /\ w > 0
        BY <1>2
      <4>4. (p - 1) \div w = i /\ (p - 1) % w = r
        <5>1. (w * i + r) \div w = i /\ (w * i + r) % w = r
          <6> HIDE DEF i, r, w
          <6> QED BY <3>1, <4>1, <4>3, PlaceIsUnique
        <5> QED BY <4>2, <5>1
      <4>5. i \in DOMAIN ba.bits
        BY <2>1, <3>2
      <4>6. CASE p <= n0
        <5>1. Bit(p) = Bits!getBit(ba, p - 1)
          <6>1. p \in 1..n0
            BY <1>1, <4>2, <4>6
          <6> HIDE DEF p, bin
          <6> QED BY <1>3, <4>6, <6>1
        <5>2. Bits!getBit(ba, p - 1) = IF r \in ba.bits[i] THEN 1 ELSE 0
          <6> HIDE DEF p, i, r
          <6> QED BY <4>4, <4>5, BitOf
        <5> QED BY <5>1, <5>2
      <4>7. CASE ~(p <= n0)
        <5>1. Bit(p) = 0
          <6> HIDE DEF p, bin
          <6> QED BY <1>3, <4>7
        <5>2. r \notin ba.bits[i]
          <6>1. SUFFICES ASSUME r \in ba.bits[i] PROVE FALSE
            OBVIOUS
          <6>2. w * i + r < n0
            BY <4>5, <6>1 DEF BitsExist
          <6> HIDE DEF p, r, i
          <6>3. p - 1 < n0
            BY <6>2, <4>2
          <6> QED BY <6>3, <4>2, <4>7, <1>1
        <5> QED BY <5>1, <5>2
      <4> QED BY <4>6, <4>7
    <3>4. /\ Bit(4 * d - 3) = At(0) /\ Bit(4 * d - 2) = At(1)
          /\ Bit(4 * d - 1) = At(2) /\ Bit(4 * d) = At(3)
      <4>1. 4 * d - 3 + 0 = 4 * d - 3 /\ 4 * d - 3 + 1 = 4 * d - 2
            /\ 4 * d - 3 + 2 = 4 * d - 1 /\ 4 * d - 3 + 3 = 4 * d
        BY <3>1
      <4>2. Bit(4 * d - 3 + 0) = At(0) /\ Bit(4 * d - 3 + 1) = At(1)
            /\ Bit(4 * d - 3 + 2) = At(2) /\ Bit(4 * d - 3 + 3) = At(3)
        <5> HIDE DEF Bit, At
        <5> QED BY <3>3
      <4> HIDE DEF Bit, At
      <4> QED BY <4>1, <4>2
    <3>5. Nib(d) = At(0) + 2 * At(1) + 4 * At(2) + 8 * At(3)
      BY DEF Bits!Nibble
    <3> HIDE DEF Nib, At, Bit
    <3> QED BY <3>4, <3>5
  <2>6. Len(bin) <= 4 * Len(hex)
    <3> HIDE DEF bin, hex, m
    <3> QED BY <1>3, <2>2, <2>4
  <2>7. \A d \in DOMAIN hex :
          hex[d] = Bit(4 * d - 3) + 2 * Bit(4 * d - 2) + 4 * Bit(4 * d - 1) + 8 * Bit(4 * d)
    <3> HIDE DEF bin, hex, m, Nib
    <3> QED BY <2>4, <2>5
  <2> QED BY <2>6, <2>7 DEF Bits!HexAndBinAgree
<1> QED BY <1>1, <1>4, <1>5

LEMMA NewBitsExist ==
  ASSUME NEW k
  PROVE  BitsExist(Bits!Allocated(k))
  BY DEF BitsExist, Bits!Allocated

LEMMA SetBitsExist ==
  ASSUME BitsInv, BitsExist(ba), NEW pos \in 0..(ba.nBits - 1), NEW val
  PROVE  BitsExist(Bits!WithBit(ba, pos, val))
<1> DEFINE b == Bits!WithBit(ba, pos, val)
           i == pos \div INT_BITS
           r == pos % INT_BITS
           w == IF val % 2 = 0 THEN ba.bits[i] \ {r} ELSE ba.bits[i] \cup {r}
<1>1. i \in DOMAIN ba.bits
  BY Places
<1>2. /\ b.nBits = ba.nBits /\ DOMAIN b.bits = DOMAIN ba.bits
      /\ \A k \in DOMAIN ba.bits : b.bits[k] = IF k = i THEN w ELSE ba.bits[k]
  BY <1>1 DEF Bits!WithBit, BitsInv, BitsOK
<1>3. r \in 0..(INT_BITS - 1) /\ INT_BITS * i + r < ba.nBits
  <2>1. pos \in Nat /\ pos < ba.nBits
    BY DEF BitsInv, BitsOK
  <2>2. r \in 0..(INT_BITS - 1) /\ pos = INT_BITS * i + r
    BY <2>1, BitsAssumed, Division
  <2> HIDE DEF i, r
  <2> QED BY <2>1, <2>2
<1>4. w \subseteq ba.bits[i] \cup {r}
  OBVIOUS
<1> HIDE DEF b, i, r, w
<1>5. ASSUME NEW k \in DOMAIN b.bits, NEW x \in b.bits[k]
      PROVE  x \in 0..(INT_BITS - 1) /\ INT_BITS * k + x < b.nBits
  <2>1. x \in ba.bits[k] \/ (k = i /\ x = r)
    BY <1>2, <1>4, <1>5
  <2> QED BY <1>2, <1>3, <2>1 DEF BitsExist
<1> QED BY <1>5 DEF BitsExist, b

LEMMA BitsExistStep ==
  ASSUME BitsInv, BitsExist(ba), Bits!Next
  PROVE  BitsExist(ba')
<1>1. CASE Bits!New
  BY <1>1, NewBitsExist DEF Bits!New
<1>2. CASE Bits!Set
  <2>1. PICK pos \in Inputs, val \in Values :
          IF Bits!Settable(ba, pos) THEN ba' = Bits!WithBit(ba, pos, val) ELSE ba' = ba
    BY <1>2 DEF Bits!Set
  <2>2. Bits!Settable(ba, pos) => pos \in 0..(ba.nBits - 1)
    BY BitsAssumed DEF Bits!Settable, BitsInv, BitsOK
  <2> QED BY <2>1, <2>2, SetBitsExist
<1>3. CASE Bits!Get \/ Bits!Hex \/ Bits!Bin
  BY <1>3 DEF Bits!Get, Bits!Hex, Bits!Bin
<1> QED BY <1>1, <1>2, <1>3 DEF Bits!Next

-----------------------------------------------------------------------------
(* The ring buffer.                                                        *)

(* The bytes there can be.                                                 *)
RingBytes == Ring!Leftovers \cup UNION {Ring!ToSet(w) : w \in Texts}

(* Wherever a negative number has taken the head.                          *)
RingType(b) ==
  /\ DOMAIN b = {"data_size", "h_idx", "used", "data"}
  /\ b.data_size \in Nat /\ b.h_idx \in Int /\ b.used \in Nat
  /\ b.data_size > 0 => b.h_idx < b.data_size
  /\ b.data \in [0..(b.data_size - 1) -> RingBytes]

(* A ring that is a queue.                                                 *)
RingOK(b) ==
  /\ DOMAIN b = {"data_size", "h_idx", "used", "data"}
  /\ b.data_size \in Nat /\ b.h_idx \in Nat /\ b.used \in 0..b.data_size
  /\ b.data_size > 0 => b.h_idx < b.data_size
  /\ b.data \in [0..(b.data_size - 1) -> RingBytes]
RingInv == RingType(rb)

LEMMA SoundRings ==
  ASSUME NEW b
  PROVE  /\ RingOK(b) => RingType(b) /\ Ring!Sound(b)
         /\ RingType(b) /\ Ring!Sound(b) => RingOK(b)
  BY DEF RingOK, RingType, Ring!Sound

LEMMA RingAssumed ==
  /\ RingSizes \subseteq Int /\ Amounts \subseteq Int
  /\ \A w \in Texts : w \in Seq(RingBytes)
<1>1. RingSizes \subseteq Int /\ Amounts \subseteq Int /\ \A w \in Texts : w \in Seq(Ring!ToSet(w))
  BY ShellsAssumption DEF Ring!NumbersAssumption
<1>2. ASSUME NEW w \in Texts PROVE w \in Seq(RingBytes)
  <2>1. w \in Seq(Ring!ToSet(w)) /\ \A x \in Ring!ToSet(w) : x \in RingBytes
    BY <1>1 DEF RingBytes
  <2>2. /\ Len(w) \in Nat /\ w = [i \in 1..Len(w) |-> w[i]]
        /\ \A i \in 1..Len(w) : w[i] \in Ring!ToSet(w)
    BY <2>1, LenProperties, ElementOfSeq
  <2>3. \A i \in 1..Len(w) : w[i] \in RingBytes
    BY <2>1, <2>2
  <2> HIDE DEF RingBytes
  <2> QED BY <2>2, <2>3
<1> QED BY <1>1, <1>2

LEMMA Wraps ==
  ASSUME NEW s \in Nat, NEW k \in 0..(2 * s - 1), s > 0
  PROVE  k % s = IF k < s THEN k ELSE k - s
<1>1. k % s \in 0..(s - 1) /\ k = s * (k \div s) + (k % s) /\ k \div s \in Int
  OBVIOUS
<1> DEFINE q == k \div s
<1>2. q \in Int /\ s * q > -s /\ s * q < 2 * s
  BY <1>1
<1> HIDE DEF q
<1>3. q \in {0, 1}
  BY <1>2
<1> QED BY <1>1, <1>3 DEF q

(* Positions wrap at the end of the array.                                 *)
LEMMA AtWraps ==
  ASSUME NEW b, RingOK(b), b.data_size > 0, NEW k \in 0..b.data_size
  PROVE  /\ Ring!At(b, k) = IF b.h_idx + k < b.data_size THEN b.h_idx + k
                            ELSE b.h_idx + k - b.data_size
         /\ Ring!At(b, k) \in 0..(b.data_size - 1)
<1> DEFINE s == b.data_size
           h == b.h_idx
           a == Ring!At(b, k)
<1>1. s \in Nat /\ s > 0 /\ h \in 0..(s - 1) /\ k \in 0..s /\ a = (h + k) % s
  <2>1. s \in Nat /\ s > 0 /\ h \in 0..(s - 1) /\ k \in 0..s /\ a = Ring!Rem(h + k, s)
    BY DEF RingOK, Ring!At
  <2> HIDE DEF s, h, a
  <2> QED BY <2>1 DEF Ring!Rem
<1> HIDE DEF s, h, a
<1>2. h + k \in 0..(2 * s - 1)
  BY <1>1
<1>3. (h + k) % s = IF h + k < s THEN h + k ELSE h + k - s
  BY <1>1, <1>2, Wraps
<1>4. a \in 0..(s - 1) /\ a = IF h + k < s THEN h + k ELSE h + k - s
  BY <1>1, <1>3
<1> QED BY <1>4, Zenon DEF s, h, a

(* Two bytes never lie in one place.                                       *)
LEMMA AtInjective ==
  ASSUME NEW b, RingOK(b), NEW k \in 0..(b.data_size - 1), NEW m \in 0..(b.data_size - 1),
         Ring!At(b, k) = Ring!At(b, m)
  PROVE  k = m
<1> DEFINE s == b.data_size
           h == b.h_idx
           a == Ring!At(b, k)
<1>1. s \in Nat /\ h \in Nat /\ k \in 0..(s - 1) /\ m \in 0..(s - 1)
  BY DEF RingOK
<1>2. k \in 0..b.data_size /\ m \in 0..b.data_size /\ b.data_size > 0
  BY DEF RingOK
<1>3. /\ a = IF h + k < s THEN h + k ELSE h + k - s
      /\ a = IF h + m < s THEN h + m ELSE h + m - s
  BY <1>2, AtWraps, Zenon
<1> HIDE DEF s, h, a
<1> QED BY <1>1, <1>3

(* Positions count on from the head as it moves.                           *)
LEMMA AtMoves ==
  ASSUME NEW b, RingOK(b), NEW d, RingOK(d), NEW k \in Nat, NEW m \in Nat,
         k + m < b.data_size, d.h_idx = Ring!At(b, k), d.data_size = b.data_size
  PROVE  Ring!At(d, m) = Ring!At(b, k + m)
<1> DEFINE s == b.data_size
           h == b.h_idx
           g == Ring!At(b, k)
           x == Ring!At(b, k + m)
           y == Ring!At(d, m)
<1>1. s \in Nat /\ s > 0 /\ h \in 0..(s - 1) /\ k + m < s /\ k \in 0..s /\ m \in 0..s /\ k + m \in 0..s
  <2>1. s \in Nat /\ h \in Nat /\ (s > 0 => h < s) /\ k + m < s
    BY DEF RingOK
  <2> HIDE DEF s, h
  <2> QED BY <2>1
<1>2. k \in 0..b.data_size /\ m \in 0..d.data_size /\ k + m \in 0..b.data_size
      /\ b.data_size > 0 /\ d.data_size > 0
  BY <1>1
<1>3. /\ g = IF h + k < s THEN h + k ELSE h + k - s
      /\ x = IF h + (k + m) < s THEN h + (k + m) ELSE h + (k + m) - s
      /\ y = IF g + m < s THEN g + m ELSE g + m - s
  BY <1>2, AtWraps, Zenon
<1> HIDE DEF s, h, g, x, y
<1>4. y = x
  BY <1>1, <1>3
<1> QED BY <1>4 DEF x, y

(* The used bytes.                                                         *)
LEMMA UsedBytes ==
  ASSUME NEW b, RingOK(b)
  PROVE  /\ Ring!Used(b) \in Seq(RingBytes) /\ Len(Ring!Used(b)) = b.used /\ b.used \in Nat
         /\ DOMAIN Ring!Used(b) = 1..b.used
         /\ \A k \in 1..b.used : /\ Ring!At(b, k - 1) \in 0..(b.data_size - 1)
                                 /\ Ring!Byte(b, k - 1) = b.data[Ring!At(b, k - 1)]
                                 /\ Ring!Used(b)[k] = b.data[Ring!At(b, k - 1)]
                                 /\ Ring!Used(b)[k] \in RingBytes
<1> DEFINE u == [k \in 1..b.used |-> Ring!Byte(b, k - 1)]
<1>1. Ring!Used(b) = u /\ b.used \in Nat
  BY DEF Ring!Used, RingOK
<1>2. ASSUME NEW k \in 1..b.used
      PROVE  /\ Ring!At(b, k - 1) \in 0..(b.data_size - 1)
             /\ Ring!Byte(b, k - 1) = b.data[Ring!At(b, k - 1)]
             /\ b.data[Ring!At(b, k - 1)] \in RingBytes
  <2>1. k - 1 \in 0..b.data_size /\ b.data_size > 0
    BY DEF RingOK
  <2>2. Ring!At(b, k - 1) \in 0..(b.data_size - 1)
    BY <2>1, AtWraps
  <2>3. b.data \in [0..(b.data_size - 1) -> RingBytes]
    BY DEF RingOK
  <2>4. Ring!Byte(b, k - 1) = b.data[Ring!At(b, k - 1)]
    BY <2>2, <2>3 DEF Ring!Byte
  <2> QED BY <2>2, <2>3, <2>4
<1> HIDE DEF RingBytes
<1> QED BY <1>1, <1>2

(* What lies outside of the array is some byte, too.                       *)
LEMMA BytesAnywhere ==
  ASSUME NEW b, RingType(b)
  PROVE  /\ \A k : Ring!Byte(b, k) \in RingBytes
         /\ b.used \in Nat /\ DOMAIN Ring!Used(b) = 1..b.used
         /\ \A k \in 1..b.used : Ring!Used(b)[k] \in RingBytes
<1>1. ASSUME NEW k PROVE Ring!Byte(b, k) \in RingBytes
  <2>1. Ring!Unset \in RingBytes
    BY DEF RingBytes, Ring!Leftovers
  <2>2. b.data \in [0..(b.data_size - 1) -> RingBytes]
    BY DEF RingType
  <2> HIDE DEF RingBytes
  <2> QED BY <2>1, <2>2 DEF Ring!Byte
<1>2. b.used \in Nat
  BY DEF RingType
<1> HIDE DEF RingBytes
<1> QED BY <1>1, <1>2 DEF Ring!Used

(* What is removed leaves from the front.                                  *)
LEMMA WithoutLeavesRest ==
  ASSUME NEW b, RingOK(b), NEW k \in 0..b.used
  PROVE  /\ RingOK(Ring!Without(b, k)) /\ Ring!Without(b, k).data_size = b.data_size
         /\ Ring!Used(Ring!Without(b, k)) = SubSeq(Ring!Used(b), k + 1, b.used)
<1> DEFINE d == Ring!Without(b, k)
           u == Ring!Used(b)
           n0 == b.used
<1>1. /\ u \in Seq(RingBytes) /\ Len(u) = n0 /\ n0 \in Nat /\ DOMAIN u = 1..n0
      /\ k \in 0..n0
      /\ \A i \in 1..n0 : u[i] = b.data[Ring!At(b, i - 1)] /\ u[i] \in RingBytes
  BY UsedBytes
<1>2. CASE b.data_size = 0
  <2>1. d = b /\ n0 = 0 /\ k = 0
    BY <1>2 DEF Ring!Without, RingOK
  <2>2. u = <<>>
    BY <1>1, <2>1
  <2>3. SubSeq(u, k + 1, n0) = <<>>
    BY <2>1, <2>2
  <2> QED BY <2>1, <2>2, <2>3
<1>3. CASE b.data_size # 0
  <2>1. /\ DOMAIN d = DOMAIN b /\ d.h_idx = Ring!At(b, k) /\ d.used = n0 - k
        /\ d.data_size = b.data_size /\ d.data = b.data
    BY <1>3 DEF Ring!Without, RingOK
  <2> HIDE DEF d
  <2>2. b.data_size \in Nat /\ b.data_size > 0 /\ n0 \in 0..b.data_size
    BY <1>3 DEF RingOK
  <2>3. k \in 0..b.data_size /\ n0 - k \in 0..b.data_size
    BY <2>2, <1>1
  <2>4. Ring!At(b, k) \in 0..(b.data_size - 1)
    BY <2>2, <2>3, AtWraps
  <2>5. RingOK(d)
    BY <2>1, <2>2, <2>3, <2>4 DEF RingOK
  <2>6. /\ Ring!Used(d) \in Seq(RingBytes) /\ Len(Ring!Used(d)) = n0 - k
        /\ \A i \in 1..(n0 - k) : Ring!Used(d)[i] = b.data[Ring!At(d, i - 1)]
    BY <2>1, <2>5, UsedBytes
  <2> HIDE DEF n0, u
  <2>7. ASSUME NEW i \in 1..(n0 - k) PROVE Ring!Used(d)[i] = u[k + i]
    <3>1. i - 1 \in Nat /\ k \in Nat /\ k + (i - 1) < b.data_size /\ k + i \in 1..n0
          /\ k + (i - 1) = (k + i) - 1
      BY <1>1, <2>2
    <3>2. Ring!At(d, i - 1) = Ring!At(b, k + (i - 1))
      BY <2>1, <2>5, <3>1, AtMoves
    <3> QED BY <2>6, <3>1, <3>2, <1>1
  <2>8. /\ SubSeq(u, k + 1, n0) \in Seq(RingBytes) /\ Len(SubSeq(u, k + 1, n0)) = n0 - k
        /\ \A i \in 1..(n0 - k) : SubSeq(u, k + 1, n0)[i] = u[k + i]
    <3>1. \A i \in (k + 1)..n0 : u[i] \in RingBytes
      BY <1>1
    <3>2. k + 1 \in Nat /\ n0 - (k + 1) + 1 = n0 - k
      BY <1>1
    <3> DEFINE v == SubSeq(u, k + 1, n0)
    <3>3. v = [i \in 1..(n0 - (k + 1) + 1) |-> u[k + 1 + i - 1]]
      BY <1>1, <3>2
    <3>4. \A i \in 1..(n0 - k) : k + 1 + i - 1 = k + i /\ k + i \in (k + 1)..n0
      BY <1>1
    <3>5. v = [i \in 1..(n0 - k) |-> u[k + i]]
      BY <3>2, <3>3, <3>4
    <3> HIDE DEF v, RingBytes
    <3>6. n0 - k \in Nat /\ \A i \in 1..(n0 - k) : u[k + i] \in RingBytes
      BY <3>1, <3>4, <1>1
    <3>7. v \in Seq(RingBytes) /\ Len(v) = n0 - k /\ \A i \in 1..(n0 - k) : v[i] = u[k + i]
      BY ONLY <3>5, <3>6
    <3> QED BY <3>7 DEF v
  <2>9. Ring!Used(d) = SubSeq(u, k + 1, n0)
    BY <2>6, <2>7, <2>8, SeqEqual
  <2> QED BY <2>1, <2>5, <2>9 DEF d, u, n0
<1> QED BY <1>2, <1>3

(* A write appends what there is room for.                                 *)
LEMMA WithAppends ==
  ASSUME NEW b, RingOK(b), NEW t \in Seq(RingBytes)
  PROVE  /\ Ring!Written(b, t) = Ring!Queue!Least(Len(t), b.data_size - b.used)
         /\ RingOK(Ring!With(b, t)) /\ Ring!With(b, t).data_size = b.data_size
         /\ Ring!Used(Ring!With(b, t)) = Ring!Used(b) \o SubSeq(t, 1, Ring!Written(b, t))
<1> DEFINE m == Ring!Written(b, t)
           u == b.used
           s == b.data_size
           c == Ring!Used(b)
           d == Ring!With(b, t)
           Byte(i) == {k \in 1..m : Ring!At(b, u + k - 1) = i}
           new == [i \in DOMAIN b.data |-> IF Byte(i) = {} THEN b.data[i]
                                           ELSE t[CHOOSE k \in Byte(i) : TRUE]]
           first == SubSeq(t, 1, m)
<1>1. /\ Len(t) \in Nat /\ u \in Nat /\ s \in Nat /\ u <= s
      /\ m = IF Len(t) < s - u THEN Len(t) ELSE s - u
  <2>1. Len(t) \in Nat /\ u \in Nat /\ s \in Nat /\ u <= s
    BY DEF RingOK
  <2>2. m = CASE Len(t) < s - u -> Len(t)
              [] 0 <= s - u /\ s - u <= Len(t) -> s - u
              [] s - u < 0 -> 0
    BY DEF Ring!Written, Ring!free_size
  <2> HIDE DEF m, u, s
  <2> QED BY <2>1, <2>2
<1>2. /\ d.h_idx = b.h_idx /\ d.data_size = s /\ d.used = u + m /\ d.data = new
      /\ DOMAIN d = {"data_size", "h_idx", "used", "data"}
  BY DEF Ring!With, RingOK
<1> HIDE DEF d, m
<1>3. m = Ring!Queue!Least(Len(t), s - u) /\ m \in 0..Len(t) /\ u + m \in 0..s /\ m \in Nat
  <2> HIDE DEF u, s
  <2> QED BY <1>1 DEF Ring!Queue!Least
<1>4. first \in Seq(RingBytes) /\ Len(first) = m /\ \A k \in 1..m : first[k] = t[k] /\ t[k] \in RingBytes
  <2>1. \A k \in 1..m : t[k] \in RingBytes
    BY <1>1, <1>3, ElementOfSeq
  <2> QED BY <1>3, <2>1, SubSeqProperties
<1>5. new \in [0..(s - 1) -> RingBytes]
  <2>1. ASSUME NEW i \in DOMAIN b.data, Byte(i) # {}
        PROVE  t[CHOOSE k \in Byte(i) : TRUE] \in RingBytes
    <3>1. (CHOOSE k \in Byte(i) : TRUE) \in Byte(i)
      BY <2>1, Zenon
    <3> QED BY <3>1, <1>4
  <2>2. DOMAIN b.data = 0..(s - 1) /\ \A i \in DOMAIN b.data : b.data[i] \in RingBytes
    BY DEF RingOK
  <2> HIDE DEF Byte, s, RingBytes
  <2> QED BY <2>1, <2>2
<1>6. RingOK(d)
  <2>1. b.h_idx \in Nat /\ (s > 0 => b.h_idx < s)
    BY DEF RingOK
  <2> HIDE DEF new, u
  <2> QED BY <1>1, <1>2, <1>3, <1>5, <2>1 DEF RingOK
<1>7. /\ c \in Seq(RingBytes) /\ Len(c) = u
      /\ \A k \in 1..u : Ring!At(b, k - 1) \in DOMAIN b.data /\ c[k] = b.data[Ring!At(b, k - 1)]
  BY UsedBytes DEF RingOK
<1>8. /\ Ring!Used(d) \in Seq(RingBytes) /\ Len(Ring!Used(d)) = u + m
      /\ \A k \in 1..(u + m) : Ring!Used(d)[k] = new[Ring!At(b, k - 1)]
  <2>1. \A k \in 1..(u + m) : Ring!At(d, k - 1) = Ring!At(b, k - 1)
    BY <1>2 DEF Ring!At
  <2> HIDE DEF new, u
  <2> QED BY <2>1, <1>2, <1>6, UsedBytes
<1> HIDE DEF u, c
<1>9. ASSUME NEW k \in 1..u PROVE new[Ring!At(b, k - 1)] = c[k]
  <2>1. ASSUME NEW i \in 1..m PROVE Ring!At(b, u + i - 1) # Ring!At(b, k - 1)
    <3>1. k - 1 \in 0..(s - 1) /\ u + i - 1 \in 0..(s - 1) /\ k - 1 # u + i - 1
      BY <1>1, <1>3
    <3> QED BY <3>1, AtInjective
  <2>2. Byte(Ring!At(b, k - 1)) = {}
    BY <2>1
  <2> QED BY <1>7, <2>2
<1>10. ASSUME NEW k \in 1..m PROVE new[Ring!At(b, u + k - 1)] = first[k]
  <2>1. u + k - 1 \in 0..(s - 1) /\ u + k - 1 \in 0..s /\ s > 0
    BY <1>1, <1>3
  <2>2. Ring!At(b, u + k - 1) \in DOMAIN b.data
    BY <2>1, AtWraps DEF RingOK
  <2>3. ASSUME NEW i \in 1..m, Ring!At(b, u + i - 1) = Ring!At(b, u + k - 1) PROVE i = k
    <3>1. u + i - 1 \in 0..(s - 1)
      BY <1>1, <1>3
    <3>2. u + i - 1 = u + k - 1
      BY <2>1, <3>1, <2>3, AtInjective
    <3> QED BY <1>1, <1>3, <3>2
  <2>4. Byte(Ring!At(b, u + k - 1)) = {k}
    BY <2>3
  <2> QED BY <2>2, <2>4, <1>4
<1> HIDE DEF new, first
<1>11. c \o first \in Seq(RingBytes) /\ Len(c \o first) = u + m
       /\ \A k \in 1..(u + m) : (c \o first)[k] = IF k <= u THEN c[k] ELSE first[k - u]
  BY <1>4, <1>7, ConcatProperties
<1>12. ASSUME NEW k \in 1..(u + m) PROVE Ring!Used(d)[k] = (c \o first)[k]
  <2>0. Ring!Used(d)[k] = new[Ring!At(b, k - 1)]
    BY <1>8
  <2>1. CASE k <= u
    <3>1. k \in 1..u
      BY <2>1, <1>1, <1>3
    <3>2. new[Ring!At(b, k - 1)] = c[k]
      BY <3>1, <1>9
    <3>3. (c \o first)[k] = c[k]
      BY <2>1, <1>11
    <3> QED BY <2>0, <3>2, <3>3
  <2>2. CASE k > u
    <3> DEFINE i == k - u
    <3>1. i \in 1..m /\ u + i - 1 = k - 1 /\ ~(k <= u)
      BY <2>2, <1>1, <1>3
    <3>2. (c \o first)[k] = first[i]
      BY <3>1, <1>11
    <3> HIDE DEF i
    <3>3. new[Ring!At(b, u + i - 1)] = first[i]
      BY <3>1, <1>10
    <3>4. Ring!At(b, u + i - 1) = Ring!At(b, k - 1)
      BY <3>1
    <3>5. new[Ring!At(b, k - 1)] = first[i]
      BY <3>3, <3>4
    <3> QED BY <2>0, <3>2, <3>5
  <2>3. k <= u \/ k > u
    BY <1>1, <1>3
  <2> QED BY <2>1, <2>2, <2>3, Zenon
<1>13. Ring!Used(d) = c \o first
  BY <1>8, <1>11, <1>12, SeqEqual
<1> QED BY <1>2, <1>3, <1>6, <1>13 DEF d, c, first, m, u

(* Doubling moves the bytes to the front.                                  *)
LEMMA DoublingKeeps ==
  ASSUME NEW b, RingOK(b), NEW old \in Ring!Leftovers
  PROVE  /\ RingOK(Ring!Doubled(b, old)) /\ Ring!Doubled(b, old).data_size = 2 * b.data_size
         /\ Ring!Used(Ring!Doubled(b, old)) = Ring!Used(b)
<1> DEFINE d == Ring!Doubled(b, old)
           u == b.used
           s == b.data_size
           c == Ring!Used(b)
           new == [i \in 0..(2 * s - 1) |-> IF i < u THEN c[i + 1] ELSE old]
<1>1. /\ DOMAIN d = {"data_size", "h_idx", "used", "data"}
      /\ d.data_size = 2 * s /\ d.h_idx = 0 /\ d.used = u /\ d.data = new
  BY DEF Ring!Doubled
<1>2. s \in Nat /\ u \in 0..s /\ 2 * s \in Nat /\ u \in 0..(2 * s)
  <2>1. s \in Nat /\ u \in 0..s
    BY DEF RingOK
  <2> HIDE DEF s, u
  <2> QED BY <2>1
<1>3. /\ c \in Seq(RingBytes) /\ Len(c) = u /\ \A k \in 1..u : c[k] \in RingBytes
  BY UsedBytes
<1> HIDE DEF d, c, s, u
<1>4. new \in [0..(2 * s - 1) -> RingBytes]
  <2>1. old \in RingBytes
    BY DEF RingBytes
  <2>2. \A i \in 0..(2 * s - 1) : i < u => i + 1 \in 1..u
    BY <1>2
  <2> HIDE DEF RingBytes
  <2> QED BY <2>1, <2>2, <1>3
<1>5. RingOK(d)
  <2> HIDE DEF new
  <2> QED BY <1>1, <1>2, <1>4 DEF RingOK
<1>6. /\ Ring!Used(d) \in Seq(RingBytes) /\ Len(Ring!Used(d)) = u
      /\ \A k \in 1..u : Ring!Used(d)[k] = new[Ring!At(d, k - 1)]
  <2> HIDE DEF new
  <2> QED BY <1>1, <1>5, UsedBytes
<1>7. ASSUME NEW k \in 1..u PROVE new[Ring!At(d, k - 1)] = c[k]
  <2>1. k - 1 \in 0..d.data_size /\ d.data_size > 0 /\ 0 + (k - 1) < d.data_size
        /\ k - 1 \in 0..(2 * s - 1) /\ k - 1 < u /\ k - 1 + 1 = k /\ 0 + (k - 1) = k - 1
    BY <1>1, <1>2
  <2>2. Ring!At(d, k - 1) = k - 1
    BY <2>1, <1>1, <1>5, AtWraps
  <2> QED BY <2>1, <2>2
<1>8. Ring!Used(d) = c
  <2> HIDE DEF new
  <2>1. \A k \in 1..u : Ring!Used(d)[k] = c[k]
    BY <1>6, <1>7
  <2> QED BY <1>3, <1>6, <2>1, SeqEqual
<1> QED BY <1>1, <1>5, <1>8 DEF d, c, s

(* A buffer that has just been made is empty.                              *)
LEMMA NewRing ==
  ASSUME NEW ds \in Nat, NEW old \in Ring!Leftovers
  PROVE  LET b == Ring!Assigned(Ring!Fresh(ds, old), old)
         IN /\ RingOK(b) /\ b.data_size = ds /\ Ring!Used(b) = <<>>
            /\ RingOK(Ring!Fresh(ds, old)) /\ Ring!Fresh(ds, old).data_size = ds
            /\ Ring!Used(Ring!Fresh(ds, old)) = <<>>
<1> DEFINE f == Ring!Fresh(ds, old)
           b == Ring!Assigned(f, old)
<1>1. /\ DOMAIN f = {"data_size", "h_idx", "used", "data"} /\ f.data_size = ds /\ f.h_idx = 0
      /\ f.used = 0 /\ f.data = [i \in 0..(ds - 1) |-> old]
  BY DEF Ring!Fresh
<1> HIDE DEF f
<1>2. /\ DOMAIN b = DOMAIN f /\ b.data_size = ds /\ b.h_idx = 0 /\ b.used = 0
      /\ b.data = f.data
  <2>1. b.data = [i \in DOMAIN f.data |->
          IF \E k \in 0..(f.used - 1) : Ring!At(f, k) = i THEN f.data[i] ELSE old]
    BY <1>1 DEF Ring!Assigned
  <2>2. b.data = [i \in 0..(ds - 1) |-> old]
    BY <2>1, <1>1
  <2> QED BY <1>1, <2>2 DEF Ring!Assigned
<1> HIDE DEF b
<1>3. f.data \in [0..(ds - 1) -> RingBytes]
  BY <1>1 DEF RingBytes
<1>4. RingOK(f) /\ RingOK(b)
  BY <1>1, <1>2, <1>3 DEF RingOK
<1>5. Ring!Used(f) = <<>> /\ Ring!Used(b) = <<>>
  <2>1. /\ Ring!Used(f) \in Seq(RingBytes) /\ Len(Ring!Used(f)) = 0
        /\ Ring!Used(b) \in Seq(RingBytes) /\ Len(Ring!Used(b)) = 0
    BY <1>1, <1>2, <1>4, UsedBytes
  <2> QED BY <2>1, EmptySeq
<1> QED BY <1>1, <1>2, <1>4, <1>5 DEF b, f

(* Every set of numbers has a least member.                                *)
LEMMA HasLeast ==
  ASSUME NEW S, S \subseteq Nat, S # {}
  PROVE  \E m \in S : \A k \in S : m <= k
<1>1. IsWellFoundedOn(OpToRel(<, Nat), Nat)
  BY NatLessThanWellFounded
<1>2. PICK m \in S : \A k \in S : ~(<<k, m>> \in OpToRel(<, Nat))
  BY <1>1, WFMin
<1>3. \A k \in S : k < m => <<k, m>> \in OpToRel(<, Nat)
  BY DEF OpToRel
<1>4. \A k \in S : k \in Nat /\ m \in Nat
  OBVIOUS
<1>5. \A k \in S : ~(k < m)
  BY <1>2, <1>3, Zenon
<1>6. \A k \in S : m <= k
  BY ONLY <1>4, <1>5
<1> QED BY <1>6

(* The first newline of the ring is that of the queue.                     *)
LEMMA LineBytesAreTheLine ==
  ASSUME RingOK(rb)
  PROVE  /\ Ring!LineBytes(rb) \in 0..rb.used
         /\ Ring!LineBytes(rb) = Ring!Queue!LineLength(Ring!Used(rb))
<1> DEFINE q == Ring!Used(rb)
           ends == {k \in 1..rb.used : Ring!Byte(rb, k - 1) = NL}
           least == CHOOSE k \in ends : \A m \in ends : k <= m
<1>1. /\ DOMAIN q = 1..rb.used /\ rb.used \in Nat /\ Len(q) = rb.used
      /\ \A k \in 1..rb.used : q[k] = Ring!Byte(rb, k - 1)
  BY UsedBytes
<1>2. ends = {k \in DOMAIN q : q[k] = NL}
  BY <1>1
<1>3. Ring!LineBytes(rb) = IF ends = {} THEN rb.used ELSE least
  BY DEF Ring!LineBytes, Ring!Min
<1>4. Ring!Queue!LineLength(q) = IF ends = {} THEN rb.used ELSE least
  <2> HIDE DEF ends, q
  <2>1. Ring!Queue!LineLength(q) = IF {k \in DOMAIN q : q[k] = NL} = {} THEN Len(q)
          ELSE CHOOSE k \in {i \in DOMAIN q : q[i] = NL} : \A m \in {i \in DOMAIN q : q[i] = NL} : k <= m
    BY DEF Ring!Queue!LineLength
  <2> QED BY <2>1, <1>1, <1>2
<1>5. ends # {} => least \in ends
  <2>1. ends \subseteq Nat
    BY <1>1
  <2> HIDE DEF ends
  <2> QED BY <2>1, HasLeast
<1>6. Ring!LineBytes(rb) \in 0..rb.used
  <2>1. \A k \in ends : k \in 0..rb.used
    BY <1>1
  <2> HIDE DEF ends, least
  <2> QED BY <2>1, <1>1, <1>3, <1>5
<1> QED BY <1>3, <1>4, <1>6

(* As many positions are marked as bytes are used.                         *)
LEMMA MarksAreUsed ==
  ASSUME RingOK(rb)
  PROVE  /\ \A p \in Ring!Marks(rb) : ~(p < 0)
         /\ Ring!Cardinality(Ring!Marks(rb)) = Len(Ring!Used(rb))
<1> DEFINE S == 0..(rb.used - 1)
           T == Ring!Marks(rb)
           f == [k \in S |-> Ring!At(rb, k)]
<1>1. rb.used \in Nat /\ rb.used <= rb.data_size /\ rb.data_size \in Nat
      /\ Len(Ring!Used(rb)) = rb.used
  BY UsedBytes DEF RingOK
<1>2. T = {f[k] : k \in S}
  BY DEF Ring!Marks
<1>3. f \in Bijection(S, T)
  <2>1. ASSUME NEW k \in S, NEW m \in S, f[k] = f[m] PROVE k = m
    <3>1. k \in 0..(rb.data_size - 1) /\ m \in 0..(rb.data_size - 1)
      BY <1>1
    <3> QED BY <2>1, <3>1, AtInjective
  <2> HIDE DEF S, T
  <2>2. f \in [S -> T] /\ \A t \in T : \E k \in S : f[k] = t
    BY <1>2
  <2> HIDE DEF f
  <2>3. f \in Injection(S, T)
    BY <2>1, <2>2 DEF Injection, IsInjective
  <2>4. f \in Surjection(S, T)
    BY <2>2 DEF Surjection
  <2> QED BY <2>3, <2>4 DEF Bijection
<1>4. IsFiniteSet(S) /\ Cardinality(S) = rb.used
  <2> DEFINE m == rb.used - 1
  <2>1. 0 \in Int /\ m \in Int
    BY <1>1
  <2>2. IsFiniteSet(0..m) /\ Cardinality(0..m) = IF 0 > m THEN 0 ELSE m - 0 + 1
    <3> HIDE DEF m
    <3> QED BY ONLY <2>1, FS_Interval
  <2>3. (IF 0 > m THEN 0 ELSE m - 0 + 1) = rb.used
    BY <1>1
  <2> QED BY <2>2, <2>3 DEF S
<1>5. Cardinality(T) = rb.used
  <2> HIDE DEF S, T, f
  <2> QED BY <1>3, <1>4, FS_Bijection DEF ExistsBijection
<1>6. Ring!Cardinality(T) = Cardinality(T)
  BY DEF Ring!Cardinality, Cardinality
<1>7. ASSUME NEW k \in S PROVE ~(Ring!At(rb, k) < 0)
  <2>1. k \in 0..rb.data_size /\ rb.data_size > 0
    BY <1>1
  <2>2. Ring!At(rb, k) \in 0..(rb.data_size - 1)
    BY <2>1, AtWraps
  <2> QED BY <2>2
<1> QED BY <1>1, <1>5, <1>6, <1>7 DEF Ring!Marks

(* A remainder is less than the divisor.                                   *)
LEMMA RemType ==
  ASSUME NEW a \in Int, NEW m \in Nat, m > 0
  PROVE  Ring!Rem(a, m) \in Int /\ Ring!Rem(a, m) < m
<1>1. CASE a >= 0
  <2>1. a % m \in 0..(m - 1)
    BY <1>1
  <2> QED BY <1>1, <2>1 DEF Ring!Rem
<1>2. CASE a < 0
  <2> DEFINE c == -a
  <2>1. c \in Nat
    BY <1>2
  <2>2. c % m \in 0..(m - 1)
    BY <2>1
  <2>3. Ring!Rem(a, m) = -(c % m)
    BY <1>2 DEF Ring!Rem
  <2> HIDE DEF c
  <2> QED BY <2>2, <2>3
<1> QED BY <1>1, <1>2

(* Where a ring is no queue it still has its shape.                        *)
LEMMA WithoutType ==
  ASSUME NEW b, RingType(b), NEW k \in Int, k <= b.used
  PROVE  RingType(Ring!Without(b, k)) /\ Ring!Without(b, k).data_size = b.data_size
<1> DEFINE d == Ring!Without(b, k)
           s == b.data_size
<1>1. s \in Nat /\ b.h_idx \in Int /\ b.used \in Nat
  BY DEF RingType
<1>2. CASE s = 0
  BY <1>2 DEF Ring!Without
<1>3. CASE s # 0
  <2>1. /\ DOMAIN d = DOMAIN b /\ d.h_idx = Ring!Rem(b.h_idx + k, s) /\ d.used = b.used - k
        /\ d.data_size = s /\ d.data = b.data
    BY <1>3 DEF Ring!Without, Ring!At, RingType
  <2>2. d.h_idx \in Int /\ d.h_idx < s
    BY <1>1, <1>3, <2>1, RemType
  <2>3. d.used \in Nat
    BY <1>1, <2>1
  <2> HIDE DEF d
  <2>4. RingType(d)
    BY <2>1, <2>2, <2>3 DEF RingType
  <2> QED BY <2>1, <2>4 DEF d
<1> QED BY <1>2, <1>3

LEMMA WithType ==
  ASSUME NEW b, RingType(b), NEW t \in Seq(RingBytes)
  PROVE  RingType(Ring!With(b, t)) /\ Ring!With(b, t).data_size = b.data_size
<1> DEFINE m == Ring!Written(b, t)
           s == b.data_size
           d == Ring!With(b, t)
           Put(i) == {k \in 1..m : Ring!At(b, b.used + k - 1) = i}
           new == [i \in DOMAIN b.data |-> IF Put(i) = {} THEN b.data[i]
                                           ELSE t[CHOOSE k \in Put(i) : TRUE]]
<1>1. m \in 0..Len(t) /\ Len(t) \in Nat /\ b.used \in Nat /\ s \in Nat
  <2>1. Len(t) \in Nat /\ b.used \in Nat /\ s \in Nat
    BY DEF RingType
  <2> DEFINE f == s - b.used
  <2>2. f \in Int
    BY <2>1
  <2>3. m = CASE Len(t) < f -> Len(t)
              [] 0 <= f /\ f <= Len(t) -> f
              [] f < 0 -> 0
    BY DEF Ring!Written, Ring!free_size
  <2> HIDE DEF m, f
  <2> QED BY <2>1, <2>2, <2>3
<1>2. /\ d.h_idx = b.h_idx /\ d.data_size = s /\ d.used = b.used + m /\ d.data = new
      /\ DOMAIN d = DOMAIN b
  BY DEF Ring!With, RingType
<1> HIDE DEF d, m
<1>3. new \in [0..(s - 1) -> RingBytes]
  <2>1. ASSUME NEW i \in DOMAIN b.data, Put(i) # {}
        PROVE  t[CHOOSE k \in Put(i) : TRUE] \in RingBytes
    <3>1. (CHOOSE k \in Put(i) : TRUE) \in Put(i)
      BY <2>1, Zenon
    <3>2. (CHOOSE k \in Put(i) : TRUE) \in 1..Len(t)
      BY <1>1, <3>1
    <3> QED BY <3>2, ElementOfSeq
  <2>2. DOMAIN b.data = 0..(s - 1) /\ \A i \in DOMAIN b.data : b.data[i] \in RingBytes
    BY DEF RingType
  <2> HIDE DEF Put, s, RingBytes
  <2> QED BY <2>1, <2>2
<1> HIDE DEF new
<1>4. RingType(d)
  BY <1>1, <1>2, <1>3 DEF RingType
<1> QED BY <1>2, <1>4 DEF d

LEMMA DoubledType ==
  ASSUME NEW b, RingType(b), NEW old \in Ring!Leftovers
  PROVE  RingType(Ring!Doubled(b, old)) /\ Ring!Doubled(b, old).data_size = 2 * b.data_size
<1> DEFINE d == Ring!Doubled(b, old)
           c == Ring!Used(b)
           s == b.data_size
           u == b.used
           new == [i \in 0..(2 * s - 1) |-> IF i < u THEN c[i + 1] ELSE old]
<1>1. /\ DOMAIN d = {"data_size", "h_idx", "used", "data"}
      /\ d.data_size = 2 * s /\ d.h_idx = 0 /\ d.used = u /\ d.data = new
  BY DEF Ring!Doubled
<1>2. s \in Nat /\ u \in Nat
  BY DEF RingType
<1>3. \A k \in 1..u : c[k] \in RingBytes
  BY BytesAnywhere
<1>4. old \in RingBytes
  BY DEF RingBytes
<1> HIDE DEF d, c, s, u
<1>5. new \in [0..(2 * s - 1) -> RingBytes]
  <2>1. \A i \in 0..(2 * s - 1) : i < u => i + 1 \in 1..u
    BY <1>2
  <2> HIDE DEF RingBytes
  <2> QED BY <1>3, <1>4, <2>1
<1> HIDE DEF new
<1>6. 2 * s \in Nat /\ (2 * s > 0 => 0 < 2 * s)
  BY <1>2
<1>7. RingType(d)
  BY <1>1, <1>2, <1>5, <1>6 DEF RingType
<1> QED BY <1>1, <1>7 DEF d, s

LEMMA LineBytesType ==
  ASSUME RingInv
  PROVE  Ring!LineBytes(rb) \in Int /\ Ring!LineBytes(rb) <= rb.used
<1> DEFINE ends == {k \in 1..rb.used : Ring!Byte(rb, k - 1) = NL}
           least == CHOOSE k \in ends : \A m \in ends : k <= m
<1>1. rb.used \in Nat
  BY DEF RingInv, RingType
<1>2. Ring!LineBytes(rb) = IF ends = {} THEN rb.used ELSE least
  BY DEF Ring!LineBytes, Ring!Min
<1>3. ends # {} => least \in ends
  <2>1. ends \subseteq Nat
    BY <1>1
  <2> HIDE DEF ends
  <2> QED BY <2>1, HasLeast
<1>4. \A k \in ends : k \in Int /\ k <= rb.used
  BY <1>1
<1> HIDE DEF ends, least
<1> QED BY <1>1, <1>2, <1>3, <1>4

(* What is brought back lies in front of what there was.                   *)
LEMMA BroughtBack ==
  ASSUME NEW b, RingOK(b), b.data_size > 0, NEW n0 \in Int, n0 < 0,
         Ring!Sound(Ring!Without(b, n0))
  PROVE  /\ Len(Ring!Used(Ring!Without(b, n0))) = b.used - n0
         /\ Ring!Queue!Suffix(Ring!Used(Ring!Without(b, n0)), -n0) = Ring!Used(b)
<1> DEFINE d == Ring!Without(b, n0)
           s == b.data_size
           h == b.h_idx
           g == d.h_idx
           e == Ring!Without(d, -n0)
<1>1. s \in Nat /\ s > 0 /\ h \in 0..(s - 1) /\ b.used \in Nat /\ n0 <= b.used
  BY DEF RingOK
<1>2. /\ g = Ring!Rem(h + n0, s) /\ d.used = b.used - n0
      /\ d.data_size = s /\ d.data = b.data
  BY <1>1 DEF Ring!Without, Ring!At, RingOK
<1>3. RingOK(d)
  BY <1>1, WithoutType, SoundRings
<1>4. 0 <= g /\ g < s /\ d.used <= s
  BY <1>1, <1>2, <1>3 DEF RingOK
<1>5. -n0 \in 0..s /\ -n0 \in 0..d.used
  <2> HIDE DEF d, s
  <2> QED BY <1>1, <1>2, <1>4
<1>6. Ring!At(d, -n0) = h
  <2> DEFINE a == Ring!At(d, -n0)
  <2>1. a = IF g + (-n0) < s THEN g + (-n0) ELSE g + (-n0) - s
    BY <1>1, <1>2, <1>3, <1>5, AtWraps
  <2> HIDE DEF a, g, s, h
  <2>2. CASE h + n0 >= 0
    <3>1. h + n0 \in 0..(2 * s - 1) /\ h + n0 < s
      BY <1>1, <2>2
    <3>2. g = h + n0
      BY <1>1, <1>2, <2>2, <3>1, Wraps DEF Ring!Rem
    <3> QED BY <1>1, <2>1, <3>2 DEF a
  <2>3. CASE h + n0 < 0
    <3> DEFINE c == -(h + n0)
    <3>1. c \in 0..(2 * s - 1) /\ c > 0 /\ c <= s
      BY <1>1, <1>5, <2>3
    <3>2. c % s = IF c < s THEN c ELSE c - s
      BY <1>1, <3>1, Wraps
    <3>3. g = -(c % s)
      BY <1>2, <1>1, <2>3 DEF Ring!Rem
    <3> HIDE DEF c
    <3>4. c = s /\ g = 0
      BY <1>1, <1>4, <3>1, <3>2, <3>3
    <3>5. h = 0 /\ n0 = -s
      BY <1>1, <1>5, <3>4 DEF c
    <3> QED BY <1>1, <2>1, <3>4, <3>5 DEF a
  <2> QED BY <1>1, <2>2, <2>3
<1>7. /\ Ring!Used(e) = SubSeq(Ring!Used(d), -n0 + 1, d.used)
      /\ Len(Ring!Used(d)) = d.used
  BY <1>3, <1>5, WithoutLeavesRest, UsedBytes
<1>8. e.h_idx = h /\ e.used = b.used /\ e.data_size = s /\ e.data = b.data
  <2>1. /\ e.h_idx = Ring!At(d, -n0) /\ e.used = d.used - (-n0)
        /\ e.data_size = d.data_size /\ e.data = d.data
    <3>1. d.data_size # 0 /\ DOMAIN d = {"data_size", "h_idx", "used", "data"}
      BY <1>1, <1>2, <1>3 DEF RingOK
    <3> HIDE DEF d
    <3> QED BY <3>1 DEF Ring!Without
  <2>2. d.used - (-n0) = b.used
    BY <1>1, <1>2
  <2> QED BY <1>2, <1>6, <2>1, <2>2
<1> HIDE DEF e, s, h
<1>9. Ring!Used(e) = Ring!Used(b)
  BY <1>8 DEF Ring!Used, Ring!Byte, Ring!At, s, h
<1> HIDE DEF d
<1>10. Len(Ring!Used(d)) = b.used - n0
  BY <1>2, <1>7
<1>11. Ring!Queue!Suffix(Ring!Used(d), -n0) = SubSeq(Ring!Used(d), -n0 + 1, d.used)
  BY <1>7 DEF Ring!Queue!Suffix
<1> QED BY <1>7, <1>9, <1>10, <1>11 DEF d

LEMMA RingInit ==
  ASSUME Ring!Init
  PROVE  RingInv /\ Ring!Queue!Init
<1>1. rb = Ring!Fresh(0, Ring!Unset) /\ result = <<"none">> /\ Ring!Unset \in Ring!Leftovers
  BY DEF Ring!Init, Ring!Leftovers
<1>2. RingOK(rb) /\ Ring!Used(rb) = <<>> /\ rb.data_size = 0
  BY <1>1, NewRing
<1>3. RingInv /\ Ring!Sound(rb)
  BY <1>2, SoundRings DEF RingInv
<1> QED BY <1>1, <1>2, <1>3 DEF Ring!Queue!Init

(* What the abstract queue sees of what a command printed.                 *)
ResultOf(r) == IF r[1] = "read" THEN <<"read">> ELSE r

LEMMA NewRings ==
  ASSUME RingInv, Ring!New
  PROVE  RingInv' /\ Ring!Queue!New
<1>1. PICK ds \in RingSizes, old \in Ring!Leftovers :
        /\ rb' = IF ds < 0 THEN rb ELSE Ring!Assigned(Ring!Fresh(ds, old), old)
        /\ result' = <<"none">>
  BY DEF Ring!New
<1>2. ds \in Int /\ ResultOf(result') = <<"none">>
  BY <1>1, RingAssumed DEF ResultOf
<1>3. CASE ds < 0
  <2>1. rb' = rb
    BY <1>1, <1>3
  <2> QED BY <1>2, <1>3, <2>1 DEF RingInv, Ring!Queue!New, ResultOf
<1>4. CASE ds >= 0
  <2>1. rb' = Ring!Assigned(Ring!Fresh(ds, old), old)
    BY <1>1, <1>2, <1>4
  <2>2. RingOK(rb') /\ rb'.data_size = ds /\ Ring!Used(rb') = <<>>
    BY <1>2, <1>4, <2>1, NewRing
  <2>3. RingType(rb') /\ Ring!Sound(rb')
    BY <2>2, SoundRings
  <2> QED BY <1>2, <1>4, <2>2, <2>3 DEF RingInv, Ring!Queue!New, ResultOf
<1> QED BY <1>2, <1>3, <1>4

(* Every operation leaves a ring, of the same size or of twice the size,   *)
(* but one that makes a new one.                                           *)
LEMMA RingTypeStep ==
  ASSUME RingInv, Ring!Next
  PROVE  /\ RingInv'
         /\ Ring!New \/ rb'.data_size \in {rb.data_size, 2 * rb.data_size}
<1>1. CASE Ring!New
  BY <1>1, NewRings
<1>2. CASE Ring!Write
  <2>1. PICK t \in Texts : rb' = Ring!With(rb, t)
    BY <1>2 DEF Ring!Write
  <2> QED BY <2>1, RingAssumed, WithType DEF RingInv
<1>3. CASE Ring!Dec
  <2>1. PICK a \in Amounts : rb' = Ring!Without(rb, Ring!Removed(rb, a))
    BY <1>3 DEF Ring!Dec
  <2>2. Ring!Removed(rb, a) \in Int /\ Ring!Removed(rb, a) <= rb.used
    <3>1. a \in Int /\ rb.used \in Nat
      BY RingAssumed DEF RingInv, RingType
    <3> QED BY <3>1 DEF Ring!Removed
  <2> QED BY <2>1, <2>2, WithoutType DEF RingInv
<1>4. CASE Ring!PopLine
  <2>1. rb' = Ring!Without(rb, Ring!LineBytes(rb))
    BY <1>4 DEF Ring!PopLine
  <2> QED BY <2>1, LineBytesType, WithoutType DEF RingInv
<1>5. CASE Ring!Grow
  <2>1. PICK old \in Ring!Leftovers : rb' = Ring!Doubled(rb, old)
    BY <1>5 DEF Ring!Grow
  <2> QED BY <2>1, DoubledType DEF RingInv
<1>6. CASE Ring!CountLines \/ Ring!Show \/ Ring!Read
  <2>1. rb' = rb
    BY <1>6 DEF Ring!CountLines, Ring!Show, Ring!Read
  <2> QED BY <2>1 DEF RingInv
<1> QED BY <1>1, <1>2, <1>3, <1>4, <1>5, <1>6 DEF Ring!Next

(* A step of a ring that is a queue is one of the queue.                   *)
LEMMA SoundStep ==
  ASSUME RingOK(rb),
         \/ Ring!Write \/ Ring!Dec \/ Ring!PopLine \/ Ring!CountLines \/ Ring!Grow
         \/ Ring!Show \/ Ring!Read
  PROVE  Ring!Queue!Operation
<1> DEFINE q == Ring!Used(rb)
<1>0. /\ q \in Seq(RingBytes) /\ Len(q) = rb.used /\ rb.used \in Nat /\ DOMAIN q = 1..rb.used
      /\ \A k \in 1..rb.used : q[k] = Ring!Byte(rb, k - 1)
  BY UsedBytes
<1>1. Ring!Sound(rb) /\ (RingOK(rb') => (~Ring!Sound(rb))' = ~Ring!Sound(rb))
  BY SoundRings DEF Ring!Sound, RingOK
<1>2. CASE Ring!Write
  <2>1. PICK t \in Texts : rb' = Ring!With(rb, t) /\ result' = <<"wrote", Ring!Written(rb, t)>>
    BY <1>2 DEF Ring!Write
  <2> DEFINE m == Ring!Written(rb, t)
  <2>2. /\ m = Ring!Queue!Least(Len(t), rb.data_size - Len(q))
        /\ RingOK(rb') /\ rb'.data_size = rb.data_size
        /\ Ring!Used(rb') = q \o SubSeq(t, 1, m)
    BY <1>0, <2>1, RingAssumed, WithAppends
  <2>3. ResultOf(result') = <<"wrote", m>>
    BY <2>1 DEF ResultOf
  <2> HIDE DEF m, q
  <2>4. Ring!Queue!Write
    BY <1>1, <2>2, <2>3 DEF Ring!Queue!Write, Ring!Queue!Prefix, ResultOf, q
  <2> QED BY <2>4 DEF Ring!Queue!Operation
<1>3. CASE Ring!Dec
  <2>1. PICK a \in Amounts :
          /\ rb' = Ring!Without(rb, Ring!Removed(rb, a))
          /\ result' = <<"deleted", IF rb.data_size = 0 THEN 0 ELSE Ring!Removed(rb, a)>>
    BY <1>3 DEF Ring!Dec
  <2> DEFINE m == Ring!Removed(rb, a)
  <2>2. a \in Int /\ rb.used <= rb.data_size /\ rb.data_size \in Nat
    BY RingAssumed DEF RingOK
  <2>3. CASE a >= 0
    <3>2. /\ m \in 0..rb.used /\ m = Ring!Queue!Least(a, Len(q))
          /\ rb.data_size = 0 => m = 0
      BY <1>0, <2>2, <2>3 DEF Ring!Removed, Ring!Queue!Least
    <3>3. ResultOf(result') = <<"deleted", m>>
      BY <2>1, <3>2 DEF ResultOf
    <3> HIDE DEF m
    <3>4. /\ RingOK(rb') /\ rb'.data_size = rb.data_size
          /\ Ring!Used(rb') = SubSeq(q, m + 1, Len(q))
      BY <1>0, <2>1, <3>2, WithoutLeavesRest DEF m
    <3> HIDE DEF q
    <3>5. Ring!Queue!Dec
      BY <1>1, <2>3, <3>2, <3>3, <3>4 DEF Ring!Queue!Dec, Ring!Queue!Suffix, ResultOf, q
    <3> QED BY <3>5 DEF Ring!Queue!Operation
  <2>4. CASE a < 0
    <3>1. m = a /\ ~(rb.data_size < 0)
      BY <1>0, <2>2, <2>4 DEF Ring!Removed
    <3>2. CASE rb.data_size = 0
      <4>1. rb' = rb /\ result' = <<"deleted", 0>>
        BY <2>1, <3>2 DEF Ring!Without
      <4>2. ResultOf(result') = <<"deleted", 0>>
        BY <4>1 DEF ResultOf
      <4>3. Ring!Queue!NothingBack
        BY <2>4, <3>2, <4>1, <4>2 DEF Ring!Queue!NothingBack, ResultOf
      <4> QED BY <4>3 DEF Ring!Queue!Operation
    <3>3. CASE rb.data_size > 0
      <4>1. rb' = Ring!Without(rb, a) /\ result' = <<"deleted", a>>
        BY <2>1, <3>1, <3>3
      <4>2. ResultOf(result') = <<"deleted", a>>
        BY <4>1 DEF ResultOf
      <4>3. rb'.data_size = rb.data_size
        BY <1>0, <2>2, <2>4, <4>1, SoundRings, WithoutType
      <4>4. Ring!Sound(rb') => /\ Len(Ring!Used(rb')) = Len(q) - a
                               /\ Ring!Queue!Suffix(Ring!Used(rb'), -a) = q
        BY <1>0, <2>2, <2>4, <3>3, <4>1, BroughtBack
      <4> HIDE DEF q
      <4>5. Ring!Sound(rb') \in BOOLEAN
        BY DEF Ring!Sound
      <4>6. Ring!Queue!BringBack
        BY <2>4, <3>3, <4>2, <4>3, <4>4, <4>5 DEF Ring!Queue!BringBack, Ring!Queue!Suffix, ResultOf, q
      <4> QED BY <4>6 DEF Ring!Queue!Operation
    <3> QED BY <2>2, <3>2, <3>3
  <2> QED BY <2>2, <2>3, <2>4
<1>4. CASE Ring!PopLine
  <2> DEFINE m == Ring!LineBytes(rb)
  <2>1. rb' = Ring!Without(rb, m) /\ result' = <<"line", SubSeq(q, 1, m)>>
    BY <1>4 DEF Ring!PopLine
  <2>2. m \in 0..rb.used /\ m = Ring!Queue!LineLength(q)
    BY LineBytesAreTheLine
  <2>3. ResultOf(result') = <<"line", SubSeq(q, 1, m)>>
    BY <2>1 DEF ResultOf
  <2> HIDE DEF m
  <2>4. /\ RingOK(rb') /\ rb'.data_size = rb.data_size
        /\ Ring!Used(rb') = SubSeq(q, m + 1, Len(q))
    BY <1>0, <2>1, <2>2, WithoutLeavesRest
  <2> HIDE DEF q
  <2>5. Ring!Queue!PopLine
    BY <1>1, <2>2, <2>3, <2>4
       DEF Ring!Queue!PopLine, Ring!Queue!Suffix, Ring!Queue!Prefix, ResultOf, q
  <2> QED BY <2>5 DEF Ring!Queue!Operation
<1>5. CASE Ring!CountLines
  <2> DEFINE S == {k \in DOMAIN q : q[k] = NL}
  <2>1. result' = <<"lines", Ring!Cardinality({k \in 1..rb.used : Ring!Byte(rb, k - 1) = NL})>>
        /\ rb' = rb
    BY <1>5 DEF Ring!CountLines, Ring!LinesAvailable
  <2>2. {k \in 1..rb.used : Ring!Byte(rb, k - 1) = NL} = S
    BY <1>0
  <2>3. Ring!Cardinality(S) = Cardinality(S) /\ Ring!Queue!Cardinality(S) = Cardinality(S)
    BY DEF Ring!Cardinality, Ring!Queue!Cardinality, Cardinality
  <2>4. result' = <<"lines", Ring!Queue!Cardinality(S)>>
    BY <2>1, <2>2, <2>3
  <2>5. ResultOf(result') = <<"lines", Ring!Queue!Cardinality(S)>>
    BY <2>4 DEF ResultOf
  <2>6. Ring!Queue!CountLines
    BY <2>1, <2>5 DEF Ring!Queue!CountLines, ResultOf
  <2> QED BY <2>6 DEF Ring!Queue!Operation
<1>6. CASE Ring!Grow
  <2>1. PICK old \in Ring!Leftovers : rb' = Ring!Doubled(rb, old) /\ result' = <<"none">>
    BY <1>6 DEF Ring!Grow
  <2>2. RingOK(rb') /\ rb'.data_size = 2 * rb.data_size /\ Ring!Used(rb') = q
    BY <2>1, DoublingKeeps
  <2>3. ResultOf(result') = <<"none">>
    BY <2>1 DEF ResultOf
  <2>4. Ring!Queue!Grow
    BY <1>1, <2>2, <2>3 DEF Ring!Queue!Grow, ResultOf
  <2> QED BY <2>4 DEF Ring!Queue!Operation
<1>7. CASE Ring!Show
  <2>1. result' = <<"used", Len(q)>> /\ rb' = rb
    BY <1>7, MarksAreUsed DEF Ring!Show
  <2>2. ResultOf(result') = <<"used", Len(q)>>
    BY <2>1 DEF ResultOf
  <2>3. Ring!Queue!Show
    BY <2>1, <2>2 DEF Ring!Queue!Show, ResultOf
  <2> QED BY <2>3 DEF Ring!Queue!Operation
<1>8. CASE Ring!Read
  <2>1. PICK a \in Amounts :
          /\ result' = IF a < -1 THEN <<"none">> ELSE <<"read", Ring!ReadBytes(rb, a)>>
          /\ rb' = rb
    BY <1>8 DEF Ring!Read
  <2>2. ResultOf(result') = IF a < -1 THEN <<"none">> ELSE <<"read">>
    BY <2>1 DEF ResultOf
  <2>3. Ring!Queue!Read
    BY <2>1, <2>2 DEF Ring!Queue!Read, ResultOf
  <2> QED BY <2>3 DEF Ring!Queue!Operation
<1> QED BY <1>2, <1>3, <1>4, <1>5, <1>6, <1>7, <1>8

LEMMA RingStep ==
  ASSUME RingInv, Ring!Next
  PROVE  RingInv' /\ Ring!Queue!Next
<1>1. RingInv' /\ (Ring!New \/ rb'.data_size \in {rb.data_size, 2 * rb.data_size})
  BY RingTypeStep
<1>2. CASE Ring!New
  <2>1. Ring!Queue!New
    BY <1>2, NewRings
  <2> QED BY <1>1, <2>1 DEF Ring!Queue!Next
<1>3. CASE ~Ring!New /\ Ring!Sound(rb)
  <2>1. RingOK(rb)
    BY <1>3, SoundRings DEF RingInv
  <2>2. Ring!Queue!Operation
    BY <1>3, <2>1, SoundStep DEF Ring!Next
  <2> QED BY <1>1, <1>3, <2>2 DEF Ring!Queue!Next
<1>4. CASE ~Ring!New /\ ~Ring!Sound(rb)
  <2>1. Ring!Queue!Lost
    BY <1>1, <1>4 DEF Ring!Queue!Lost
  <2> QED BY <1>1, <2>1 DEF Ring!Queue!Next
<1> QED BY <1>2, <1>3, <1>4

LEMMA RingImplementsQueue == Spec => Ring!ImplementsByteQueue
<1>1. Init => RingInv /\ Ring!Queue!Init
  BY RingInit DEF Init
<1>2. RingInv /\ [Next]_vars => RingInv' /\ [Ring!Queue!Next]_(Ring!Queue!vars)
  <2> SUFFICES ASSUME RingInv, [Next]_vars
               PROVE  RingInv' /\ (Ring!Queue!Next \/ (rb' = rb /\ result' = result))
    BY DEF Ring!Queue!vars
  <2>1. CASE RingActs
    BY <2>1, RingStep DEF RingActs
  <2>2. ~RingActs => rb' = rb /\ result' = result
    BY DEF Next, DemoActs, MapActs, BitsActs, ThreadsAct, LineActs, arrayVars, OthersOfThreads, vars
  <2> QED BY <2>1, <2>2 DEF RingInv
<1> QED BY <1>1, <1>2, PTL DEF Spec, Ring!ImplementsByteQueue, Ring!Queue!Spec

-----------------------------------------------------------------------------
(* What counting on and appending reach.                                   *)

(* What holds of 0 and is kept by counting on holds of all numbers.        *)
LEMMA CountingOn ==
  ASSUME NEW S, 0 \in S, \A k \in Nat : k \in S => k + 1 \in S
  PROVE  Nat \subseteq S
<1> DEFINE rest == Nat \ S
<1>1. SUFFICES ASSUME rest # {} PROVE FALSE
  OBVIOUS
<1>2. PICK m \in rest : \A k \in rest : m <= k
  <2>1. rest \subseteq Nat
    OBVIOUS
  <2> HIDE DEF rest
  <2> QED BY <1>1, <2>1, HasLeast
<1>3. m \in Nat /\ m # 0 /\ m - 1 \in Nat /\ m - 1 + 1 = m /\ ~(m <= m - 1)
  OBVIOUS
<1> QED BY <1>2, <1>3

(* The values of what starts with a and goes on with next, m times.        *)
Steps(f, S, a, m, next) ==
  f \in [0..m -> S] /\ f[0] = a /\ \A k \in 1..m : f[k] = next[k][f[k - 1]]

(* There are such values.                                                  *)
LEMMA StepsExist ==
  ASSUME NEW S, NEW a \in S, NEW m \in Nat, NEW next \in [1..m -> [S -> S]]
  PROVE  \E f : Steps(f, S, a, m, next)
<1> DEFINE Upto(k) == \E f \in [0..k -> S] : f[0] = a /\ \A i \in 1..k : f[i] = next[i][f[i - 1]]
           good == {k \in Nat : k <= m => Upto(k)}
<1>1. 0 \in good
  <2> DEFINE f == [k \in 0..0 |-> a]
  <2>1. f \in [0..0 -> S] /\ f[0] = a /\ 1..0 = {}
    OBVIOUS
  <2>2. Upto(0)
    <3> HIDE DEF f
    <3> QED BY <2>1
  <2> QED BY <2>2
<1>2. ASSUME NEW k \in Nat, k \in good PROVE k + 1 \in good
  <2>1. SUFFICES ASSUME k + 1 <= m PROVE Upto(k + 1)
    OBVIOUS
  <2>2. PICK f \in [0..k -> S] : f[0] = a /\ \A i \in 1..k : f[i] = next[i][f[i - 1]]
    BY <1>2, <2>1
  <2> DEFINE x == next[k + 1][f[k]]
             g == [i \in 0..(k + 1) |-> IF i = k + 1 THEN x ELSE f[i]]
  <2>3. x \in S
    BY <2>1
  <2>4. /\ g \in [0..(k + 1) -> S] /\ g[k + 1] = x
        /\ \A i \in 0..k : i # k + 1 /\ g[i] = f[i]
    <3> HIDE DEF x
    <3> QED BY <2>3
  <2>5. ASSUME NEW i \in 1..(k + 1) PROVE g[i] = next[i][g[i - 1]]
    <3>1. CASE i = k + 1
      <4>1. g[i - 1] = f[k] /\ k \in 0..k /\ i - 1 = k
        BY <3>1, <2>4
      <4> HIDE DEF g
      <4> QED BY <3>1, <4>1, <2>4
    <3>2. CASE i \in 1..k
      <4> HIDE DEF g
      <4>1. i - 1 \in 0..k /\ i \in 0..k
        BY <3>2
      <4> QED BY <3>2, <4>1, <2>4, <2>2
    <3> QED BY <3>1, <3>2
  <2> HIDE DEF g, x
  <2>6. g[0] = a
    BY <2>2, <2>4
  <2> QED BY <2>4, <2>5, <2>6
<1> HIDE DEF Upto
<1>3. Nat \subseteq good
  <2> HIDE DEF good
  <2> QED BY <1>1, <1>2, CountingOn
<1>4. Upto(m)
  BY <1>3
<1> QED BY <1>4 DEF Upto, Steps

(* Values that start alike and go on alike are the same.                   *)
Alike(f, g, m) == f[0] = g[0] /\ \A k \in 1..m : f[k - 1] = g[k - 1] => f[k] = g[k]

LEMMA StepsAgree ==
  ASSUME NEW f, NEW g, NEW m \in Nat, Alike(f, g, m)
  PROVE  f[m] = g[m]
<1> DEFINE good == {k \in Nat : k <= m => f[k] = g[k]}
<1>1. 0 \in good
  BY DEF Alike
<1>2. ASSUME NEW k \in Nat, k \in good PROVE k + 1 \in good
  <2>1. SUFFICES ASSUME k + 1 <= m PROVE f[k + 1] = g[k + 1]
    OBVIOUS
  <2>2. k + 1 \in 1..m /\ (k + 1) - 1 = k /\ k <= m
    BY <2>1
  <2> QED BY <1>2, <2>2 DEF Alike
<1>3. Nat \subseteq good
  <2> HIDE DEF good
  <2> QED BY <1>1, <1>2, CountingOn
<1> QED BY <1>3

(* There are no others.                                                    *)
Follows(g, S, a, m, next) ==
  g[0] = a /\ \A k \in 1..m : g[k - 1] \in S => g[k] = next[k][g[k - 1]]

LEMMA OnlyTheseSteps ==
  ASSUME NEW S, NEW a, NEW m \in Nat, NEW next,
         NEW f, Steps(f, S, a, m, next), NEW g, Follows(g, S, a, m, next)
  PROVE  \A i \in 0..m : g[i] = f[i] /\ f[i] \in S
<1>1. ASSUME NEW i \in 0..m PROVE g[i] = f[i]
  <2>1. ASSUME NEW k \in 1..i, g[k - 1] = f[k - 1] PROVE g[k] = f[k]
    <3>1. k \in 1..m /\ k - 1 \in 0..m
      OBVIOUS
    <3> QED BY <2>1, <3>1 DEF Steps, Follows
  <2>2. i \in Nat /\ g[0] = f[0]
    BY DEF Steps, Follows
  <2>3. Alike(g, f, i)
    BY <2>1, <2>2 DEF Alike
  <2> QED BY <2>2, <2>3, StepsAgree
<1> QED BY <1>1 DEF Steps

(* What holds of the empty sequence and is kept by appending holds of all. *)
LEMMA AppendingOn ==
  ASSUME NEW C, NEW S, <<>> \in S, \A x \in Seq(C) : \A c \in C : x \in S => Append(x, c) \in S
  PROVE  Seq(C) \subseteq S
<1> DEFINE good == {k \in Nat : \A x \in Seq(C) : Len(x) = k => x \in S}
<1>1. 0 \in good
  <2>1. ASSUME NEW x \in Seq(C), Len(x) = 0 PROVE x \in S
    <3>1. x = <<>>
      BY <2>1, EmptySeq
    <3> QED BY <3>1
  <2> QED BY <2>1
<1>2. ASSUME NEW k \in Nat, k \in good PROVE k + 1 \in good
  <2>1. ASSUME NEW x \in Seq(C), Len(x) = k + 1 PROVE x \in S
    <3> DEFINE y == SubSeq(x, 1, k)
    <3>1. y \in Seq(C) /\ Len(y) = k /\ \A i \in 1..k : y[i] = x[i]
      BY <2>1, SubSeqProperties
    <3>2. x[k + 1] \in C
      BY <2>1
    <3> HIDE DEF y
    <3>3. /\ Append(y, x[k + 1]) \in Seq(C) /\ Len(Append(y, x[k + 1])) = k + 1
          /\ \A i \in 1..(k + 1) : Append(y, x[k + 1])[i] = IF i <= k THEN y[i] ELSE x[k + 1]
      BY <3>1, <3>2
    <3>4. \A i \in 1..(k + 1) : Append(y, x[k + 1])[i] = x[i]
      BY <3>1, <3>3
    <3>5. Append(y, x[k + 1]) = x
      BY <2>1, <3>3, <3>4, SeqEqual
    <3>6. y \in S
      BY <1>2, <3>1
    <3> QED BY <3>1, <3>2, <3>5, <3>6
  <2> QED BY <2>1
<1>3. Nat \subseteq good
  <2> HIDE DEF good
  <2> QED BY <1>1, <1>2, CountingOn
<1> QED BY <1>3, LenProperties

-----------------------------------------------------------------------------
(* The bytes wasted.                                                       *)

LEMMA TotalSteps ==
  ASSUME NEW s \in Seq(Nat)
  PROVE  \E f \in [0..Len(s) -> Nat] :
           /\ f[0] = 0 /\ \A k \in 1..Len(s) : f[k] = f[k - 1] + s[k]
           /\ Demo!Total(s) = f[Len(s)]
<1> DEFINE Sums(f) == f = [k \in 0..Len(s) |-> IF k = 0 THEN 0 ELSE f[k - 1] + s[k]]
           next == [k \in 1..Len(s) |-> [x \in Nat |-> x + s[k]]]
<1>1. Len(s) \in Nat /\ \A k \in 1..Len(s) : s[k] \in Nat
  BY LenProperties, ElementOfSeq
<1>2. PICK f : Steps(f, Nat, 0, Len(s), next)
  <2>1. next \in [1..Len(s) -> [Nat -> Nat]]
    BY <1>1
  <2> HIDE DEF next
  <2> QED BY <1>1, <2>1, StepsExist
<1>3. /\ f[0] = 0 /\ f \in [0..Len(s) -> Nat]
      /\ \A k \in 1..Len(s) : k - 1 \in 0..Len(s) /\ f[k] = f[k - 1] + s[k]
  <2>1. \A k \in 1..Len(s) : k - 1 \in 0..Len(s)
    BY <1>1
  <2> QED BY <1>2, <2>1 DEF Steps
<1>4. Sums(f)
  <2>1. \A k \in 0..Len(s) : f[k] = IF k = 0 THEN 0 ELSE f[k - 1] + s[k]
    BY <1>1, <1>3
  <2> QED BY <1>3, <2>1
<1> DEFINE g == CHOOSE h : Sums(h)
<1>5. Sums(g) /\ Demo!Total(s) = g[Len(s)]
  BY <1>4, Zenon DEF Demo!Total
<1> HIDE DEF g, next
<1>6. g[0] = 0 /\ \A k \in 1..Len(s) : g[k] = g[k - 1] + s[k]
  <2>1. \A k \in 0..Len(s) : g[k] = IF k = 0 THEN 0 ELSE g[k - 1] + s[k]
    <3>1. g = [k \in 0..Len(s) |-> IF k = 0 THEN 0 ELSE g[k - 1] + s[k]]
      BY <1>5
    <3> QED BY ONLY <3>1, Zenon
  <2> QED BY ONLY <1>1, <2>1
<1>7. \A i \in 0..Len(s) : g[i] = f[i] /\ f[i] \in Nat
  <2>1. Follows(g, Nat, 0, Len(s), next)
    BY <1>6 DEF Follows, next
  <2> QED BY <1>1, <1>2, <2>1, OnlyTheseSteps
<1> QED BY <1>5, <1>6, <1>7

LEMMA TotalOfNone == Demo!Total(<<>>) = 0
<1>1. PICK f : f[0] = 0 /\ Demo!Total(<<>>) = f[Len(<<>>)]
  BY EmptySeq, TotalSteps
<1> QED BY <1>1, EmptySeq

LEMMA TotalOfMore ==
  ASSUME NEW s \in Seq(Nat), NEW x \in Nat
  PROVE  Demo!Total(s) \in Nat /\ Demo!Total(Append(s, x)) = Demo!Total(s) + x
<1> DEFINE t == Append(s, x)
           m == Len(s)
<1>1. /\ m \in Nat /\ t \in Seq(Nat) /\ Len(t) = m + 1 /\ t[m + 1] = x
      /\ \A k \in 1..m : t[k] = s[k]
  BY LenProperties, AppendProperties
<1> HIDE DEF t
<1>2. PICK f \in [0..m -> Nat] :
         f[0] = 0 /\ (\A k \in 1..m : f[k] = f[k - 1] + s[k]) /\ Demo!Total(s) = f[m]
  BY TotalSteps
<1>3. PICK g \in [0..(m + 1) -> Nat] :
         g[0] = 0 /\ (\A k \in 1..(m + 1) : g[k] = g[k - 1] + t[k]) /\ Demo!Total(t) = g[m + 1]
  BY <1>1, TotalSteps
<1> HIDE DEF m
<1>4. f[m] = g[m]
  <2>1. \A k \in 1..m : f[k - 1] = g[k - 1] => f[k] = g[k]
    BY <1>1, <1>2, <1>3
  <2>2. f[0] = g[0]
    BY <1>2, <1>3
  <2>3. Alike(f, g, m)
    BY <2>1, <2>2 DEF Alike
  <2> QED BY <1>1, <2>3, StepsAgree
<1>5. m + 1 \in 1..(m + 1) /\ (m + 1) - 1 = m /\ m \in 0..m
  BY <1>1
<1> QED BY <1>1, <1>2, <1>3, <1>4, <1>5 DEF t

BytesInv == strVector \in Seq(Nat) /\ nwb \in Int /\ Demo!BytesAreCounted

LEMMA OneCardinality == \A S : Demo!Cardinality(S) = Cardinality(S)
  BY DEF Demo!Cardinality, Cardinality

LEMMA BytesInit == Demo!Init => BytesInv
<1> SUFFICES ASSUME Demo!Init PROVE BytesInv
  OBVIOUS
<1>1. nwb = 0 /\ strVector = <<>> /\ strVector \in Seq(Nat) /\ Len(strVector) = 0
  BY EmptySeq DEF Demo!Init
<1>2. Demo!Total(strVector) = 0
  BY <1>1, TotalOfNone
<1>3. {k \in DOMAIN strVector : strVector[k] = 0} = {}
  BY <1>1
<1> QED BY <1>1, <1>2, <1>3, FS_EmptySet, OneCardinality DEF BytesInv, Demo!BytesAreCounted

(* wb adds a string and its length, and for one that cannot be had only    *)
(* what new allows: none for -1, which is counted.                         *)
LEMMA BytesStep ==
  ASSUME BytesInv, PromptInv, session \in DemoSessions, Demo!Obey
  PROVE  BytesInv'
<1>1. CASE Demo!Wb
  <2> DEFINE a == atoi[cmd[2]]
             x == IF a < 0 THEN 0 ELSE a
             zeros == {k \in DOMAIN strVector : strVector[k] = 0}
             zeros2 == {k \in DOMAIN strVector' : strVector'[k] = 0}
  <2>1. a \in Int
    BY <1>1 DEF Demo!Wb, Demo!Is, PromptInv, Counts
  <2>2. CASE a < -1
    BY <1>1, <2>2 DEF Demo!Wb, Demo!KeepsBytes, BytesInv, Demo!BytesAreCounted
  <2>3. CASE ~(a < -1)
    <3>1. strVector' = Append(strVector, x) /\ nwb' = nwb + a
      BY <1>1, <2>3 DEF Demo!Wb
    <3>2. x \in Nat /\ (x = a \/ (a = -1 /\ x = 0))
      BY <2>1, <2>3
    <3> HIDE DEF x, a
    <3>3. /\ strVector \in Seq(Nat) /\ nwb \in Int
          /\ Demo!Total(strVector) - nwb \in 0..Cardinality(zeros)
      BY OneCardinality DEF BytesInv, Demo!BytesAreCounted
    <3>4. /\ Demo!Total(strVector) \in Nat
          /\ Demo!Total(strVector') = Demo!Total(strVector) + x
      BY <3>1, <3>2, <3>3, TotalOfMore
    <3>5. /\ strVector' \in Seq(Nat) /\ DOMAIN strVector = 1..Len(strVector)
          /\ DOMAIN strVector' = 1..(Len(strVector) + 1) /\ strVector'[Len(strVector) + 1] = x
          /\ \A k \in DOMAIN strVector : strVector'[k] = strVector[k]
          /\ Len(strVector) \in Nat
      BY <3>1, <3>2, <3>3, AppendProperties, LenProperties
    <3>6. IsFiniteSet(zeros) /\ Len(strVector) + 1 \notin zeros
      <4>1. IsFiniteSet(DOMAIN strVector) /\ zeros \subseteq DOMAIN strVector
        BY <3>5, FS_Interval
      <4> QED BY <4>1, <3>5, FS_Subset
    <3>7. zeros2 = IF x = 0 THEN zeros \cup {Len(strVector) + 1} ELSE zeros
      BY <3>5
    <3> HIDE DEF zeros, zeros2
    <3>8. /\ Cardinality(zeros) \in Nat
          /\ Cardinality(zeros2) = IF x = 0 THEN Cardinality(zeros) + 1 ELSE Cardinality(zeros)
      BY <3>6, <3>7, FS_AddElement, FS_CardinalityType
    <3>9. Demo!Total(strVector') - nwb' \in 0..Cardinality(zeros2)
      <4>1. a \in Int /\ nwb \in Int
        BY <2>1, <3>3 DEF a
      <4> QED BY <3>1, <3>2, <3>3, <3>4, <3>8, <4>1
    <3>10. nwb' \in Int
      BY <2>1, <3>1, <3>3 DEF a
    <3> QED BY <3>5, <3>9, <3>10, OneCardinality DEF BytesInv, Demo!BytesAreCounted, zeros2
  <2> QED BY <2>2, <2>3
<1>2. CASE Demo!Fb
  <2>1. nwb' = 0 /\ strVector' = <<>> /\ strVector' \in Seq(Nat) /\ Len(strVector') = 0
    BY <1>2, EmptySeq DEF Demo!Fb
  <2>2. Demo!Total(strVector') = 0
    BY <2>1, TotalOfNone
  <2>3. {k \in DOMAIN strVector' : strVector'[k] = 0} = {}
    BY <2>1
  <2> QED BY <2>1, <2>2, <2>3, FS_EmptySet, OneCardinality DEF BytesInv, Demo!BytesAreCounted
<1>3. ASSUME Demo!Obey, ~Demo!Wb, ~Demo!Fb PROVE nwb' = nwb /\ strVector' = strVector
  BY <1>3 DEF Demo!Obey, Demo!Nwb, Demo!Ss, Demo!As, Demo!Sc, Demo!Rs, Demo!Cs, Demo!ClearMap, Demo!Put,
     Demo!DKey, Demo!Get, Demo!AllMap, Demo!Dqs, Demo!Dqc, Demo!Dqw, Demo!Dqr, Demo!DqrEmpty, Demo!MapTo,
     Demo!DqTo, Demo!KeepsBytes, Demo!demoVars
<1>4. CASE ~Demo!Wb /\ ~Demo!Fb
  BY <1>3, <1>4 DEF BytesInv, Demo!BytesAreCounted
<1> QED BY <1>1, <1>2, <1>4

-----------------------------------------------------------------------------
(* splitStr, without newlines.                                             *)

Lines == Seq(Chars)
None == <<>>

LEMMA NoneIsALine == None \in Lines /\ Len(None) = 0 /\ DOMAIN None = {} /\ \A c : None # Append(None, c)
<1>1. None \in Lines /\ Len(None) = 0
  BY EmptySeq DEF None, Lines
<1>2. DOMAIN None = {}
  BY <1>1, LenProperties DEF Lines
<1>3. ASSUME NEW c PROVE None # Append(None, c)
  <2>1. None \in Seq({c}) /\ c \in {c}
    BY EmptySeq DEF None
  <2> QED BY <2>1, AppendProperties DEF None
<1> QED BY <1>1, <1>2, <1>3

Kept(x, line, newlines, k) == IF line[k] \in newlines THEN x ELSE Append(x, line[k])

LEMMA KeptSteps ==
  ASSUME NEW line \in Lines, NEW newlines
  PROVE  \E f \in [0..Len(line) -> Lines] :
           /\ f[0] = None /\ \A k \in 1..Len(line) : f[k] = Kept(f[k - 1], line, newlines, k)
           /\ Line!Without(line, newlines) = f[Len(line)]
<1> DEFINE Keeps(f) == f = [k \in 0..Len(line) |->
                         IF k = 0 THEN <<>>
                         ELSE IF line[k] \in newlines THEN f[k - 1] ELSE Append(f[k - 1], line[k])]
           next == [k \in 1..Len(line) |-> [x \in Lines |-> Kept(x, line, newlines, k)]]
<1>1. Len(line) \in Nat /\ (\A k \in 1..Len(line) : line[k] \in Chars) /\ None \in Lines
  BY LenProperties, ElementOfSeq, NoneIsALine DEF Lines
<1>2. PICK f : Steps(f, Lines, None, Len(line), next)
  <2>1. ASSUME NEW k \in 1..Len(line), NEW x \in Lines PROVE Kept(x, line, newlines, k) \in Lines
    BY <1>1, AppendProperties DEF Lines, Kept
  <2>2. next \in [1..Len(line) -> [Lines -> Lines]]
    BY <2>1
  <2> HIDE DEF next
  <2> QED BY <1>1, <2>2, StepsExist
<1>3. /\ f[0] = None /\ f \in [0..Len(line) -> Lines]
      /\ \A k \in 1..Len(line) : k - 1 \in 0..Len(line) /\ f[k] = Kept(f[k - 1], line, newlines, k)
  <2>1. \A k \in 1..Len(line) : k - 1 \in 0..Len(line)
    BY <1>1
  <2> QED BY <1>2, <2>1 DEF Steps
<1>4. Keeps(f)
  <2>1. \A k \in 0..Len(line) : f[k] = IF k = 0 THEN None ELSE Kept(f[k - 1], line, newlines, k)
    BY <1>1, <1>3
  <2> QED BY <1>3, <2>1 DEF Kept, None
<1> DEFINE g == CHOOSE h : Keeps(h)
<1>5. Keeps(g) /\ Line!Without(line, newlines) = g[Len(line)]
  BY <1>4, Zenon DEF Line!Without
<1> HIDE DEF g, next
<1>6. g[0] = None /\ \A k \in 1..Len(line) : g[k] = Kept(g[k - 1], line, newlines, k)
  <2>1. g = [k \in 0..Len(line) |-> IF k = 0 THEN None ELSE Kept(g[k - 1], line, newlines, k)]
    BY <1>5, Zenon DEF Kept, None
  <2> QED BY <1>1, <2>1
<1>7. \A i \in 0..Len(line) : g[i] = f[i] /\ f[i] \in Lines
  <2>1. Follows(g, Lines, None, Len(line), next)
    BY <1>6 DEF Follows, next
  <2> QED BY <1>1, <1>2, <2>1, OnlyTheseSteps
<1> QED BY <1>5, <1>6, <1>7

LEMMA WithoutOfMore ==
  ASSUME NEW line \in Lines, NEW c \in Chars, NEW newlines
  PROVE  /\ Line!Without(None, newlines) = None
         /\ Line!Without(line, newlines) \in Lines
         /\ Line!Without(Append(line, c), newlines) =
              IF c \in newlines THEN Line!Without(line, newlines)
              ELSE Append(Line!Without(line, newlines), c)
<1> DEFINE t == Append(line, c)
           m == Len(line)
<1>1. /\ m \in Nat /\ t \in Lines /\ Len(t) = m + 1 /\ t[m + 1] = c
      /\ \A k \in 1..m : t[k] = line[k]
  BY LenProperties, AppendProperties DEF Lines
<1> HIDE DEF t
<1>2. PICK f \in [0..m -> Lines] :
         /\ f[0] = None /\ \A k \in 1..m : f[k] = Kept(f[k - 1], line, newlines, k)
         /\ Line!Without(line, newlines) = f[m]
  BY KeptSteps
<1>3. PICK g \in [0..(m + 1) -> Lines] :
         /\ g[0] = None /\ \A k \in 1..(m + 1) : g[k] = Kept(g[k - 1], t, newlines, k)
         /\ Line!Without(t, newlines) = g[m + 1]
  BY <1>1, KeptSteps
<1> HIDE DEF m
<1>4. f[m] = g[m]
  <2>1. \A k \in 1..m : f[k - 1] = g[k - 1] => f[k] = g[k]
    BY <1>1, <1>2, <1>3 DEF Kept
  <2>2. f[0] = g[0]
    BY <1>2, <1>3
  <2>3. Alike(f, g, m)
    BY <2>1, <2>2 DEF Alike
  <2> QED BY <1>1, <2>3, StepsAgree
<1>5. m + 1 \in 1..(m + 1) /\ (m + 1) - 1 = m /\ m \in 0..m
  BY <1>1
<1>6. Line!Without(None, newlines) = None
  <2>1. PICK h : h[0] = None /\ Line!Without(None, newlines) = h[Len(None)]
    BY NoneIsALine, KeptSteps
  <2> QED BY <2>1, NoneIsALine
<1>7. g[m + 1] = Kept(f[m], t, newlines, m + 1) /\ f[m] \in Lines
  BY <1>2, <1>3, <1>4, <1>5
<1> QED BY <1>1, <1>2, <1>3, <1>6, <1>7 DEF t, Kept

-----------------------------------------------------------------------------
(* Fields.                                                                 *)

Some == {f \in Seq(Lines) : f # None}

Field(f, line, blank, k) ==
  CASE Line!Separates(line, k, blank) -> Append(f, None)
    [] ~Line!Separates(line, k, blank) /\ line[k] = blank -> f
    [] OTHER -> [f EXCEPT ![Len(f)] = Append(@, line[k])]

LEMMA FieldIsSome ==
  ASSUME NEW line \in Lines, NEW blank, NEW k \in 1..Len(line), NEW f \in Some
  PROVE  Field(f, line, blank, k) \in Some
<1>1. f \in Seq(Lines) /\ Len(f) \in 1..Len(f) /\ f # None
  <2>1. Len(f) \in Nat \ {0}
    BY EmptySeq DEF Some, None
  <2> QED BY <2>1 DEF Some
<1>2. Append(f, None) \in Seq(Lines) /\ Append(f, None) # None
  BY <1>1, NoneIsALine, AppendProperties DEF None
<1>3. Append(f[Len(f)], line[k]) \in Lines
  <2>1. f[Len(f)] \in Lines /\ line[k] \in Chars
    BY <1>1, ElementOfSeq DEF Lines
  <2> QED BY <2>1, AppendProperties DEF Lines
<1> DEFINE x == Append(f[Len(f)], line[k])
           g == [f EXCEPT ![Len(f)] = x]
<1>4. g \in Seq(Lines) /\ g # None
  <2>1. g \in Seq(Lines) /\ Len(g) = Len(f)
    <3> HIDE DEF x
    <3> QED BY <1>1, <1>3, ExceptSeq DEF x
  <2> HIDE DEF g
  <2> QED BY <1>1, <2>1, EmptySeq DEF None
<1>5. Field(f, line, blank, k) \in {Append(f, None), f, g}
  BY DEF Field
<1> HIDE DEF g
<1> QED BY <1>1, <1>2, <1>4, <1>5 DEF Some

LEMMA FieldSteps ==
  ASSUME NEW line \in Lines, NEW blank
  PROVE  \E f \in [0..Len(line) -> Some] :
           /\ f[0] = <<None>> /\ \A k \in 1..Len(line) : f[k] = Field(f[k - 1], line, blank, k)
           /\ Line!Fields(line, blank) = f[Len(line)]
<1> DEFINE Reads(read) == read = [k \in 0..Len(line) |->
             IF k = 0 THEN <<<<>>>>
             ELSE LET f == read[k - 1]
                  IN CASE Line!Separates(line, k, blank) -> Append(f, <<>>)
                       [] ~Line!Separates(line, k, blank) /\ line[k] = blank -> f
                       [] OTHER -> [f EXCEPT ![Len(f)] = Append(@, line[k])]]
           next == [k \in 1..Len(line) |-> [x \in Some |-> Field(x, line, blank, k)]]
<1>1. Len(line) \in Nat /\ <<None>> \in Some
  <2>1. <<None>> \in Seq(Lines) /\ <<None>> # None
    BY NoneIsALine DEF None
  <2> QED BY <2>1, LenProperties DEF Lines, Some
<1>2. PICK f : Steps(f, Some, <<None>>, Len(line), next)
  <2>2. next \in [1..Len(line) -> [Some -> Some]]
    BY FieldIsSome
  <2> HIDE DEF next
  <2> QED BY <1>1, <2>2, StepsExist
<1>3. /\ f[0] = <<None>> /\ f \in [0..Len(line) -> Some]
      /\ \A k \in 1..Len(line) : k - 1 \in 0..Len(line) /\ f[k] = Field(f[k - 1], line, blank, k)
  <2>1. \A k \in 1..Len(line) : k - 1 \in 0..Len(line)
    BY <1>1
  <2> QED BY <1>2, <2>1 DEF Steps
<1>4. Reads(f)
  <2>1. \A k \in 0..Len(line) : f[k] = IF k = 0 THEN <<None>> ELSE Field(f[k - 1], line, blank, k)
    BY <1>1, <1>3
  <2> QED BY <1>3, <2>1, Zenon DEF Field, None
<1> DEFINE g == CHOOSE h : Reads(h)
<1>5. Reads(g) /\ Line!Fields(line, blank) = g[Len(line)]
  BY <1>4, Zenon DEF Line!Fields
<1> HIDE DEF g, next
<1>6. g[0] = <<None>> /\ \A k \in 1..Len(line) : g[k] = Field(g[k - 1], line, blank, k)
  <2>1. \A k \in 0..Len(line) :
          g[k] = IF k = 0 THEN <<None>> ELSE Field(g[k - 1], line, blank, k)
    <3>1. g = [k \in 0..Len(line) |->
                 IF k = 0 THEN <<None>> ELSE Field(g[k - 1], line, blank, k)]
      BY <1>5, Zenon DEF Field, None
    <3> QED BY ONLY <3>1, Zenon
  <2> QED BY ONLY <1>1, <2>1
<1>7. \A i \in 0..Len(line) : g[i] = f[i] /\ f[i] \in Some
  <2>1. Follows(g, Some, <<None>>, Len(line), next)
    BY <1>6 DEF Follows, next
  <2> QED BY <1>1, <1>2, <2>1, OnlyTheseSteps
<1> QED BY <1>5, <1>6, <1>7

(* What one more character makes of the fields.                            *)
WithChar(f, c) == [f EXCEPT ![Len(f)] = Append(@, c)]

LEMMA FieldsOfMore ==
  ASSUME NEW line \in Lines, NEW c \in Chars, NEW blank
  PROVE  /\ Line!Fields(None, blank) = <<None>>
         /\ Line!Fields(line, blank) \in Some
         /\ Line!Fields(Append(line, c), blank) =
              IF c # blank THEN WithChar(Line!Fields(line, blank), c)
              ELSE IF line = None \/ line[Len(line)] # blank THEN Append(Line!Fields(line, blank), None)
              ELSE Line!Fields(line, blank)
<1> DEFINE t == Append(line, c)
           m == Len(line)
<1>1. /\ m \in Nat /\ t \in Lines /\ Len(t) = m + 1 /\ t[m + 1] = c
      /\ \A k \in 1..m : t[k] = line[k]
      /\ line = None <=> m = 0
  <2>1. line = None <=> m = 0
    BY EmptySeq DEF None, Lines
  <2> QED BY <2>1, LenProperties, AppendProperties DEF Lines
<1> HIDE DEF t
<1>2. PICK f \in [0..m -> Some] :
         /\ f[0] = <<None>> /\ \A k \in 1..m : f[k] = Field(f[k - 1], line, blank, k)
         /\ Line!Fields(line, blank) = f[m]
  BY FieldSteps
<1>3. PICK g \in [0..(m + 1) -> Some] :
         /\ g[0] = <<None>> /\ \A k \in 1..(m + 1) : g[k] = Field(g[k - 1], t, blank, k)
         /\ Line!Fields(t, blank) = g[m + 1]
  <2>1. \E g \in [0..Len(t) -> Some] :
         /\ g[0] = <<None>> /\ \A k \in 1..Len(t) : g[k] = Field(g[k - 1], t, blank, k)
         /\ Line!Fields(t, blank) = g[Len(t)]
    BY ONLY <1>1, FieldSteps
  <2> QED BY ONLY <1>1, <2>1
<1>4. f[m] = g[m]
  <2>1. ASSUME NEW k \in 1..m, f[k - 1] = g[k - 1] PROVE f[k] = g[k]
    <3>1. Line!Separates(line, k, blank) = Line!Separates(t, k, blank) /\ line[k] = t[k]
      BY <1>1 DEF Line!Separates
    <3>2. Field(f[k - 1], line, blank, k) = Field(g[k - 1], t, blank, k)
      BY <2>1, <3>1 DEF Field
    <3>3. k \in 1..(m + 1)
      BY <1>1
    <3> QED BY <1>2, <1>3, <3>2, <3>3
  <2>2. f[0] = g[0]
    BY <1>2, <1>3
  <2> HIDE DEF m
  <2>3. Alike(f, g, m)
    BY <2>1, <2>2 DEF Alike
  <2> QED BY <1>1, <2>3, StepsAgree
<1> HIDE DEF m
<1>5. m + 1 \in 1..(m + 1) /\ (m + 1) - 1 = m /\ m \in 0..m
  BY <1>1
<1>6. Line!Fields(None, blank) = <<None>>
  <2>1. PICK h : h[0] = <<None>> /\ Line!Fields(None, blank) = h[Len(None)]
    BY NoneIsALine, FieldSteps
  <2> QED BY <2>1, NoneIsALine
<1>7. g[m + 1] = Field(f[m], t, blank, m + 1) /\ f[m] \in Some
  BY <1>2, <1>3, <1>4, <1>5
<1>8. Line!Separates(t, m + 1, blank) <=> c = blank /\ (m = 0 \/ line[m] # blank)
  BY <1>1 DEF Line!Separates
<1>9. Field(f[m], t, blank, m + 1) =
        IF c # blank THEN WithChar(f[m], c)
        ELSE IF m = 0 \/ line[m] # blank THEN Append(f[m], None)
        ELSE f[m]
  BY <1>1, <1>8 DEF Field, WithChar
<1> QED BY <1>1, <1>2, <1>3, <1>6, <1>7, <1>9 DEF t, m

-----------------------------------------------------------------------------
(* vectorToString.                                                         *)

Joint(x, strings, delim, k) ==
  IF k = 1 THEN strings[1] ELSE x \o <<delim>> \o strings[k]

LEMMA JointSteps ==
  ASSUME NEW strings \in Seq(Lines), NEW delim \in Chars
  PROVE  \E f \in [0..Len(strings) -> Lines] :
           /\ f[0] = None /\ \A k \in 1..Len(strings) : f[k] = Joint(f[k - 1], strings, delim, k)
           /\ Line!vectorToString(strings, delim) = f[Len(strings)]
<1> DEFINE Joins(joined) == joined = [k \in 0..Len(strings) |->
             CASE k = 0 -> <<>>
               [] k = 1 -> strings[1]
               [] OTHER -> joined[k - 1] \o <<delim>> \o strings[k]]
           next == [k \in 1..Len(strings) |-> [x \in Lines |-> Joint(x, strings, delim, k)]]
<1>1. Len(strings) \in Nat /\ None \in Lines /\ \A k \in 1..Len(strings) : strings[k] \in Lines
  BY LenProperties, ElementOfSeq, NoneIsALine
<1>2. PICK f : Steps(f, Lines, None, Len(strings), next)
  <2>1. ASSUME NEW k \in 1..Len(strings), NEW x \in Lines PROVE Joint(x, strings, delim, k) \in Lines
    <3>1. <<delim>> \in Lines /\ strings[k] \in Lines /\ (k = 1 => strings[1] \in Lines)
      BY <1>1 DEF Lines
    <3>2. x \o <<delim>> \in Lines
      BY <3>1, ConcatProperties DEF Lines
    <3>3. x \o <<delim>> \o strings[k] \in Lines
      BY <3>1, <3>2, ConcatProperties DEF Lines
    <3> QED BY <3>1, <3>3 DEF Joint
  <2>2. next \in [1..Len(strings) -> [Lines -> Lines]]
    BY <2>1
  <2> HIDE DEF next
  <2> QED BY <1>1, <2>2, StepsExist
<1>3. /\ f[0] = None /\ f \in [0..Len(strings) -> Lines]
      /\ \A k \in 1..Len(strings) :
           k - 1 \in 0..Len(strings) /\ k # 0 /\ f[k] = Joint(f[k - 1], strings, delim, k)
  <2>1. \A k \in 1..Len(strings) : k - 1 \in 0..Len(strings) /\ k # 0
    BY <1>1
  <2> QED BY <1>2, <2>1 DEF Steps
<1>4. Joins(f)
  <2>1. \A k \in 0..Len(strings) : f[k] = CASE k = 0 -> None
                                            [] k = 1 -> strings[1]
                                            [] OTHER -> f[k - 1] \o <<delim>> \o strings[k]
    BY <1>1, <1>3 DEF Joint
  <2> QED BY <1>3, <2>1, Zenon DEF None
<1> DEFINE g == CHOOSE h : Joins(h)
<1>5. Joins(g) /\ Line!vectorToString(strings, delim) = g[Len(strings)]
  BY <1>4, Zenon DEF Line!vectorToString
<1> HIDE DEF g, next
<1>6. g[0] = None /\ \A k \in 1..Len(strings) : g[k] = Joint(g[k - 1], strings, delim, k)
  <2>1. ASSUME NEW k \in 0..Len(strings)
        PROVE  g[k] = CASE k = 0 -> None [] k = 1 -> strings[1]
                        [] OTHER -> g[k - 1] \o <<delim>> \o strings[k]
    BY <1>5 DEF None
  <2> QED BY <1>1, <2>1 DEF Joint
<1>7. \A i \in 0..Len(strings) : g[i] = f[i] /\ f[i] \in Lines
  <2>1. Follows(g, Lines, None, Len(strings), next)
    BY <1>6 DEF Follows, next
  <2> QED BY <1>1, <1>2, <2>1, OnlyTheseSteps
<1> QED BY <1>5, <1>6, <1>7

LEMMA JoinedWithMore ==
  ASSUME NEW strings \in Seq(Lines), NEW w \in Lines, NEW delim \in Chars
  PROVE  /\ Line!vectorToString(strings, delim) \in Lines
         /\ Line!vectorToString(Append(strings, w), delim) =
              IF strings = None THEN w ELSE Line!vectorToString(strings, delim) \o <<delim>> \o w
<1> DEFINE t == Append(strings, w)
           m == Len(strings)
<1>1. /\ m \in Nat /\ t \in Seq(Lines) /\ Len(t) = m + 1 /\ t[m + 1] = w
      /\ \A k \in 1..m : t[k] = strings[k]
      /\ strings = None <=> m = 0
  <2>1. strings = None <=> m = 0
    BY EmptySeq DEF None
  <2> QED BY <2>1, LenProperties, AppendProperties
<1> HIDE DEF t
<1>2. PICK f \in [0..m -> Lines] :
         /\ f[0] = None /\ \A k \in 1..m : f[k] = Joint(f[k - 1], strings, delim, k)
         /\ Line!vectorToString(strings, delim) = f[m]
  BY JointSteps
<1>3. PICK g \in [0..(m + 1) -> Lines] :
         /\ g[0] = None /\ \A k \in 1..(m + 1) : g[k] = Joint(g[k - 1], t, delim, k)
         /\ Line!vectorToString(t, delim) = g[m + 1]
  BY <1>1, JointSteps
<1>4. f[m] = g[m]
  <2>1. ASSUME NEW k \in 1..m, f[k - 1] = g[k - 1] PROVE f[k] = g[k]
    <3>1. strings[k] = t[k] /\ strings[1] = t[1]
      BY <1>1
    <3>2. Joint(f[k - 1], strings, delim, k) = Joint(g[k - 1], t, delim, k)
      BY <2>1, <3>1 DEF Joint
    <3>3. k \in 1..(m + 1)
      BY <1>1
    <3> QED BY <1>2, <1>3, <3>2, <3>3
  <2>2. f[0] = g[0]
    BY <1>2, <1>3
  <2> HIDE DEF m
  <2>3. Alike(f, g, m)
    BY <2>1, <2>2 DEF Alike
  <2> QED BY <1>1, <2>3, StepsAgree
<1> HIDE DEF m
<1>5. m + 1 \in 1..(m + 1) /\ (m + 1) - 1 = m /\ m \in 0..m /\ (m + 1 = 1 <=> m = 0)
  BY <1>1
<1>6. g[m + 1] = Joint(f[m], t, delim, m + 1) /\ f[m] \in Lines
  BY <1>2, <1>3, <1>4, <1>5
<1>7. Joint(f[m], t, delim, m + 1) = IF m = 0 THEN w ELSE f[m] \o <<delim>> \o w
  BY <1>1, <1>5 DEF Joint
<1> QED BY <1>1, <1>2, <1>3, <1>6, <1>7 DEF t

-----------------------------------------------------------------------------
(* Words and runs.                                                         *)

(* w is what x ends in since the last delimiter.                           *)
Ending(w, x, D) ==
  /\ Len(w) <= Len(x)
  /\ \A k \in 1..Len(w) : w[k] = x[Len(x) - Len(w) + k] /\ w[k] \notin D
  /\ Len(w) = Len(x) \/ x[Len(x) - Len(w)] \in D

(* Where in the line the words are.                                        *)
Locates(at, f, x, D) ==
  /\ at \in [Line!NotEmpty(f) -> Line!Runs(x, D)]
  /\ \A k \in Line!NotEmpty(f) : f[k] = SubSeq(x, at[k][1], at[k][2])
  /\ \A i, k \in Line!NotEmpty(f) : i < k => at[i][2] < at[k][1]
  /\ \A r \in Line!Runs(x, D) : \E k \in Line!NotEmpty(f) : at[k] = r

(* f are the words of x, in order, some of them empty; the last is what x  *)
(* ends in, and may go on.                                                 *)
Splits(f, x, D) ==
  /\ f \in Some /\ x \in Lines
  /\ Line!HasTheWords(f, x, D)
  /\ Ending(f[Len(f)], x, D)

LEMMA HasPlaces ==
  ASSUME NEW f, NEW x, NEW D
  PROVE  Line!HasTheWords(f, x, D) <=> \E at : Locates(at, f, x, D)
  BY DEF Line!HasTheWords, Locates

LEMMA LineFacts ==
  ASSUME NEW x \in Lines
  PROVE  /\ Len(x) \in Nat /\ DOMAIN x = 1..Len(x) /\ \A k \in 1..Len(x) : x[k] \in Chars
         /\ x = None <=> Len(x) = 0
  BY LenProperties, ElementOfSeq, EmptySeq DEF Lines, None

LEMMA SomeFacts ==
  ASSUME NEW f \in Some
  PROVE  /\ f \in Seq(Lines) /\ Len(f) \in Nat \ {0} /\ DOMAIN f = 1..Len(f)
         /\ \A k \in 1..Len(f) : f[k] \in Lines
         /\ f[Len(f)] \in Lines
<1>1. f \in Seq(Lines) /\ Len(f) \in Nat \ {0} /\ DOMAIN f = 1..Len(f)
  BY LenProperties, EmptySeq DEF Some, None
<1> QED BY <1>1, ElementOfSeq

LEMMA AppendFacts ==
  ASSUME NEW x \in Lines, NEW c \in Chars
  PROVE  /\ Append(x, c) \in Lines /\ Len(Append(x, c)) = Len(x) + 1
         /\ \A k \in 1..Len(x) : Append(x, c)[k] = x[k]
         /\ Append(x, c)[Len(x) + 1] = c
  BY AppendProperties DEF Lines

LEMMA SameParts ==
  ASSUME NEW x \in Lines, NEW y \in Lines, NEW a \in Nat, NEW b \in Nat,
         a >= 1, b <= Len(x), b <= Len(y), \A k \in a..b : x[k] = y[k]
  PROVE  SubSeq(x, a, b) = SubSeq(y, a, b)
<1> DEFINE p == SubSeq(x, a, b)
           q == SubSeq(y, a, b)
           size == IF a <= b THEN b - a + 1 ELSE 0
<1>1. \A k \in a..b : x[k] \in Chars /\ y[k] \in Chars
  BY LineFacts
<1>2. /\ p \in Seq(Chars) /\ Len(p) = size /\ \A k \in 1..(b - a + 1) : p[k] = x[a + k - 1]
      /\ q \in Seq(Chars) /\ Len(q) = size /\ \A k \in 1..(b - a + 1) : q[k] = y[a + k - 1]
  BY <1>1, SubSeqProperties
<1> HIDE DEF p, q
<1>3. \A k \in 1..Len(p) : p[k] = q[k]
  <2>1. ASSUME NEW k \in 1..Len(p) PROVE p[k] = q[k]
    <3>1. k \in 1..(b - a + 1) /\ a + k - 1 \in a..b
      BY <1>2
    <3> QED BY <1>2, <3>1
  <2> QED BY <2>1
<1>4. p = q
  BY <1>2, <1>3, SeqEqual
<1> QED BY <1>4 DEF p, q

LEMMA WordAtEnd ==
  ASSUME NEW x \in Lines, NEW w \in Lines, NEW D, Ending(w, x, D)
  PROVE  w = SubSeq(x, Len(x) - Len(w) + 1, Len(x))
<1> DEFINE m == Len(x)
           z == Len(w)
           a == m - z + 1
           p == SubSeq(x, a, m)
<1>1. m \in Nat /\ z \in Nat /\ z <= m /\ \A k \in 1..z : w[k] = x[m - z + k]
  BY LineFacts DEF Ending
<1>2. \A k \in 1..m : x[k] \in Chars
  BY LineFacts
<1> HIDE DEF m, z
<1>3. a \in Int /\ m \in Int /\ (\A k \in a..m : x[k] \in Chars) /\ m - a + 1 = z /\ (IF a <= m THEN m - a + 1 ELSE 0) = z
  BY <1>1, <1>2
<1>4. p \in Seq(Chars) /\ Len(p) = z /\ \A k \in 1..z : p[k] = x[a + k - 1]
  <2> HIDE DEF a
  <2>1. /\ p \in Seq(Chars) /\ Len(p) = (IF a <= m THEN m - a + 1 ELSE 0)
        /\ \A k \in 1..(m - a + 1) : p[k] = x[a + k - 1]
    BY <1>3, SubSeqProperties
  <2> QED BY ONLY <1>3, <2>1
<1> HIDE DEF p
<1>5. \A k \in 1..z : p[k] = w[k]
  <2>1. ASSUME NEW k \in 1..z PROVE p[k] = w[k]
    <3>1. a + k - 1 = m - z + k
      BY <1>1
    <3> QED BY <1>1, <1>4, <3>1
  <2> QED BY <2>1
<1>6. w = p
  <2>1. w \in Seq(Chars) /\ Len(w) = z
    BY DEF Lines, z
  <2> QED BY <1>4, <1>5, <2>1, SeqEqual
<1> QED BY <1>6 DEF p, m, z

LEMMA SplitsNone == ASSUME NEW D PROVE Splits(<<None>>, None, D)
<1> DEFINE f == <<None>>
<1>1. f \in Some /\ Len(f) = 1 /\ f[1] = None /\ DOMAIN f = {1} /\ None \in Lines /\ Len(None) = 0
  <2>1. f \in Seq(Lines) /\ f # <<>> /\ Len(f) = 1 /\ f[1] = None /\ DOMAIN f = {1}
    BY NoneIsALine
  <2> QED BY <2>1, NoneIsALine DEF Some, None
<1> HIDE DEF f
<1>2. Line!NotEmpty(f) = {} /\ Line!Runs(None, D) = {}
  BY <1>1 DEF Line!NotEmpty, Line!Runs, None
<1>3. Locates([k \in {} |-> <<1, 1>>], f, None, D)
  BY <1>2 DEF Locates
<1>4. Ending(f[Len(f)], None, D)
  BY <1>1 DEF Ending
<1> QED BY <1>1, <1>3, <1>4, HasPlaces DEF Splits, f

LEMMA RunsAfterDelim ==
  ASSUME NEW x \in Lines, NEW D, NEW c \in Chars, c \in D
  PROVE  Line!Runs(Append(x, c), D) = Line!Runs(x, D)
<1> DEFINE y == Append(x, c)
           m == Len(x)
<1>1. m \in Nat /\ Len(y) = m + 1 /\ y[m + 1] = c /\ \A k \in 1..m : y[k] = x[k]
  BY AppendFacts, LineFacts
<1> HIDE DEF y
<1>2. ASSUME NEW r \in Line!Runs(y, D) PROVE r \in Line!Runs(x, D)
  <2>1. /\ r \in (1..(m + 1)) \X (1..(m + 1)) /\ r[1] <= r[2]
        /\ \A k \in r[1]..r[2] : y[k] \notin D
        /\ r[1] = 1 \/ y[r[1] - 1] \in D
        /\ r[2] = m + 1 \/ y[r[2] + 1] \in D
    BY <1>1 DEF Line!Runs
  <2>2. r[2] # m + 1
    <3>1. r[2] = m + 1 => m + 1 \in r[1]..r[2]
      BY <1>1, <2>1
    <3> QED BY <1>1, <2>1, <3>1
  <2>3. r \in (1..m) \X (1..m)
    BY <1>1, <2>1, <2>2
  <2>4. \A k \in r[1]..r[2] : x[k] = y[k]
    BY <1>1, <2>3
  <2>5. (r[1] = 1 \/ x[r[1] - 1] \in D) /\ (r[2] = m \/ x[r[2] + 1] \in D)
    BY <1>1, <2>1, <2>3
  <2> QED BY <2>1, <2>3, <2>4, <2>5 DEF Line!Runs
<1>3. ASSUME NEW r \in Line!Runs(x, D) PROVE r \in Line!Runs(y, D)
  <2>1. /\ r \in (1..m) \X (1..m) /\ r[1] <= r[2]
        /\ \A k \in r[1]..r[2] : x[k] \notin D
        /\ r[1] = 1 \/ x[r[1] - 1] \in D
        /\ r[2] = m \/ x[r[2] + 1] \in D
    BY DEF Line!Runs
  <2>2. \A k \in r[1]..r[2] : x[k] = y[k]
    BY <1>1, <2>1
  <2>3. (r[1] = 1 \/ y[r[1] - 1] \in D) /\ y[r[2] + 1] \in D
    <3>1. r[1] \in 1..m /\ r[2] \in 1..m
      BY <2>1
    <3>2. r[1] = 1 \/ (r[1] - 1 \in 1..m /\ x[r[1] - 1] \in D)
      BY <1>1, <2>1, <3>1
    <3>3. r[2] = m \/ (r[2] + 1 \in 1..m /\ x[r[2] + 1] \in D)
      BY <1>1, <2>1, <3>1
    <3> QED BY <1>1, <3>2, <3>3
  <2>4. r \in (1..(m + 1)) \X (1..(m + 1))
    BY <1>1, <2>1
  <2> QED BY <1>1, <2>1, <2>2, <2>3, <2>4 DEF Line!Runs
<1> QED BY <1>2, <1>3 DEF y

LEMMA SplitsDelim ==
  ASSUME NEW f, NEW x, NEW D, Splits(f, x, D), NEW c \in Chars, c \in D
  PROVE  /\ Splits(Append(f, None), Append(x, c), D)
         /\ f[Len(f)] = None => Splits(f, Append(x, c), D)
<1> DEFINE y == Append(x, c)
           g == Append(f, None)
           m == Len(x)
<1>1. f \in Some /\ x \in Lines
  BY DEF Splits
<1>2. m \in Nat /\ y \in Lines /\ Len(y) = m + 1 /\ y[m + 1] = c /\ \A k \in 1..m : y[k] = x[k]
  BY <1>1, AppendFacts, LineFacts
<1>3. /\ f \in Seq(Lines) /\ Len(f) \in Nat \ {0} /\ DOMAIN f = 1..Len(f)
      /\ g \in Seq(Lines) /\ Len(g) = Len(f) + 1 /\ DOMAIN g = 1..Len(g)
      /\ g[Len(g)] = None /\ \A k \in 1..Len(f) : g[k] = f[k]
  <2>1. f \in Seq(Lines) /\ Len(f) \in Nat \ {0} /\ DOMAIN f = 1..Len(f)
    BY <1>1, SomeFacts
  <2>2. /\ g \in Seq(Lines) /\ Len(g) = Len(f) + 1
        /\ \A k \in 1..Len(f) : g[k] = f[k]
    BY <2>1, NoneIsALine, AppendProperties
  <2>3. g[Len(f) + 1] = None
    BY <2>1, NoneIsALine, AppendProperties
  <2> HIDE DEF g
  <2> QED BY <2>1, <2>2, <2>3, LenProperties
<1> HIDE DEF g
<1>4. Line!NotEmpty(g) = Line!NotEmpty(f) /\ Line!NotEmpty(f) \subseteq 1..Len(f)
  BY <1>3 DEF Line!NotEmpty, None
<1>5. Line!Runs(y, D) = Line!Runs(x, D)
  BY <1>1, RunsAfterDelim
<1> HIDE DEF y
<1>6. PICK at : Locates(at, f, x, D)
  BY HasPlaces DEF Splits
<1>7. ASSUME NEW k \in Line!NotEmpty(f)
      PROVE  f[k] = SubSeq(y, at[k][1], at[k][2]) /\ g[k] = f[k]
  <2>1. at[k] \in (1..m) \X (1..m)
    BY <1>6 DEF Locates, Line!Runs
  <2>2. SubSeq(x, at[k][1], at[k][2]) = SubSeq(y, at[k][1], at[k][2])
    <3> DEFINE a == at[k][1]
               b == at[k][2]
    <3>1. a \in Nat /\ b \in Nat /\ a >= 1 /\ b <= m /\ b <= Len(y) /\ \A i \in a..b : x[i] = y[i]
      BY <1>2, <2>1
    <3> HIDE DEF a, b
    <3>2. SubSeq(x, a, b) = SubSeq(y, a, b)
      BY <1>1, <1>2, <3>1, SameParts
    <3> QED BY <3>2 DEF a, b
  <2>3. f[k] = SubSeq(x, at[k][1], at[k][2])
    BY <1>6 DEF Locates
  <2> QED BY <1>3, <1>4, <2>2, <2>3
<1>8. Locates(at, f, y, D) /\ Locates(at, g, y, D)
  BY <1>4, <1>5, <1>6, <1>7 DEF Locates
<1>9. g \in Some /\ g[Len(g)] = None
  BY <1>3, NoneIsALine, EmptySeq DEF Some, None
<1>10. Ending(None, y, D)
  BY <1>2, NoneIsALine DEF Ending
<1>11. Splits(g, y, D)
  BY <1>2, <1>8, <1>9, <1>10, HasPlaces DEF Splits
<1>12. f[Len(f)] = None => Splits(f, y, D)
  BY <1>1, <1>2, <1>8, <1>10, HasPlaces DEF Splits
<1> QED BY <1>11, <1>12 DEF y, g

(* A character that is no delimiter makes the last word, or a new one.     *)
LEMMA RunsAfterChar ==
  ASSUME NEW x \in Lines, NEW D, NEW w, Ending(w, x, D), Len(w) \in Nat, NEW c \in Chars, c \notin D
  PROVE  LET a == Len(x) - Len(w) + 1
             z == Len(x) + 1
         IN  /\ a \in 1..z /\ <<a, z>> \in Line!Runs(Append(x, c), D)
             /\ Len(w) > 0 => <<a, Len(x)>> \in Line!Runs(x, D)
             /\ \A r \in Line!Runs(x, D) : r[2] < a => r \in Line!Runs(Append(x, c), D)
             /\ \A r \in Line!Runs(Append(x, c), D) :
                  r = <<a, z>> \/ (r \in Line!Runs(x, D) /\ r[2] < Len(x))
<1> DEFINE y == Append(x, c)
           m == Len(x)
           a == Len(x) - Len(w) + 1
           z == Len(x) + 1
<1>1. m \in Nat /\ Len(y) = z /\ z = m + 1 /\ y[z] = c /\ \A k \in 1..m : y[k] = x[k]
  BY AppendFacts, LineFacts
<1>2. /\ a \in 1..z /\ (a = 1 \/ x[a - 1] \in D) /\ (Len(w) > 0 => a <= m)
      /\ \A k \in a..m : x[k] \notin D
  <2>1. Len(w) <= m /\ (Len(w) = m \/ x[m - Len(w)] \in D)
    BY DEF Ending
  <2>2. ASSUME NEW k \in a..m PROVE x[k] \notin D
    <3>1. k - a + 1 \in 1..Len(w) /\ m - Len(w) + (k - a + 1) = k
      BY <1>1
    <3> QED BY <3>1 DEF Ending
  <2>3. a - 1 = m - Len(w)
    BY <1>1
  <2> QED BY <1>1, <2>1, <2>2, <2>3
<1> HIDE DEF y, a, m, z
<1>3. <<a, z>> \in Line!Runs(y, D)
  <2>1. a <= z /\ \A k \in a..z : y[k] \notin D
    BY <1>1, <1>2
  <2>2. a = 1 \/ y[a - 1] \in D
    BY <1>1, <1>2
  <2> QED BY <1>1, <1>2, <2>1, <2>2 DEF Line!Runs
<1>4. Len(w) > 0 => <<a, m>> \in Line!Runs(x, D)
  BY <1>1, <1>2 DEF Line!Runs, m
<1>5. ASSUME NEW r \in Line!Runs(x, D), r[2] < a PROVE r \in Line!Runs(y, D)
  <2>1. /\ r \in (1..m) \X (1..m) /\ r[1] <= r[2]
        /\ \A k \in r[1]..r[2] : x[k] \notin D
        /\ r[1] = 1 \/ x[r[1] - 1] \in D
        /\ r[2] = m \/ x[r[2] + 1] \in D
    BY DEF Line!Runs, m
  <2>2. r[2] + 1 \in 1..m /\ x[r[2] + 1] \in D
    <3>1. r[2] = m => a = z /\ a = m + 1
      BY <1>1, <1>2, <1>5
    <3>2. CASE r[2] # m
      BY <1>1, <2>1, <3>2
    <3>3. CASE r[2] = m
      <4>1. a - 1 = m /\ a # 1 /\ m \in r[1]..r[2]
        BY <1>1, <2>1, <3>1, <3>3
      <4>2. x[m] \in D
        BY <1>2, <4>1
      <4> QED BY <2>1, <4>1, <4>2
    <3> QED BY <3>2, <3>3
  <2>3. \A k \in r[1]..r[2] : y[k] = x[k]
    BY <1>1, <2>1
  <2>4. (r[1] = 1 \/ y[r[1] - 1] \in D) /\ y[r[2] + 1] \in D
    BY <1>1, <2>1, <2>2
  <2>5. r \in (1..z) \X (1..z)
    BY <1>1, <2>1
  <2> QED BY <1>1, <2>1, <2>3, <2>4, <2>5 DEF Line!Runs
<1>6. ASSUME NEW r \in Line!Runs(y, D), r # <<a, z>>
      PROVE  r \in Line!Runs(x, D) /\ r[2] < m
  <2>1. /\ r \in (1..z) \X (1..z) /\ r[1] <= r[2]
        /\ \A k \in r[1]..r[2] : y[k] \notin D
        /\ r[1] = 1 \/ y[r[1] - 1] \in D
        /\ r[2] = z \/ y[r[2] + 1] \in D
    BY <1>1 DEF Line!Runs
  <2>2. r[2] # z
    <3>1. SUFFICES ASSUME r[2] = z PROVE FALSE
      OBVIOUS
    <3>2. r[1] # a /\ r[1] \in 1..z
      BY <1>6, <2>1, <3>1
    <3>3. CASE r[1] < a
      <4>1. a - 1 \in r[1]..r[2] /\ a - 1 \in 1..m /\ a # 1
        BY <1>1, <1>2, <2>1, <3>1, <3>3
      <4>2. y[a - 1] \in D
        BY <1>1, <1>2, <4>1
      <4> QED BY <2>1, <4>1, <4>2
    <3>4. CASE r[1] > a
      <4>1. r[1] - 1 \in a..m /\ r[1] - 1 \in 1..m /\ r[1] # 1
        BY <1>1, <1>2, <3>2, <3>4
      <4>2. y[r[1] - 1] \notin D
        BY <1>1, <1>2, <4>1
      <4> QED BY <2>1, <4>1, <4>2
    <3> QED BY <1>1, <1>2, <3>2, <3>3, <3>4
  <2>3. r[2] # m
    <3>1. SUFFICES ASSUME r[2] = m PROVE FALSE
      OBVIOUS
    <3>2. r[2] + 1 = z
      BY <1>1, <3>1
    <3> QED BY <1>1, <2>1, <2>2, <3>2
  <2>4. r[1] \in 1..m /\ r[2] \in 1..m /\ r[2] < m /\ r \in (1..m) \X (1..m)
    BY <1>1, <2>1, <2>2, <2>3
  <2>5. \A k \in r[1]..r[2] : x[k] \notin D
    BY <1>1, <2>1, <2>4
  <2>6. (r[1] = 1 \/ x[r[1] - 1] \in D) /\ x[r[2] + 1] \in D
    BY <1>1, <2>1, <2>2, <2>4
  <2> QED BY <2>1, <2>4, <2>5, <2>6 DEF Line!Runs, m
<1> QED BY <1>2, <1>3, <1>4, <1>5, <1>6 DEF y, a, m, z

LEMMA SplitsChar ==
  ASSUME NEW f, NEW x, NEW D, Splits(f, x, D), NEW c \in Chars, c \notin D
  PROVE  Splits(WithChar(f, c), Append(x, c), D)
<1> DEFINE y == Append(x, c)
           m == Len(x)
           z == Len(x) + 1
           last == Len(f)
           w == f[last]
           v == Append(w, c)
           g == WithChar(f, c)
           a == Len(x) - Len(w) + 1
<1>1. f \in Some /\ x \in Lines /\ Ending(w, x, D)
  BY DEF Splits
<1>2. m \in Nat /\ y \in Lines /\ Len(y) = m + 1 /\ z = m + 1 /\ y[m + 1] = c /\ \A k \in 1..m : y[k] = x[k]
  BY <1>1, AppendFacts, LineFacts
<1>3. /\ f \in Seq(Lines) /\ last \in Nat \ {0} /\ DOMAIN f = 1..last /\ w \in Lines
  BY <1>1, SomeFacts
<1>4. v \in Lines /\ Len(v) = Len(w) + 1 /\ v # None /\ Len(w) \in Nat /\ (w # None => Len(w) > 0)
  <2>1. w \in Lines
    BY <1>3
  <2> HIDE DEF w
  <2>2. Append(w, c) \in Lines /\ Len(Append(w, c)) = Len(w) + 1
    BY <2>1, AppendFacts
  <2>3. Len(w) \in Nat /\ (w = None <=> Len(w) = 0)
    BY <2>1, LineFacts
  <2> HIDE DEF v
  <2>4. v \in Lines /\ Len(v) = Len(w) + 1
    BY <2>2 DEF v
  <2>5. v # None
    BY <2>3, <2>4, NoneIsALine
  <2> QED BY <2>3, <2>4, <2>5
<1>5. /\ g \in Seq(Lines) /\ Len(g) = last /\ DOMAIN g = 1..last /\ g[last] = v
      /\ \A k \in 1..last : k # last => g[k] = f[k]
  <2>1. g = [f EXCEPT ![last] = v]
    BY DEF WithChar
  <2> HIDE DEF g, v, last
  <2>2. last \in 1..Len(f)
    BY <1>3 DEF last
  <2>3. g \in Seq(Lines) /\ Len(g) = Len(f) /\ \A k \in 1..Len(f) : g[k] = IF k = last THEN v ELSE f[k]
    BY <1>3, <1>4, <2>1, <2>2, ExceptSeq
  <2>4. Len(f) = last
    BY DEF last
  <2> QED BY <1>3, <2>3, <2>4, LenProperties
<1>6. /\ a \in 1..z /\ <<a, z>> \in Line!Runs(y, D)
      /\ Len(w) > 0 => <<a, m>> \in Line!Runs(x, D)
      /\ \A r \in Line!Runs(x, D) : r[2] < a => r \in Line!Runs(y, D)
      /\ \A r \in Line!Runs(y, D) : r = <<a, z>> \/ (r \in Line!Runs(x, D) /\ r[2] < m)
  BY <1>1, <1>4, RunsAfterChar
<1>7. Ending(v, y, D)
  <2>1. Len(w) <= m /\ (Len(w) = m \/ x[m - Len(w)] \in D)
        /\ \A k \in 1..Len(w) : w[k] = x[m - Len(w) + k] /\ w[k] \notin D
    BY <1>1 DEF Ending
  <2>2. v[Len(w) + 1] = c /\ \A k \in 1..Len(w) : v[k] = w[k]
    BY <1>3, AppendFacts
  <2> DEFINE s == Len(w)
  <2>3. s \in Nat
    BY <1>4
  <2> HIDE DEF v, w, y, m, s
  <2>4. ASSUME NEW k \in 1..(s + 1) PROVE v[k] = y[(m + 1) - (s + 1) + k] /\ v[k] \notin D
    <3>1. (m + 1) - (s + 1) + k = m - s + k
      BY <1>2, <2>3
    <3>2. CASE k = s + 1
      <4>1. m - s + k = m + 1
        BY <1>2, <2>3, <3>2
      <4> QED BY <1>2, <2>2, <3>1, <3>2, <4>1 DEF s
    <3>3. CASE k \in 1..s
      <4>1. m - s + k \in 1..m
        BY <1>2, <2>1, <2>3, <3>3 DEF s
      <4> QED BY <1>2, <2>1, <2>2, <3>1, <3>3, <4>1 DEF s
    <3> QED BY <2>3, <3>2, <3>3
  <2>5. s + 1 <= m + 1 /\ (s + 1 = m + 1 \/ y[(m + 1) - (s + 1)] \in D)
    <3>1. (m + 1) - (s + 1) = m - s
      BY <1>2, <2>3
    <3>2. s # m => m - s \in 1..m
      BY <1>2, <2>1, <2>3 DEF s
    <3> QED BY <1>2, <2>1, <2>3, <3>1, <3>2 DEF s
  <2>6. Len(v) = s + 1
    BY <1>4 DEF s
  <2> QED BY <1>2, <2>4, <2>5, <2>6 DEF Ending
<1>8. v = SubSeq(y, a, z)
  <2>1. v = SubSeq(y, Len(y) - Len(v) + 1, Len(y))
    BY <1>2, <1>4, <1>7, WordAtEnd
  <2>2. Len(y) - Len(v) + 1 = a /\ Len(y) = z
    BY <1>2, <1>4
  <2> QED BY <2>1, <2>2
<1>9. PICK at : Locates(at, f, x, D)
  BY HasPlaces DEF Splits
<1> HIDE DEF v, w, y, g, a, m, z, last
<1>10. /\ Line!NotEmpty(f) = {k \in 1..last : f[k] # None}
       /\ Line!NotEmpty(g) = Line!NotEmpty(f) \cup {last}
  <2>1. Line!NotEmpty(f) = {k \in 1..last : f[k] # None} /\ Line!NotEmpty(g) = {k \in 1..last : g[k] # None}
    BY <1>3, <1>5 DEF Line!NotEmpty, None
  <2>2. last \in 1..last
    BY <1>3
  <2> QED BY <1>4, <1>5, <2>1, <2>2
<1>11. \A k \in Line!NotEmpty(f) : at[k] \in (1..m) \X (1..m) /\ at[k][1] <= at[k][2] /\ at[k] \in Line!Runs(x, D)
  BY <1>9 DEF Locates, Line!Runs, m
<1>12. last \in Line!NotEmpty(f) => at[last] = <<a, m>>
  <2>1. SUFFICES ASSUME last \in Line!NotEmpty(f) PROVE at[last] = <<a, m>>
    OBVIOUS
  <2>2. <<a, m>> \in Line!Runs(x, D)
    BY <1>4, <1>6, <1>10, <2>1 DEF w
  <2>3. PICK k \in Line!NotEmpty(f) : at[k] = <<a, m>>
    BY <1>9, <2>2 DEF Locates
  <2>4. k \in 1..last
    BY <1>10
  <2>5. ~(k < last)
    <3>1. k < last => at[k][2] < at[last][1]
      BY <1>9, <2>1 DEF Locates
    <3>2. at[k][2] = m /\ at[last][1] <= m /\ at[last][1] \in Nat
      BY <1>11, <2>1, <2>3
    <3> QED BY <1>2, <3>1, <3>2
  <2> QED BY <1>3, <2>3, <2>4, <2>5
<1>13. ASSUME NEW k \in Line!NotEmpty(f), k # last PROVE at[k][2] < a /\ k < last
  <2>1. k \in 1..last /\ k < last
    BY <1>3, <1>10, <1>13
  <2>2. CASE last \in Line!NotEmpty(f)
    <3>1. at[k][2] < at[last][1]
      BY <1>9, <2>1, <2>2 DEF Locates
    <3> QED BY <1>12, <2>1, <2>2, <3>1
  <2>3. CASE last \notin Line!NotEmpty(f)
    <3>1. w = None
      BY <1>3, <1>10, <2>3 DEF w
    <3>2. a = m + 1
      BY <1>2, <3>1, NoneIsALine DEF a, m
    <3>3. at[k][2] \in 1..m
      BY <1>11
    <3> QED BY <1>2, <2>1, <3>2, <3>3
  <2> QED BY <2>2, <2>3
<1> DEFINE h == [k \in Line!NotEmpty(g) |-> IF k = last THEN <<a, z>> ELSE at[k]]
<1>14. /\ h[last] = <<a, z>> /\ \A k \in Line!NotEmpty(f) : k # last => h[k] = at[k]
       /\ DOMAIN h = Line!NotEmpty(g) /\ h = [k \in Line!NotEmpty(g) |-> h[k]]
  BY <1>10
<1> HIDE DEF h
<1>15. ASSUME NEW k \in Line!NotEmpty(g)
       PROVE  h[k] \in Line!Runs(y, D) /\ g[k] = SubSeq(y, h[k][1], h[k][2])
  <2>1. CASE k = last
    BY <1>5, <1>6, <1>8, <1>14, <2>1
  <2>2. CASE k # last
    <3>1. k \in Line!NotEmpty(f) /\ k \in 1..last
      BY <1>10, <2>2
    <3>2. h[k] = at[k] /\ h[k] \in Line!Runs(y, D)
      BY <1>6, <1>11, <1>13, <1>14, <2>2, <3>1
    <3>3. SubSeq(x, at[k][1], at[k][2]) = SubSeq(y, at[k][1], at[k][2])
      <4> DEFINE b == at[k][1]
                 e == at[k][2]
      <4>1. b \in Nat /\ e \in Nat /\ b >= 1 /\ e <= m /\ e <= Len(y) /\ \A i \in b..e : x[i] = y[i]
        BY <1>2, <1>11, <3>1
      <4> HIDE DEF b, e
      <4>2. SubSeq(x, b, e) = SubSeq(y, b, e)
        BY <1>1, <1>2, <4>1, SameParts DEF m
      <4> QED BY <4>2 DEF b, e
    <3>4. f[k] = SubSeq(x, at[k][1], at[k][2])
      BY <1>9, <3>1 DEF Locates
    <3> QED BY <1>5, <2>2, <3>1, <3>2, <3>3, <3>4
  <2> QED BY <2>1, <2>2
<1>16. ASSUME NEW i \in Line!NotEmpty(g), NEW k \in Line!NotEmpty(g), i < k
       PROVE  h[i][2] < h[k][1]
  <2>1. i \in 1..last /\ k \in 1..last /\ i # last
    BY <1>3, <1>10, <1>16
  <2>2. i \in Line!NotEmpty(f) /\ h[i] = at[i] /\ at[i][2] < a
    BY <1>10, <1>13, <1>14, <2>1
  <2>3. CASE k = last
    BY <1>14, <2>2, <2>3
  <2>4. CASE k # last
    <3>1. k \in Line!NotEmpty(f) /\ h[k] = at[k]
      BY <1>10, <1>14, <2>4
    <3> QED BY <1>9, <1>16, <2>2, <3>1 DEF Locates
  <2> QED BY <2>3, <2>4
<1>17. ASSUME NEW r \in Line!Runs(y, D) PROVE \E k \in Line!NotEmpty(g) : h[k] = r
  <2>1. CASE r = <<a, z>>
    BY <1>10, <1>14, <2>1
  <2>2. CASE r # <<a, z>>
    <3>1. r \in Line!Runs(x, D) /\ r[2] < m
      BY <1>6, <2>2
    <3>2. PICK k \in Line!NotEmpty(f) : at[k] = r
      BY <1>9, <3>1 DEF Locates
    <3>3. k # last
      BY <1>2, <1>12, <3>1, <3>2
    <3> QED BY <1>10, <1>14, <3>2, <3>3
  <2> QED BY <2>1, <2>2
<1>18. Locates(h, g, y, D)
  <2>1. h \in [Line!NotEmpty(g) -> Line!Runs(y, D)]
    BY <1>14, <1>15
  <2> QED BY <1>15, <1>16, <1>17, <2>1 DEF Locates
<1>19. g \in Some /\ g[Len(g)] = v
  BY <1>3, <1>5, EmptySeq DEF Some, None
<1> QED BY <1>2, <1>7, <1>18, <1>19, HasPlaces DEF Splits, g, y

-----------------------------------------------------------------------------
(* What splitStr finds.                                                    *)

LEMMA LastField ==
  ASSUME NEW f, NEW x, NEW D, Splits(f, x, D)
  PROVE  f[Len(f)] = None <=> (x = None \/ x[Len(x)] \in D)
<1> DEFINE w == f[Len(f)]
           m == Len(x)
           s == Len(w)
<1>1. w \in Lines /\ x \in Lines /\ Ending(w, x, D)
  BY SomeFacts DEF Splits
<1> HIDE DEF w
<1>2. m \in Nat /\ s \in Nat /\ (w = None <=> s = 0) /\ (x = None <=> m = 0)
  BY <1>1, LineFacts
<1>3. /\ s <= m /\ (s = m \/ x[m - s] \in D)
      /\ \A k \in 1..s : w[k] = x[m - s + k] /\ w[k] \notin D
  BY <1>1 DEF Ending
<1> HIDE DEF m, s
<1>4. s > 0 => x[m] \notin D
  <2>1. SUFFICES ASSUME s > 0 PROVE x[m] \notin D
    OBVIOUS
  <2>2. s \in 1..s /\ m - s + s = m
    BY <1>2, <2>1
  <2> QED BY <1>3, <2>2
<1>5. s = 0 => m - s = m
  BY <1>2
<1>6. s = 0 <=> (m = 0 \/ x[m] \in D)
  BY <1>2, <1>3, <1>4, <1>5
<1> QED BY <1>2, <1>6 DEF w, m

LEMMA FieldsSplit ==
  ASSUME NEW blank \in Chars, NEW line \in Lines
  PROVE  Splits(Line!Fields(line, blank), line, {blank})
<1> DEFINE F(x) == Line!Fields(x, blank)
           S == {x \in Lines : Splits(F(x), x, {blank})}
<1>1. None \in S
  BY NoneIsALine, FieldsOfMore, SplitsNone
<1>2. ASSUME NEW x \in Lines, NEW c \in Chars, x \in S PROVE Append(x, c) \in S
  <2>1. Splits(F(x), x, {blank}) /\ Append(x, c) \in Lines
    BY <1>2, AppendFacts
  <2>2. F(Append(x, c)) = IF c # blank THEN WithChar(F(x), c)
          ELSE IF x = None \/ x[Len(x)] # blank THEN Append(F(x), None) ELSE F(x)
    BY FieldsOfMore
  <2> HIDE DEF F
  <2>3. CASE c # blank
    <3>1. Splits(WithChar(F(x), c), Append(x, c), {blank})
      BY <2>1, <2>3, SplitsChar
    <3> QED BY <2>1, <2>2, <2>3, <3>1
  <2>4. CASE c = blank
    <3>1. /\ Splits(Append(F(x), None), Append(x, c), {blank})
          /\ F(x)[Len(F(x))] = None => Splits(F(x), Append(x, c), {blank})
      BY <2>1, <2>4, SplitsDelim
    <3>2. F(x)[Len(F(x))] = None <=> (x = None \/ x[Len(x)] = blank)
      BY <2>1, LastField
    <3> QED BY <2>1, <2>2, <2>4, <3>1, <3>2
  <2> QED BY <2>3, <2>4
<1> HIDE DEF S
<1>3. Seq(Chars) \subseteq S
  <2>1. \A x \in Seq(Chars) : \A c \in Chars : x \in S => Append(x, c) \in S
    BY <1>2 DEF Lines
  <2> QED BY <1>1, <2>1, AppendingOn DEF None
<1> QED BY <1>3 DEF S, Lines

LEMMA SomeAppend ==
  ASSUME NEW f \in Some
  PROVE  /\ Append(f, None) \in Seq(Lines) /\ Len(Append(f, None)) = Len(f) + 1
         /\ \A k \in 1..Len(f) : Append(f, None)[k] = f[k]
         /\ Append(f, None)[Len(f) + 1] = None
  BY SomeFacts, NoneIsALine, AppendProperties

LEMMA SomeWithChar ==
  ASSUME NEW f \in Some, NEW c \in Chars
  PROVE  /\ WithChar(f, c) \in Seq(Lines) /\ Len(WithChar(f, c)) = Len(f)
         /\ \A k \in 1..Len(f) : k # Len(f) => WithChar(f, c)[k] = f[k]
         /\ WithChar(f, c)[Len(f)] = Append(f[Len(f)], c)
<1> DEFINE m == Len(f)
           v == Append(f[m], c)
           g == WithChar(f, c)
<1>1. f \in Seq(Lines) /\ m \in 1..Len(f) /\ f[m] \in Lines
  <2>1. m \in Nat \ {0} /\ f \in Seq(Lines) /\ f[m] \in Lines
    BY SomeFacts
  <2> QED BY <2>1
<1>2. v \in Lines
  <2> HIDE DEF m
  <2> QED BY <1>1, AppendFacts
<1>3. g = [f EXCEPT ![m] = v]
  BY DEF WithChar
<1> HIDE DEF g, v, m
<1>4. g \in Seq(Lines) /\ Len(g) = Len(f) /\ \A k \in 1..Len(f) : g[k] = IF k = m THEN v ELSE f[k]
  BY <1>1, <1>2, <1>3, ExceptSeq
<1>5. m = Len(f)
  BY DEF m
<1> QED BY <1>1, <1>4, <1>5 DEF g, v

(* The fields of lines with blanks are words without.                      *)
WordsWithout(blank) == Seq(Chars \ {blank})

LEMMA WordFacts ==
  ASSUME NEW blank \in Chars
  PROVE  /\ None \in WordsWithout(blank) /\ WordsWithout(blank) \subseteq Lines
         /\ \A w \in WordsWithout(blank), c \in Chars \ {blank} :
              Append(w, c) \in WordsWithout(blank) /\ Append(w, c) # None
<1>1. None \in WordsWithout(blank) /\ WordsWithout(blank) \subseteq Lines
  <2>1. None \in WordsWithout(blank)
    BY EmptySeq DEF None, WordsWithout
  <2>2. ASSUME NEW w \in WordsWithout(blank) PROVE w \in Lines
    BY DEF WordsWithout, Lines
  <2> QED BY <2>1, <2>2
<1>2. ASSUME NEW w \in WordsWithout(blank), NEW c \in Chars \ {blank}
      PROVE  Append(w, c) \in WordsWithout(blank) /\ Append(w, c) # None
  BY AppendProperties DEF WordsWithout, None
<1> QED BY <1>1, <1>2

(* Empty fields are at the ends, the first if the line starts with a blank; *)
(* and there are no blanks in them.                                        *)
FieldsOK(f, line, blank) ==
  /\ f \in Some /\ \A k \in 1..Len(f) : f[k] \in WordsWithout(blank)
  /\ \A k \in 1..Len(f) : f[k] = None => k \in {1, Len(f)}
  /\ line # None => (f[1] = None <=> line[1] = blank) /\ (f[1] = None => Len(f) >= 2)

LEMMA FieldsAreOK ==
  ASSUME NEW blank \in Chars, NEW line \in Lines
  PROVE  FieldsOK(Line!Fields(line, blank), line, blank)
<1> DEFINE F(x) == Line!Fields(x, blank)
           S == {x \in Lines : FieldsOK(F(x), x, blank)}
<1>1. None \in S
  <2>1. F(None) = <<None>> /\ Len(<<None>>) = 1 /\ <<None>>[1] = None /\ F(None) \in Some
    BY NoneIsALine, FieldsOfMore
  <2>2. FieldsOK(F(None), None, blank)
    <3> HIDE DEF F
    <3> QED BY WordFacts, <2>1 DEF FieldsOK
  <2> QED BY <2>2, NoneIsALine
<1>2. ASSUME NEW x \in Lines, NEW c \in Chars, x \in S PROVE Append(x, c) \in S
  <2> DEFINE f == F(x)
             y == Append(x, c)
             g == F(y)
             m == Len(f)
  <2>1. y \in Lines /\ (x # None => y[1] = x[1]) /\ (x = None => y[1] = c) /\ y # None
    <3>1. y \in Lines /\ Len(y) = Len(x) + 1 /\ (\A k \in 1..Len(x) : y[k] = x[k]) /\ y[Len(x) + 1] = c
      BY AppendFacts
    <3>2. Len(x) \in Nat /\ (x = None <=> Len(x) = 0)
      BY LineFacts
    <3> HIDE DEF y
    <3>3. y # None
      BY <3>1, <3>2, NoneIsALine
    <3> QED BY <3>1, <3>2, <3>3
  <2>2. g = IF c # blank THEN WithChar(f, c)
            ELSE IF x = None \/ x[Len(x)] # blank THEN Append(f, None) ELSE f
    BY FieldsOfMore
  <2>3. FieldsOK(f, x, blank) /\ f \in Some /\ g \in Some
    BY <1>2, <2>1, FieldsOfMore
  <2>4. f[m] = None <=> (x = None \/ x[Len(x)] = blank)
    <3>1. Splits(f, x, {blank})
      BY FieldsSplit
    <3> QED BY <3>1, LastField
  <2>5. x = None => m = 1 /\ f[1] = None
    BY FieldsOfMore
  <2>6. m \in Nat \ {0} /\ m \in 1..m /\ 1 \in 1..m
    BY <2>3, SomeFacts
  <2>7. /\ Len(Append(f, None)) = m + 1 /\ Append(f, None)[m + 1] = None
        /\ \A k \in 1..m : Append(f, None)[k] = f[k]
    BY <2>3, SomeAppend
  <2>8. /\ Len(WithChar(f, c)) = m /\ WithChar(f, c)[m] = Append(f[m], c)
        /\ \A k \in 1..m : k # m => WithChar(f, c)[k] = f[k]
    BY <2>3, SomeWithChar
  <2> SUFFICES FieldsOK(g, y, blank)
    BY <2>1
  <2> HIDE DEF y, g, f, m, F
  <2>9. /\ \A k \in 1..m : f[k] \in WordsWithout(blank) /\ (f[k] = None => k \in {1, m})
        /\ x # None => (f[1] = None <=> x[1] = blank) /\ (f[1] = None => m >= 2)
    BY <2>3 DEF FieldsOK, m
  <2>10. CASE c # blank
    <3> DEFINE v == Append(f[m], c)
    <3>1. v # None /\ v \in WordsWithout(blank)
      BY WordFacts, <2>6, <2>9, <2>10
    <3> HIDE DEF v
    <3>2. g[m] = v /\ Len(g) = m /\ \A k \in 1..m : k # m => g[k] = f[k]
      BY <2>2, <2>8, <2>10 DEF v
    <3>3. \A k \in 1..Len(g) : g[k] \in WordsWithout(blank) /\ (g[k] = None => k \in {1, Len(g)})
      BY <2>9, <3>1, <3>2
    <3>4. g[1] = None => m >= 2 /\ f[1] = None
      BY <2>6, <3>1, <3>2
    <3>5. x = None => g[1] # None /\ y[1] # blank
      BY <2>1, <2>5, <2>10, <3>1, <3>2
    <3>6. x # None => (g[1] = None <=> y[1] = blank)
      <4>1. CASE m = 1
        BY <2>1, <2>6, <2>9, <3>1, <3>2, <4>1
      <4>2. CASE m # 1
        BY <2>1, <2>6, <2>9, <3>2, <4>2
      <4> QED BY <4>1, <4>2
    <3> QED BY <2>3, <3>2, <3>3, <3>4, <3>5, <3>6 DEF FieldsOK
  <2>11. CASE c = blank /\ (x = None \/ x[Len(x)] # blank)
    <3>1. g[m + 1] = None /\ Len(g) = m + 1 /\ \A k \in 1..m : g[k] = f[k]
      BY <2>2, <2>7, <2>11
    <3>2. ASSUME NEW k \in 1..Len(g) PROVE g[k] \in WordsWithout(blank) /\ (g[k] = None => k \in {1, Len(g)})
      <4>1. CASE k = m + 1
        BY WordFacts, <3>1, <4>1
      <4>2. CASE k \in 1..m
        <5>1. g[k] = None => k = 1
          BY <2>4, <2>5, <2>6, <2>9, <2>11, <3>1, <4>2
        <5> QED BY <2>9, <3>1, <4>2, <5>1
      <4> QED BY <2>6, <3>1, <4>1, <4>2
    <3>3. Len(g) >= 2 /\ g[1] = f[1]
      BY <2>6, <3>1
    <3>4. g[1] = None <=> y[1] = blank
      BY <2>1, <2>5, <2>9, <2>11, <3>3
    <3> QED BY <2>3, <3>2, <3>3, <3>4 DEF FieldsOK
  <2>12. CASE c = blank /\ ~(x = None \/ x[Len(x)] # blank)
    <3>1. g = f /\ x # None /\ y[1] = x[1]
      BY <2>1, <2>2, <2>12
    <3> QED BY <2>3, <3>1 DEF FieldsOK
  <2> QED BY <2>10, <2>11, <2>12
<1> HIDE DEF S
<1>3. Seq(Chars) \subseteq S
  <2>1. \A x \in Seq(Chars) : \A c \in Chars : x \in S => Append(x, c) \in S
    BY <1>2 DEF Lines
  <2> QED BY <1>1, <2>1, AppendingOn DEF None
<1> QED BY <1>3 DEF S, Lines

-----------------------------------------------------------------------------
(* Words joined and split again.                                           *)

WithWord(f, w) == [f EXCEPT ![Len(f)] = @ \o w]

LEMMA ConcatAppend ==
  ASSUME NEW x \in Lines, NEW w \in Lines, NEW c \in Chars
  PROVE  x \o Append(w, c) = Append(x \o w, c) /\ x \o w \in Lines
<1>1. x \o w \in Lines
  BY ConcatProperties DEF Lines
<1>2. Append(w, c) = w \o <<c>> /\ Append(x \o w, c) = (x \o w) \o <<c>>
  BY <1>1, AppendIsConcat DEF Lines
<1>3. <<c>> \in Lines
  BY DEF Lines
<1>4. (x \o w) \o <<c>> = x \o (w \o <<c>>)
  BY <1>3, ConcatAssociative DEF Lines
<1> QED BY <1>1, <1>2, <1>4

LEMMA SomeWithWord ==
  ASSUME NEW f \in Some, NEW w \in Lines
  PROVE  /\ WithWord(f, w) \in Seq(Lines) /\ WithWord(f, w) \in Some
         /\ Len(WithWord(f, w)) = Len(f) /\ f[Len(f)] \in Lines
         /\ \A k \in 1..Len(f) : WithWord(f, w)[k] = IF k = Len(f) THEN f[Len(f)] \o w ELSE f[k]
<1> DEFINE m == Len(f)
           v == f[m] \o w
           g == WithWord(f, w)
<1>1. f \in Seq(Lines) /\ m \in 1..Len(f) /\ f[m] \in Lines /\ m > 0
  <2>1. m \in Nat \ {0} /\ f \in Seq(Lines) /\ f[m] \in Lines
    BY SomeFacts
  <2> QED BY <2>1
<1>2. v \in Lines
  <2> HIDE DEF m
  <2> QED BY <1>1, ConcatProperties DEF Lines
<1>3. g = [f EXCEPT ![m] = v]
  BY DEF WithWord
<1>5. m = Len(f)
  BY DEF m
<1> HIDE DEF g, v, m
<1>4. g \in Seq(Lines) /\ Len(g) = Len(f) /\ \A k \in 1..Len(f) : g[k] = IF k = m THEN v ELSE f[k]
  BY <1>1, <1>2, <1>3, ExceptSeq
<1>6. g \in Some
  BY <1>1, <1>4, <1>5, EmptySeq DEF Some, None
<1> QED BY <1>1, <1>4, <1>5, <1>6 DEF g, v

LEMMA SameFields ==
  ASSUME NEW f \in Seq(Lines), NEW g \in Seq(Lines), Len(f) = Len(g), \A k \in 1..Len(f) : f[k] = g[k]
  PROVE  f = g
  BY SeqEqual

(* A word without blanks makes the last field longer.                      *)
LEMMA FieldsOfWord ==
  ASSUME NEW blank \in Chars, NEW x \in Lines, NEW w \in WordsWithout(blank)
  PROVE  Line!Fields(x \o w, blank) = WithWord(Line!Fields(x, blank), w)
<1> DEFINE f == Line!Fields(x, blank)
           C == Chars \ {blank}
           S == {v \in WordsWithout(blank) : Line!Fields(x \o v, blank) = WithWord(f, v)}
<1>1. f \in Some
  BY FieldsOfMore
<1>2. None \in S
  <2>1. None \in WordsWithout(blank) /\ None \in Lines /\ x \o None = x
    BY WordFacts, NoneIsALine, ConcatEmptySeq DEF Lines, None
  <2> HIDE DEF f
  <2>2. WithWord(f, None) = f
    <3>1. /\ WithWord(f, None) \in Seq(Lines) /\ Len(WithWord(f, None)) = Len(f)
          /\ \A k \in 1..Len(f) : WithWord(f, None)[k] = IF k = Len(f) THEN f[Len(f)] \o None ELSE f[k]
      BY <1>1, <2>1, SomeWithWord
    <3>2. f[Len(f)] \o None = f[Len(f)] /\ f \in Seq(Lines)
      <4>1. f[Len(f)] \in Seq(Chars) /\ f \in Seq(Lines)
        BY <1>1, SomeFacts DEF Lines
      <4> QED BY <4>1, ConcatEmptySeq DEF None
    <3>3. \A k \in 1..Len(f) : WithWord(f, None)[k] = f[k]
      BY <3>1, <3>2
    <3> QED BY <3>1, <3>2, <3>3, SameFields
  <2> QED BY <2>1, <2>2 DEF f
<1>3. ASSUME NEW v \in WordsWithout(blank), NEW c \in C, v \in S PROVE Append(v, c) \in S
  <2> DEFINE u == Append(v, c)
             y == x \o v
  <2>1. v \in Lines /\ c \in Chars /\ c # blank /\ u \in WordsWithout(blank) /\ u \in Lines
    BY WordFacts
  <2>2. x \o u = Append(y, c) /\ y \in Lines
    BY <2>1, ConcatAppend
  <2>3. Line!Fields(y, blank) = WithWord(f, v)
    BY <1>3
  <2> HIDE DEF f, y
  <2>4. Line!Fields(Append(y, c), blank) = WithChar(WithWord(f, v), c)
    BY <2>1, <2>2, <2>3, FieldsOfMore
  <2>5. WithChar(WithWord(f, v), c) = WithWord(f, u)
    <3> DEFINE g == WithWord(f, v)
               h == WithChar(g, c)
               r == WithWord(f, u)
               m == Len(f)
    <3>1. /\ g \in Some /\ Len(g) = m /\ f[m] \in Lines
          /\ \A k \in 1..m : g[k] = IF k = m THEN f[m] \o v ELSE f[k]
      BY <1>1, <2>1, SomeWithWord
    <3>2. /\ r \in Seq(Lines) /\ Len(r) = m
          /\ \A k \in 1..m : r[k] = IF k = m THEN f[m] \o u ELSE f[k]
      BY <1>1, <2>1, SomeWithWord
    <3> HIDE DEF g, r
    <3>3. /\ h \in Seq(Lines) /\ Len(h) = Len(g)
          /\ \A k \in 1..Len(g) : k # Len(g) => h[k] = g[k]
          /\ h[Len(g)] = Append(g[Len(g)], c)
      BY <2>1, <3>1, SomeWithChar
    <3>4. f[m] \o u = Append(f[m] \o v, c)
      BY <2>1, <3>1, ConcatAppend
    <3>5. m \in 1..m
      <4>1. m \in Nat \ {0}
        BY <1>1, SomeFacts
      <4> HIDE DEF m
      <4> QED BY <4>1
    <3> HIDE DEF h, u, m
    <3>6. \A k \in 1..m : h[k] = r[k]
      BY <3>1, <3>2, <3>3, <3>4, <3>5
    <3>7. h = r
      BY <3>1, <3>2, <3>3, <3>6, SameFields
    <3> QED BY <3>7 DEF g, r, h
  <2> QED BY <2>1, <2>2, <2>4, <2>5 DEF f
<1> HIDE DEF S
<1>4. Seq(C) \subseteq S
  <2>1. \A v \in Seq(C) : \A c \in C : v \in S => Append(v, c) \in S
    BY <1>3 DEF WordsWithout
  <2> HIDE DEF C
  <2> QED BY <1>2, <2>1, AppendingOn DEF None
<1>5. w \in S
  BY <1>4 DEF WordsWithout
<1> QED BY <1>5 DEF S

(* Only the first and the last of them are empty.                          *)
EmptyAtEnds(g) == \A k \in 1..Len(g) : g[k] = None => k \in {1, Len(g)}

LEMMA JoinedAndSplit ==
  ASSUME NEW blank \in Chars, NEW strings \in Seq(WordsWithout(blank)), strings # None, EmptyAtEnds(strings)
  PROVE  Line!Fields(Line!vectorToString(strings, blank), blank) = strings
<1> DEFINE W == WordsWithout(blank)
           J(g) == Line!vectorToString(g, blank)
           Again(g) == g # None /\ EmptyAtEnds(g) => Line!Fields(J(g), blank) = g
           S == {g \in Seq(W) : Again(g)}
<1>0. W \subseteq Lines /\ None \in W /\ \A g \in Seq(W) : g \in Seq(Lines)
  <2>1. W \subseteq Lines /\ None \in W
    BY WordFacts
  <2> HIDE DEF W
  <2> QED BY <2>1
<1>1. None \in S
  BY EmptySeq DEF None
<1>2. ASSUME NEW g \in Seq(W), NEW w \in W, g \in S PROVE Append(g, w) \in S
  <2> DEFINE h == Append(g, w)
             m == Len(g)
  <2>1. /\ h \in Seq(W) /\ Len(h) = m + 1 /\ h[m + 1] = w /\ m \in Nat
        /\ \A k \in 1..m : h[k] = g[k]
    <3> HIDE DEF W
    <3> QED BY AppendProperties, LenProperties
  <2>2. w \in Lines /\ g \in Seq(Lines)
    BY <1>0
  <2>3. g = None <=> m = 0
    BY <2>2, EmptySeq DEF None
  <2>4. J(g) \in Lines /\ J(h) = IF g = None THEN w ELSE J(g) \o <<blank>> \o w
    BY <2>2, JoinedWithMore
  <2>5. ASSUME EmptyAtEnds(h) PROVE Line!Fields(J(h), blank) = h
    <3>1. CASE g = None
      <4> DEFINE q == <<None>>
      <4>1. Line!Fields(None \o w, blank) = WithWord(q, w) /\ None \o w = w
        <5>1. None \o w = w
          BY <2>2, ConcatEmptySeq DEF Lines, None
        <5>2. Line!Fields(None, blank) = q
          BY NoneIsALine, FieldsOfMore
        <5>3. Line!Fields(None \o w, blank) = WithWord(Line!Fields(None, blank), w)
          BY NoneIsALine, FieldsOfWord
        <5> QED BY <5>1, <5>2, <5>3
      <4>2. q \in Some /\ Len(q) = 1 /\ q[1] = None
        BY FieldsOfMore, NoneIsALine
      <4> HIDE DEF q
      <4>3. WithWord(q, w) \in Seq(Lines) /\ Len(WithWord(q, w)) = 1 /\ WithWord(q, w)[1] = None \o w
        <5>1. /\ WithWord(q, w) \in Seq(Lines) /\ Len(WithWord(q, w)) = Len(q)
              /\ \A k \in 1..Len(q) : WithWord(q, w)[k] = IF k = Len(q) THEN q[Len(q)] \o w ELSE q[k]
          BY <2>2, <4>2, SomeWithWord
        <5> QED BY <4>2, <5>1
      <4>4. h \in Seq(Lines) /\ Len(h) = 1 /\ h[1] = w
        BY <1>0, <2>1, <2>3, <3>1
      <4> HIDE DEF h
      <4>5. WithWord(q, w) = h
        BY <4>1, <4>3, <4>4, SameFields
      <4> QED BY <2>4, <3>1, <4>1, <4>5
    <3>2. CASE g # None
      <4> DEFINE v == J(g)
                 x == Append(v, blank)
                 q == Append(g, None)
      <4>1. m > 0 /\ g \in Some
        BY <2>1, <2>2, <2>3, <3>2 DEF Some
      <4>2. \A k \in 1..m : g[k] = None => k = 1
        BY <2>1, <2>5 DEF EmptyAtEnds
      <4>3. EmptyAtEnds(g)
        BY <4>2 DEF EmptyAtEnds
      <4>4. Line!Fields(v, blank) = g
        BY <1>2, <3>2, <4>3
      <4> HIDE DEF v
      <4>5. v \in Lines /\ x \in Lines /\ J(h) = x \o w
        <5>1. v \in Lines /\ J(h) = v \o <<blank>> \o w
          BY <2>4, <3>2 DEF v
        <5>2. x = v \o <<blank>>
          BY <5>1, AppendIsConcat DEF Lines
        <5> QED BY <5>1, <5>2, AppendFacts
      <4>6. g[m] = None <=> (v = None \/ v[Len(v)] \in {blank})
        <5>1. Splits(g, v, {blank})
          BY <4>4, <4>5, FieldsSplit
        <5> QED BY <5>1, LastField
      <4>7. v = None \/ v[Len(v)] # blank
        <5>1. CASE g[m] # None
          BY <4>6, <5>1
        <5>2. CASE g[m] = None
          <6>1. m = 1
            <7>1. m \in 1..m
              BY <2>1, <4>1
            <7> HIDE DEF m
            <7> QED BY <4>2, <5>2, <7>1
          <6> DEFINE p == Append(None, g[1])
          <6>2. g = p
            <7>1. g[1] \in Lines /\ g[1] = None
              BY <2>2, <5>2, <6>1, NoneIsALine
            <7>2. p \in Seq(Lines) /\ Len(p) = 1 /\ p[1] = g[1]
              <8>1. None \in Seq(Lines) /\ Len(None) = 0
                BY EmptySeq DEF None
              <8>2. p \in Seq(Lines) /\ Len(p) = Len(None) + 1 /\ p[Len(None) + 1] = g[1]
                BY <7>1, <8>1, AppendProperties
              <8> HIDE DEF p
              <8> QED BY <8>1, <8>2
            <7> HIDE DEF p
            <7> QED BY <2>2, <6>1, <7>2, SameFields
          <6>3. J(p) = g[1]
            <7>1. None \in Seq(Lines) /\ g[1] \in Lines
              BY <5>2, <6>1, EmptySeq, NoneIsALine DEF None
            <7> QED BY <7>1, JoinedWithMore
          <6> HIDE DEF p
          <6>4. J(g) = None
            BY <5>2, <6>1, <6>2, <6>3
          <6> QED BY <6>4 DEF v
        <5> QED BY <5>1, <5>2
      <4>8. Line!Fields(x, blank) = q
        BY <4>4, <4>5, <4>7, FieldsOfMore
      <4>9. Line!Fields(x \o w, blank) = WithWord(q, w)
        BY <4>5, <4>8, FieldsOfWord
      <4>10. q \in Some /\ Len(q) = m + 1 /\ q[m + 1] = None /\ \A k \in 1..m : q[k] = g[k]
        <5>1. /\ q \in Seq(Lines) /\ Len(q) = m + 1 /\ q[m + 1] = None /\ \A k \in 1..m : q[k] = g[k]
          <6>1. g \in Some
            BY <4>1
          <6>2. /\ Append(g, None) \in Seq(Lines) /\ Len(Append(g, None)) = Len(g) + 1
                /\ Append(g, None)[Len(g) + 1] = None
                /\ \A k \in 1..Len(g) : Append(g, None)[k] = g[k]
            BY ONLY <6>1, SomeAppend
          <6> QED BY <6>2
        <5>2. q \in Some
          <6>1. x \in Lines
            BY <4>5
          <6> HIDE DEF x, q
          <6>2. Line!Fields(x, blank) \in Some
            BY <6>1, FieldsOfMore
          <6> QED BY <4>8, <6>2
        <5> QED BY <5>1, <5>2
      <4> HIDE DEF q
      <4>11. WithWord(q, w) = h
        <5>1. /\ WithWord(q, w) \in Seq(Lines) /\ Len(WithWord(q, w)) = m + 1
              /\ \A k \in 1..(m + 1) : WithWord(q, w)[k] = IF k = m + 1 THEN None \o w ELSE q[k]
          <6>1. q \in Some /\ w \in Lines /\ Len(q) = m + 1 /\ q[m + 1] = None
            BY <2>2, <4>10
          <6> HIDE DEF m
          <6>2. /\ WithWord(q, w) \in Seq(Lines) /\ Len(WithWord(q, w)) = Len(q)
                /\ \A k \in 1..Len(q) : WithWord(q, w)[k] = IF k = Len(q) THEN q[Len(q)] \o w ELSE q[k]
            BY ONLY <6>1, SomeWithWord
          <6> QED BY ONLY <6>1, <6>2
        <5>2. None \o w = w
          BY <2>2, ConcatEmptySeq DEF Lines, None
        <5>3. h \in Seq(Lines)
          BY <1>0, <2>1
        <5> HIDE DEF h, m
        <5>4. \A k \in 1..(m + 1) : WithWord(q, w)[k] = h[k]
          <6>1. ASSUME NEW k \in 1..(m + 1) PROVE WithWord(q, w)[k] = h[k]
            <7>1. k = m + 1 \/ k \in 1..m
              BY <2>1
            <7>2. k \in 1..m => k # m + 1
              BY <2>1
            <7> QED BY <2>1, <4>10, <5>1, <5>2, <7>1, <7>2
          <6> QED BY <6>1
        <5> QED BY <2>1, <5>1, <5>3, <5>4, SameFields
      <4> QED BY <4>5, <4>9, <4>11
    <3> QED BY <3>1, <3>2
  <2> HIDE DEF h, J
  <2>6. Again(h)
    BY <2>5
  <2> HIDE DEF Again
  <2>7. h \in S
    BY <2>1, <2>6
  <2> QED BY <2>7 DEF h
<1> HIDE DEF S
<1>3. Seq(W) \subseteq S
  <2> HIDE DEF W
  <2> QED BY <1>1, <1>2, AppendingOn DEF None
<1>4. strings \in S
  BY <1>3
<1> QED BY <1>4 DEF S

LEMMA NothingTakenOut ==
  ASSUME NEW line \in Lines
  PROVE  Line!Without(line, {}) = line /\ \A newlines : Line!Without(line, newlines) \in Lines
<1> DEFINE S == {x \in Lines : Line!Without(x, {}) = x}
<1>1. None \in S
  <2>1. Junk \in Chars
    BY ShellsAssumption DEF Line!CommandLineAssumption
  <2> QED BY <2>1, NoneIsALine, WithoutOfMore
<1>2. ASSUME NEW x \in Lines, NEW c \in Chars, x \in S PROVE Append(x, c) \in S
  <2>1. Line!Without(Append(x, c), {}) = Append(x, c)
    BY <1>2, WithoutOfMore
  <2> QED BY <2>1, AppendFacts
<1> HIDE DEF S
<1>3. Seq(Chars) \subseteq S
  <2>1. \A x \in Seq(Chars) : \A c \in Chars : x \in S => Append(x, c) \in S
    BY <1>2 DEF Lines
  <2> QED BY <1>1, <2>1, AppendingOn DEF None
<1>4. line \in S
  BY <1>3 DEF Lines
<1>5. ASSUME NEW newlines PROVE Line!Without(line, newlines) \in Lines
  <2>1. PICK f \in [0..Len(line) -> Lines] : Line!Without(line, newlines) = f[Len(line)]
    BY KeptSteps
  <2>2. Len(line) \in 0..Len(line)
    BY LineFacts
  <2> QED BY <2>1, <2>2
<1> QED BY <1>4, <1>5 DEF S

(* splitStr finds the words, for any line and any delimiters.              *)
LEMMA SplitIsRight ==
  ASSUME text \in Lines
  PROVE  Line!SplitFindsTheWords
<1>1. SUFFICES ASSUME NEW blank \in Delims
               PROVE  LET newlines == Delims \ {blank}
                          line == Line!Without(text, newlines)
                          f == Line!splitStr(text, blank, newlines)
                      IN /\ Line!HasTheWords(f, line, {blank})
                         /\ \A k \in DOMAIN f : f[k] = <<>> => k \in {1, Len(f)}
                         /\ line # <<>> => (f[1] = <<>> <=> line[1] = blank)
  BY DEF Line!SplitFindsTheWords
<1> DEFINE newlines == Delims \ {blank}
           line == Line!Without(text, newlines)
           f == Line!Fields(line, blank)
<1>2. blank \in Chars /\ line \in Lines /\ f = Line!splitStr(text, blank, newlines)
  BY ShellsAssumption, NothingTakenOut DEF Line!CommandLineAssumption, Line!splitStr
<1> HIDE DEF newlines, line
<1>3. Splits(f, line, {blank}) /\ FieldsOK(f, line, blank)
  BY <1>2, FieldsSplit, FieldsAreOK
<1> HIDE DEF f
<1>4. DOMAIN f = 1..Len(f)
  BY <1>3, SomeFacts DEF FieldsOK
<1>5. /\ Line!HasTheWords(f, line, {blank})
      /\ \A k \in DOMAIN f : f[k] = <<>> => k \in {1, Len(f)}
      /\ line # <<>> => (f[1] = <<>> <=> line[1] = blank)
  BY <1>3, <1>4 DEF Splits, FieldsOK, None
<1> QED BY <1>2, <1>5 DEF line, newlines

(* What is joined from any field on is split into those fields again.      *)
LEMMA JoiningIsUndone ==
  ASSUME text \in Lines
  PROVE  Line!JoinedSplitsAgain
<1>1. SUFFICES ASSUME NEW blank \in Delims
               PROVE  LET f == Line!splitStr(text, blank, Delims \ {blank})
                      IN \A start \in 0..Len(f) - 1 :
                           Line!splitStr(Line!joinStr(f, start, blank), blank, {}) = SubSeq(f, start + 1, Len(f))
  BY DEF Line!JoinedSplitsAgain
<1> DEFINE line == Line!Without(text, Delims \ {blank})
           f == Line!Fields(line, blank)
           m == Len(f)
<1>2. blank \in Chars /\ line \in Lines /\ f = Line!splitStr(text, blank, Delims \ {blank})
  BY ShellsAssumption, NothingTakenOut DEF Line!CommandLineAssumption, Line!splitStr
<1> HIDE DEF line
<1>3. FieldsOK(f, line, blank)
  BY <1>2, FieldsAreOK
<1> HIDE DEF f
<1>4. /\ f \in Seq(Lines) /\ m \in Nat /\ \A k \in 1..m : f[k] \in WordsWithout(blank)
      /\ \A k \in 1..m : f[k] = None => k \in {1, m}
  BY <1>3, SomeFacts DEF FieldsOK
<1>5. ASSUME NEW start \in 0..m - 1
      PROVE  Line!splitStr(Line!joinStr(f, start, blank), blank, {}) = SubSeq(f, start + 1, m)
  <2> DEFINE g == SubSeq(f, start + 1, m)
             W == WordsWithout(blank)
  <2>1. /\ g \in Seq(W) /\ Len(g) = m - start /\ m - start > 0
        /\ \A k \in 1..(m - start) : g[k] = f[start + k]
    <3>1. start + 1 \in Int /\ m \in Int /\ start + 1 <= m /\ m - (start + 1) + 1 = m - start
      BY <1>4
    <3>2. \A k \in (start + 1)..m : f[k] \in W
      BY <1>4
    <3> HIDE DEF W, m
    <3>3. /\ g \in Seq(W) /\ Len(g) = m - (start + 1) + 1
          /\ \A k \in 1..(m - (start + 1) + 1) : g[k] = f[start + 1 + k - 1]
      BY <3>1, <3>2, SubSeqProperties
    <3>4. \A k \in 1..(m - start) : start + 1 + k - 1 = start + k
      BY <3>1
    <3> HIDE DEF g
    <3> QED BY <3>1, <3>3, <3>4
  <2> HIDE DEF g
  <2>2. g # None
    BY <2>1, NoneIsALine
  <2>3. EmptyAtEnds(g)
    <3>1. ASSUME NEW k \in 1..Len(g), g[k] = None PROVE k \in {1, Len(g)}
      <4>1. f[start + k] = None /\ start + k \in 1..m
        BY <1>4, <2>1, <3>1
      <4>2. start + k = 1 \/ start + k = m
        BY <1>4, <4>1
      <4> HIDE DEF m
      <4> QED BY <1>4, <2>1, <4>2
    <3> QED BY <3>1 DEF EmptyAtEnds
  <2>4. Line!Fields(Line!vectorToString(g, blank), blank) = g
    BY <1>2, <2>1, <2>2, <2>3, JoinedAndSplit
  <2>5. g \in Seq(Lines)
    <3>1. W \subseteq Lines
      BY <1>2, WordFacts
    <3> HIDE DEF W
    <3> QED BY <2>1, <3>1
  <2> DEFINE v == Line!vectorToString(g, blank)
  <2>6. v \in Lines /\ Line!Without(v, {}) = v
    BY <1>2, <2>5, JoinedWithMore, NothingTakenOut, NoneIsALine
  <2>7. Line!joinStr(f, start, blank) = v
    BY DEF Line!joinStr, g
  <2> HIDE DEF v
  <2>8. Line!splitStr(v, blank, {}) = Line!Fields(v, blank)
    BY <2>6 DEF Line!splitStr
  <2> QED BY <2>4, <2>7, <2>8 DEF v, g
<1> QED BY <1>2, <1>5

-----------------------------------------------------------------------------
(* string2vector finds the words.                                          *)

LEMMA PartFacts ==
  ASSUME NEW t \in Lines, NEW a \in Nat, NEW b \in Nat, a >= 1, a <= b + 1, b <= Len(t)
  PROVE  /\ SubSeq(t, a, b) \in Lines /\ Len(SubSeq(t, a, b)) = b - a + 1
         /\ \A k \in 1..(b - a + 1) : SubSeq(t, a, b)[k] = t[a + k - 1]
<1>1. \A k \in a..b : t[k] \in Chars
  BY LineFacts
<1>2. /\ SubSeq(t, a, b) \in Seq(Chars) /\ Len(SubSeq(t, a, b)) = IF a <= b THEN b - a + 1 ELSE 0
      /\ \A k \in 1..(b - a + 1) : SubSeq(t, a, b)[k] = t[a + k - 1]
  BY <1>1, SubSeqProperties
<1> QED BY <1>2 DEF Lines

LEMMA PartGrows ==
  ASSUME NEW t \in Lines, NEW a \in Nat, NEW b \in Nat, a >= 1, a <= b + 1, b < Len(t)
  PROVE  SubSeq(t, a, b + 1) = Append(SubSeq(t, a, b), t[b + 1]) /\ t[b + 1] \in Chars
<1> DEFINE p == SubSeq(t, a, b)
           q == SubSeq(t, a, b + 1)
           c == t[b + 1]
           r == Append(p, c)
           m == b - a + 1
<1>1. c \in Chars /\ Len(t) \in Nat
  BY LineFacts
<1>2. p \in Lines /\ Len(p) = m /\ m \in Nat /\ \A k \in 1..m : p[k] = t[a + k - 1]
  BY <1>1, PartFacts
<1>3. q \in Lines /\ Len(q) = m + 1 /\ \A k \in 1..(m + 1) : q[k] = t[a + k - 1]
  <2>1. b + 1 \in Nat /\ a <= (b + 1) + 1 /\ b + 1 <= Len(t) /\ (b + 1) - a + 1 = m + 1
    BY <1>1
  <2>2. /\ q \in Lines /\ Len(q) = (b + 1) - a + 1
        /\ \A k \in 1..((b + 1) - a + 1) : q[k] = t[a + k - 1]
    BY <2>1, PartFacts
  <2> QED BY <2>1, <2>2
<1>4. r \in Lines /\ Len(r) = m + 1 /\ (\A k \in 1..m : r[k] = p[k]) /\ r[m + 1] = c
  <2> HIDE DEF p, c
  <2> QED BY <1>1, <1>2, AppendFacts
<1>5. a + (m + 1) - 1 = b + 1
  OBVIOUS
<1> HIDE DEF p, q, r, m
<1>6. \A k \in 1..(m + 1) : q[k] = r[k]
  <2>1. ASSUME NEW k \in 1..(m + 1) PROVE q[k] = r[k]
    <3>1. CASE k = m + 1
      BY <1>3, <1>4, <1>5, <2>1, <3>1
    <3>2. CASE k \in 1..m
      BY <1>2, <1>3, <1>4, <3>2
    <3> QED BY <1>2, <3>1, <3>2
  <2> QED BY <2>1
<1>7. q = r
  BY <1>3, <1>4, <1>6, SeqEqual DEF Lines
<1> QED BY <1>1, <1>7 DEF p, q, r

(* What the buffer holds up to its end is the word.                        *)
LEMMA WordIsRead ==
  ASSUME NEW b \in [0..STRBUFFSIZE -> Chars \cup {NUL}], NEW m \in 1..STRBUFFSIZE, b[m] = NUL,
         NEW w \in Lines, Len(w) = m, \A k \in 1..m : b[k - 1] = w[k]
  PROVE  Line!Word(b) = w
<1>1. NUL \notin Chars /\ STRBUFFSIZE \in Nat
  BY ShellsAssumption DEF Line!CommandLineAssumption
<1>2. \A k \in 0..m - 1 : b[k] # NUL
  <2>1. ASSUME NEW k \in 0..m - 1 PROVE b[k] # NUL
    <3>1. k + 1 \in 1..m /\ (k + 1) - 1 = k
      BY <1>1
    <3>2. w[k + 1] \in Chars
      BY <3>1, LineFacts
    <3> QED BY <1>1, <3>1, <3>2
  <2> QED BY <2>1
<1> DEFINE Ends(k) == k \in DOMAIN b /\ b[k] = NUL /\ \A i \in 0..k - 1 : b[i] # NUL
           e == CHOOSE k \in DOMAIN b : b[k] = NUL /\ \A i \in 0..k - 1 : b[i] # NUL
<1>3. Ends(m) /\ \A k : Ends(k) => k = m
  <2>1. m \in DOMAIN b /\ DOMAIN b = 0..STRBUFFSIZE
    BY <1>1
  <2>2. ASSUME NEW k, Ends(k) PROVE k = m
    <3>1. k \in 0..STRBUFFSIZE /\ b[k] = NUL /\ \A i \in 0..k - 1 : b[i] # NUL
      BY <2>1, <2>2
    <3>2. ~(k < m)
      <4>1. k < m => k \in 0..m - 1
        BY <1>1, <3>1
      <4> QED BY <1>2, <3>1, <4>1
    <3>3. ~(m < k)
      <4>1. m < k => m \in 0..k - 1
        BY <1>1, <3>1
      <4> QED BY <3>1, <4>1
    <3> QED BY <1>1, <3>1, <3>2, <3>3
  <2> QED BY <1>2, <2>1, <2>2
<1>4. e = m
  <2>1. \E k \in DOMAIN b : b[k] = NUL /\ \A i \in 0..k - 1 : b[i] # NUL
    BY <1>3
  <2>2. Ends(e)
    BY <2>1, Zenon
  <2> HIDE DEF Ends, e
  <2> QED BY <1>3, <2>2
<1>5. Line!Word(b) = [k \in 1..e |-> b[k - 1]]
  BY Zenon DEF Line!Word
<1> HIDE DEF e
<1>6. [k \in 1..m |-> b[k - 1]] = [k \in 1..m |-> w[k]]
  OBVIOUS
<1>7. w = [k \in 1..m |-> w[k]]
  <2>1. w \in [1..m -> Chars]
    BY LenProperties DEF Lines
  <2> QED BY <2>1
<1> QED BY <1>4, <1>5, <1>6, <1>7

ShortRuns == \A r \in Line!Runs(text, Delims) : r[2] - r[1] < STRBUFFSIZE

WordsInv ==
  ShortRuns =>
    /\ words \in Seq(Lines) /\ \A k \in 1..Len(words) : words[k] # None
    /\ ci <= Len(text) => Splits(Append(words, SubSeq(text, cb + 1, ci)), SubSeq(text, 1, ci), Delims)
    /\ ci > Len(text) => Line!HasTheWords(words, text, Delims)

LEMMA WordsInit == Line!Init => WordsInv
<1> SUFFICES ASSUME Line!Init PROVE WordsInv
  OBVIOUS
<1>1. /\ text \in Lines /\ ci = 0 /\ cb = 0 /\ words = None /\ Len(text) \in Nat
  BY ShellsAssumption, LenProperties DEF Line!Init, Line!CommandLineAssumption, Lines, None
<1>2. words \in Seq(Lines) /\ Len(words) = 0
  BY <1>1, EmptySeq DEF None
<1>3. SubSeq(text, 1, 0) = None
  <2>1. SubSeq(text, 1, 0) \in Lines /\ Len(SubSeq(text, 1, 0)) = 0
    <3>1. \A k \in 1..0 : text[k] \in Chars
      OBVIOUS
    <3>2. 1 \in Int /\ 0 \in Int /\ ~(1 <= 0)
      OBVIOUS
    <3> QED BY <3>1, <3>2, SubSeqProperties DEF Lines
  <2> QED BY <2>1, LineFacts
<1>4. Append(None, None) = <<None>>
  BY DEF None
<1>5. Splits(Append(words, SubSeq(text, cb + 1, ci)), SubSeq(text, 1, ci), Delims)
  <2>1. cb + 1 = 1
    BY <1>1
  <2>2. Append(words, SubSeq(text, cb + 1, ci)) = <<None>> /\ SubSeq(text, 1, ci) = None
    BY <1>1, <1>3, <1>4, <2>1
  <2> QED BY <2>2, SplitsNone
<1> QED BY <1>1, <1>2, <1>5 DEF WordsInv

(* A word that goes on fits.                                               *)
LEMMA WordFits ==
  ASSUME ShortRuns, NEW t \in Lines, t = text, NEW i \in Nat, i < Len(t), t[i + 1] \notin Delims,
         NEW w \in Lines, Ending(w, SubSeq(t, 1, i), Delims)
  PROVE  Len(w) < STRBUFFSIZE
<1> DEFINE x == SubSeq(t, 1, i)
           s == Len(w)
           a == i - s + 1
           m == Len(t)
           stops == {k \in (i + 1)..m : k = m \/ t[k + 1] \in Delims}
<1>1. m \in Nat /\ s \in Nat /\ i < m
  BY LineFacts
<1>2. x \in Lines /\ Len(x) = i /\ \A k \in 1..i : x[k] = t[k]
  <2>1. /\ x \in Lines /\ Len(x) = i - 1 + 1
        /\ \A k \in 1..(i - 1 + 1) : x[k] = t[1 + k - 1]
    BY <1>1, PartFacts
  <2>2. i - 1 + 1 = i /\ \A k \in 1..i : 1 + k - 1 = k
    OBVIOUS
  <2> HIDE DEF x
  <2> QED BY <2>1, <2>2
<1>3. /\ s <= i /\ (s = i \/ x[i - s] \in Delims)
      /\ \A k \in 1..s : w[k] = x[i - s + k] /\ w[k] \notin Delims
  <2> HIDE DEF x
  <2>1. Ending(w, x, Delims)
    BY DEF x
  <2> QED BY <1>2, <2>1 DEF Ending
<1> HIDE DEF x, s
<1>4. /\ a \in 1..(i + 1) /\ (a = 1 \/ t[a - 1] \in Delims)
      /\ \A k \in a..i : t[k] \notin Delims
  <2>1. ASSUME NEW k \in a..i PROVE t[k] \notin Delims
    <3>1. k - a + 1 \in 1..s /\ i - s + (k - a + 1) = k /\ k \in 1..i
      BY <1>1, <1>3
    <3> HIDE DEF a
    <3> QED BY <1>2, <1>3, <3>1
  <2>2. s # i => i - s \in 1..i /\ a - 1 = i - s
    BY <1>1, <1>3
  <2> QED BY <1>1, <1>2, <1>3, <2>1, <2>2
<1> HIDE DEF a, m
<1>5. PICK e \in stops : \A k \in stops : e <= k
  <2>1. stops \subseteq Nat /\ m \in stops
    BY <1>1
  <2> HIDE DEF stops
  <2> QED BY <2>1, HasLeast
<1>6. e \in (i + 1)..m /\ (e = m \/ t[e + 1] \in Delims)
  OBVIOUS
<1>7. ASSUME NEW k \in a..e PROVE t[k] \notin Delims
  <2>1. CASE k <= i
    BY <1>4, <1>7, <2>1
  <2>2. CASE k = i + 1
    BY <2>2
  <2>3. CASE k > i + 1
    <3>1. k - 1 \in (i + 1)..m /\ k - 1 < e /\ (k - 1) + 1 = k /\ k - 1 # m
      BY <1>1, <1>4, <1>6, <2>3
    <3>2. k - 1 \notin stops
      BY <1>1, <1>5, <1>6, <3>1
    <3> QED BY <3>1, <3>2
  <2> QED BY <1>4, <1>6, <2>1, <2>2, <2>3
<1>8. <<a, e>> \in Line!Runs(text, Delims)
  <2>1. a \in 1..m /\ e \in 1..m /\ a <= e
    BY <1>1, <1>4, <1>6
  <2> HIDE DEF stops
  <2> QED BY <1>4, <1>6, <1>7, <2>1 DEF Line!Runs, m
<1>9. e - a < STRBUFFSIZE
  BY <1>8 DEF ShortRuns
<1>10. s <= e - a
  BY <1>1, <1>3, <1>6 DEF a
<1>11. STRBUFFSIZE \in Nat /\ e \in Int /\ a \in Int
  BY <1>4, <1>6, ShellsAssumption DEF Line!CommandLineAssumption
<1> HIDE DEF stops
<1> QED BY ONLY <1>1, <1>9, <1>10, <1>11 DEF s

LEMMA WordsStep ==
  ASSUME Line!BufferInv, WordsInv, [Line!Next]_(Line!vars)
  PROVE  WordsInv'
<1>1. CASE UNCHANGED Line!vars
  BY <1>1 DEF Line!vars, WordsInv, ShortRuns
<1>2. CASE Line!Skip \/ Line!Push \/ Line!Copy
  <2> DEFINE t == text
             m == Len(text)
             w == SubSeq(text, cb + 1, ci)
             x == SubSeq(text, 1, ci)
             f == Append(words, w)
             c == text[ci + 1]
  <2>0. SUFFICES ASSUME ShortRuns' PROVE WordsInv'
    BY DEF WordsInv
  <2>1. text' = text /\ ci' = ci + 1 /\ ci <= m
    BY <1>2 DEF Line!Skip, Line!Push, Line!Copy, Line!Continues
  <2>2. ShortRuns
    BY <2>0, <2>1 DEF ShortRuns
  <2>3. /\ t \in Lines /\ m \in Nat /\ ci \in Nat /\ cb \in Nat /\ cb <= ci
        /\ buff \in [0..STRBUFFSIZE -> Chars \cup {NUL}] /\ ci - cb <= STRBUFFSIZE
        /\ \A k \in 0..ci - cb - 1 : buff[k] = t[cb + k + 1]
        /\ STRBUFFSIZE \in Nat \ {0} /\ NUL \notin Chars /\ Delims \subseteq Chars
    BY ShellsAssumption, LenProperties DEF Line!BufferInv, Line!CommandLineAssumption, Lines, Line!cl
  <2>4. /\ words \in Seq(Lines) /\ \A k \in 1..Len(words) : words[k] # None
        /\ Splits(f, x, Delims)
    BY <2>1, <2>2 DEF WordsInv
  <2>5. /\ w \in Lines /\ Len(w) = ci - cb
        /\ \A k \in 1..(ci - cb) : w[k] = t[cb + k]
    <3>1. cb + 1 \in Nat /\ cb + 1 >= 1 /\ cb + 1 <= ci + 1 /\ ci - (cb + 1) + 1 = ci - cb
      BY <2>3
    <3>2. /\ w \in Lines /\ Len(w) = ci - (cb + 1) + 1
          /\ \A k \in 1..(ci - (cb + 1) + 1) : w[k] = t[cb + 1 + k - 1]
      BY <2>1, <2>3, <3>1, PartFacts
    <3>3. \A k \in 1..(ci - cb) : cb + 1 + k - 1 = cb + k
      BY <2>3
    <3> QED BY <3>1, <3>2, <3>3
  <2> HIDE DEF w
  <2>6. /\ f \in Seq(Lines) /\ Len(f) = Len(words) + 1 /\ f[Len(f)] = w /\ Len(words) \in Nat
        /\ \A k \in 1..Len(words) : f[k] = words[k]
    BY <2>4, <2>5, AppendProperties, LenProperties
  <2>7. ci < m => /\ SubSeq(text, 1, ci + 1) = Append(x, c) /\ c \in Chars /\ Line!Char = c
    BY <2>3, PartGrows DEF Line!Char
  <2>8. ci = m => x = text /\ Line!Char = NUL
    <3>1. SUFFICES ASSUME ci = m PROVE x = text
      BY DEF Line!Char
    <3>2. x \in Lines /\ Len(x) = m - 1 + 1 /\ \A k \in 1..(m - 1 + 1) : x[k] = t[1 + k - 1]
      BY <2>3, <3>1, PartFacts
    <3>3. m - 1 + 1 = m /\ \A k \in 1..m : 1 + k - 1 = k
      BY <2>3
    <3> HIDE DEF x
    <3> QED BY <2>3, <3>2, <3>3, SeqEqual DEF Lines
  <2>9. ci < m /\ Line!Cut => c \in Delims
    <3>1. SUFFICES ASSUME ci < m, Line!Cut, c \notin Delims PROVE FALSE
      OBVIOUS
    <3>2. ci - cb >= STRBUFFSIZE
      BY <2>3, <2>7, <3>1 DEF Line!Cut, Line!Ends, Line!cl
    <3>3. Ending(w, x, Delims)
      BY <2>4, <2>6 DEF Splits
    <3>4. Len(w) < STRBUFFSIZE
      BY <2>2, <2>3, <2>5, <3>1, <3>3, WordFits
    <3> QED BY <2>3, <2>5, <3>2, <3>4
  <2>10. SubSeq(text, ci + 2, ci + 1) = None
    <3>1. \A k \in (ci + 2)..(ci + 1) : text[k] \in Chars
      BY <2>3
    <3>2. SubSeq(text, ci + 2, ci + 1) \in Lines /\ Len(SubSeq(text, ci + 2, ci + 1)) = 0
      <4>1. ci + 2 \in Int /\ ci + 1 \in Int /\ ~(ci + 2 <= ci + 1)
        BY <2>3
      <4> QED BY <3>1, <4>1, SubSeqProperties DEF Lines
    <3> QED BY <3>2, LineFacts
  <2> HIDE DEF t, x, f, c
  <2>11. CASE Line!Copy
    <3>1. cb' = cb /\ words' = words /\ ~Line!Cut
      BY <2>11 DEF Line!Copy
    <3>2. ci < m /\ c \in Chars /\ c \notin Delims
      BY <2>1, <2>3, <2>7, <2>8, <3>1 DEF Line!Cut, Line!Ends
    <3>3. SubSeq(text, cb + 1, ci + 1) = Append(w, c)
      <4>1. cb + 1 \in Nat /\ cb + 1 >= 1 /\ cb + 1 <= ci + 1
        BY <2>3
      <4> QED BY <2>3, <3>2, <4>1, PartGrows DEF w, c, t
    <3>4. Append(words, Append(w, c)) = WithChar(f, c)
      <4> DEFINE g == WithChar(f, c)
                 v == Append(w, c)
                 h == Append(words, v)
      <4>1. /\ g \in Seq(Lines) /\ Len(g) = Len(f) /\ g[Len(f)] = Append(f[Len(f)], c)
            /\ \A k \in 1..Len(f) : k # Len(f) => g[k] = f[k]
        BY <2>4, <3>2, SomeWithChar DEF Splits
      <4>2. v \in Lines
        BY <2>5, <3>2, AppendFacts
      <4> HIDE DEF g
      <4>3. g[Len(f)] = v
        BY <2>6, <4>1
      <4> HIDE DEF v
      <4>4. /\ h \in Seq(Lines) /\ Len(h) = Len(words) + 1 /\ h[Len(words) + 1] = v
            /\ \A k \in 1..Len(words) : h[k] = words[k]
        BY <2>4, <4>2, AppendProperties
      <4> HIDE DEF h
      <4>5. \A k \in 1..Len(h) : h[k] = g[k]
        <5>1. ASSUME NEW k \in 1..Len(h) PROVE h[k] = g[k]
          <6>1. k = Len(words) + 1 \/ (k \in 1..Len(words) /\ k # Len(words) + 1)
            BY <2>6, <4>4
          <6> QED BY <2>6, <4>1, <4>3, <4>4, <6>1
        <5> QED BY <5>1
      <4>6. h = g
        BY <2>6, <4>1, <4>4, <4>5, SameFields
      <4> QED BY <4>6 DEF g, h, v
    <3>5. Splits(WithChar(f, c), Append(x, c), Delims)
      BY <2>4, <3>2, SplitsChar
    <3>6. Splits(Append(words', SubSeq(text', cb' + 1, ci')), SubSeq(text', 1, ci'), Delims)
      BY <2>1, <2>7, <3>1, <3>2, <3>3, <3>4, <3>5 DEF x
    <3>7. ~(ci' > Len(text'))
      BY <2>1, <2>3, <3>2
    <3> QED BY <2>4, <3>1, <3>6, <3>7 DEF WordsInv
  <2>12. CASE Line!Skip
    <3>1. cb' = ci + 1 /\ words' = words /\ Line!Cut /\ ci - cb <= 0
      BY <2>12 DEF Line!Skip, Line!cl
    <3>2. w = None
      BY <2>3, <2>5, <3>1, LineFacts
    <3>3. CASE ci < m
      <4>1. Splits(f, Append(x, c), Delims)
        BY <2>4, <2>6, <2>7, <2>9, <3>1, <3>2, <3>3, SplitsDelim
      <4>2. cb' + 1 = ci + 2
        BY <2>3, <3>1
      <4>3. Splits(Append(words', SubSeq(text', cb' + 1, ci')), SubSeq(text', 1, ci'), Delims)
        BY <2>1, <2>7, <2>10, <3>1, <3>2, <3>3, <4>1, <4>2 DEF x, f
      <4>4. ~(ci' > Len(text'))
        BY <2>1, <2>3, <3>3
      <4> QED BY <2>4, <3>1, <4>3, <4>4 DEF WordsInv
    <3>4. CASE ci = m
      <4>1. Line!HasTheWords(f, text, Delims)
        BY <2>4, <2>8, <3>4 DEF Splits
      <4>2. Line!HasTheWords(words, text, Delims)
        <5>1. Line!NotEmpty(f) = Line!NotEmpty(words)
          <6>1. DOMAIN f = 1..(Len(words) + 1) /\ DOMAIN words = 1..Len(words)
            BY <2>4, <2>6, LenProperties
          <6>2. f[Len(words) + 1] = None
            BY <2>6, <3>2
          <6> QED BY <2>6, <6>1, <6>2 DEF Line!NotEmpty, None
        <5>2. \A k \in Line!NotEmpty(words) : f[k] = words[k]
          <6>1. DOMAIN words = 1..Len(words)
            BY <2>4, LenProperties
          <6> QED BY <2>6, <6>1 DEF Line!NotEmpty
        <5>3. PICK at : Locates(at, f, text, Delims)
          BY <4>1, HasPlaces
        <5>4. Locates(at, words, text, Delims)
          BY <5>1, <5>2, <5>3 DEF Locates
        <5> QED BY <5>4, HasPlaces
      <4>3. ~(ci' <= Len(text'))
        BY <2>1, <2>3, <3>4
      <4> QED BY <2>1, <2>4, <3>1, <4>2, <4>3 DEF WordsInv
    <3> QED BY <2>1, <2>3, <3>3, <3>4
  <2>13. CASE Line!Push
    <3> DEFINE b == [buff EXCEPT ![Line!cl] = NUL]
    <3>1. cb' = ci + 1 /\ Line!Cut /\ ci - cb > 0 /\ words' = Append(words, Line!Word(b))
      BY <2>13 DEF Line!Push, Line!cl
    <3>2. Line!Word(b) = w
      <4> DEFINE s == ci - cb
      <4>1. s \in 1..STRBUFFSIZE /\ b = [buff EXCEPT ![s] = NUL]
        BY <2>3, <3>1 DEF Line!cl
      <4> HIDE DEF b
      <4>2. b \in [0..STRBUFFSIZE -> Chars \cup {NUL}] /\ b[s] = NUL /\ \A k \in 0..s - 1 : b[k] = buff[k]
        <5> HIDE DEF s
        <5> QED BY <2>3, <4>1
      <4>3. \A k \in 1..s : b[k - 1] = w[k]
        <5>1. ASSUME NEW k \in 1..s PROVE b[k - 1] = w[k]
          <6>1. k - 1 \in 0..s - 1 /\ cb + (k - 1) + 1 = cb + k /\ k - 1 \in 0..ci - cb - 1
            BY <2>3
          <6> QED BY <2>3, <2>5, <4>2, <6>1
        <5> QED BY <5>1
      <4>4. Len(w) = s
        BY <2>5
      <4> HIDE DEF s
      <4> QED BY <2>5, <4>1, <4>2, <4>3, <4>4, WordIsRead
    <3>3. words' = f
      BY <3>1, <3>2 DEF f
    <3>4. words' \in Seq(Lines) /\ \A k \in 1..Len(words') : words'[k] # None
      <4>1. w # None
        BY <2>5, <3>1, LineFacts
      <4>2. ASSUME NEW k \in 1..Len(f) PROVE f[k] # None
        <5>1. k = Len(f) \/ k \in 1..Len(words)
          BY <2>6
        <5> QED BY <2>4, <2>6, <4>1, <5>1
      <4> QED BY <2>6, <3>3, <4>2
    <3>5. CASE ci < m
      <4>1. Splits(Append(f, None), Append(x, c), Delims)
        BY <2>4, <2>7, <2>9, <3>1, <3>5, SplitsDelim
      <4>2. cb' + 1 = ci + 2
        BY <2>3, <3>1
      <4>3. Splits(Append(words', SubSeq(text', cb' + 1, ci')), SubSeq(text', 1, ci'), Delims)
        BY <2>1, <2>7, <2>10, <3>3, <3>5, <4>1, <4>2 DEF x
      <4>4. ~(ci' > Len(text'))
        BY <2>1, <2>3, <3>5
      <4> QED BY <3>4, <4>3, <4>4 DEF WordsInv
    <3>6. CASE ci = m
      <4>1. Line!HasTheWords(f, text, Delims)
        BY <2>4, <2>8, <3>6 DEF Splits
      <4>2. ~(ci' <= Len(text'))
        BY <2>1, <2>3, <3>6
      <4> QED BY <2>1, <3>3, <3>4, <4>1, <4>2 DEF WordsInv
    <3> QED BY <2>1, <2>3, <3>5, <3>6
  <2> QED BY <1>2, <2>11, <2>12, <2>13
<1> QED BY <1>1, <1>2 DEF Line!Next

LEMMA FoundWords ==
  ASSUME Line!BufferInv, WordsInv
  PROVE  Line!WordsAreFound
<1>1. SUFFICES ASSUME Line!Returned, ShortRuns
               PROVE  Line!NotEmpty(words) = DOMAIN words /\ Line!HasTheWords(words, text, Delims)
  BY DEF Line!WordsAreFound, ShortRuns
<1>2. ci > Len(text) /\ words \in Seq(Lines) /\ \A k \in 1..Len(words) : words[k] # None
  BY <1>1 DEF Line!Returned, WordsInv
<1>3. DOMAIN words = 1..Len(words)
  BY <1>2, LenProperties
<1> QED BY <1>1, <1>2, <1>3 DEF WordsInv, Line!NotEmpty, None

-----------------------------------------------------------------------------
(* All of it.                                                              *)

DataInv == PromptInv /\ DequeInv /\ PointersInv /\ MapInv
ResultsInv == BytesInv /\ BitsInv /\ BitsExist(ba) /\ WordsInv
IInv == DataInv /\ ThreadsInv /\ Line!BufferInv

(* The four parts of CommandsKeepTheRest, of one step.                     *)
ObeysNothingTwice ==
  stream = "failed" /\ shell = "reading" /\ shell' = "obeying" => cmd' = <<>>
KeepsOldPointers ==
  /\ strPtrs' # strPtrs /\ ~Demo!Is("as", 1) => Demo!IsPrefix(strPtrs', strPtrs)
  /\ Demo!Is("rs", 1) /\ strPtrs' # strPtrs /\ Demo!Count(1) \in 0..Len(strPtrs) =>
       Len(strPtrs') + Demo!Count(1) = Len(strPtrs)
ChangesNamedKeys ==
  \A k \in Keys : strMap'[k] # strMap[k] =>
    \/ Map!Is("clear", 2) \/ Demo!Is("clearmap", 1)
    \/ /\ Map!Is("del", 2) \/ Demo!Is("dkey", 2)
       /\ cmd[2] = k /\ strMap'[k] = NoVal
    \/ Map!Is("put", 3) /\ cmd[2] = k /\ strMap'[k] = cmd[3]
DeletesFinished ==
  main = "joining" /\ deleted' # deleted
    => \A t \in deleted' \ deleted : state[t] = "over" /\ left[t] = 0

KeepsTheRest == ObeysNothingTwice /\ KeepsOldPointers /\ ChangesNamedKeys

LEMMA DataUnchanged ==
  ASSUME DataInv, UNCHANGED <<session, promptVars, demoVars, strMap>>
  PROVE  DataInv' /\ KeepsTheRest
  BY DEF DataInv, PromptInv, DequeInv, PointersInv, MapInv, promptVars, demoVars, Demo!DequeIsInOrder,
     Demo!Alive, KeepsTheRest, ObeysNothingTwice, KeepsOldPointers, ChangesNamedKeys

LEMMA DemoActsStep == ASSUME DataInv, DemoActs PROVE DataInv' /\ KeepsTheRest
<1>1. session \in DemoSessions /\ session' = session /\ session # "map" /\ Demo!Next
  BY ShellsAssumption DEF DemoActs
<1>2. CASE Demo!User /\ UNCHANGED Demo!demoVars
  <2>1. /\ cmd' = cmd /\ shell' = shell
        /\ input' = input \/ \E l \in DemoLines : input' = <<l>>
    BY <1>2 DEF Demo!User, Demo!Type, Demo!CloseInput, DemoLines
  <2>2. PromptInv'
    BY <1>1, <2>1, UserStep DEF DataInv, Typed
  <2> QED BY <1>2, <2>1, <2>2 DEF DataInv, Demo!demoVars, DequeInv, PointersInv, MapInv, Demo!DequeIsInOrder,
     Demo!Alive, KeepsTheRest, ObeysNothingTwice, KeepsOldPointers, ChangesNamedKeys
<1>3. CASE Demo!Reads /\ UNCHANGED Demo!demoVars
  <2>1. PromptInv' /\ ObeysNothingTwice
    BY <1>1, <1>3, OnePrompt, ReadsStep DEF DataInv, ObeysNothingTwice
  <2> QED BY <1>3, <2>1 DEF DataInv, Demo!demoVars, DequeInv, PointersInv, MapInv, Demo!DequeIsInOrder,
     Demo!Alive, KeepsTheRest, KeepsOldPointers, ChangesNamedKeys
<1>4. ASSUME Demo!Obey \/ Demo!Unknown \/ Demo!Help \/ Demo!Exit
      PROVE  PromptInv' /\ ObeysNothingTwice
  <2>1. shell = "obeying" /\ UNCHANGED <<input, closed, stream, cmd>>
    BY <1>4, DemoCommandKeeps
  <2> QED BY <1>1, <2>1 DEF DataInv, PromptInv, Counts, Typed, ObeysNothingTwice
<1>5. CASE (Demo!Help \/ Demo!Exit \/ Demo!Unknown) /\ UNCHANGED Demo!demoVars
  BY <1>4, <1>5 DEF DataInv, Demo!demoVars, DequeInv, PointersInv, MapInv, Demo!DequeIsInOrder,
     Demo!Alive, KeepsTheRest, KeepsOldPointers, ChangesNamedKeys
<1>6. CASE Demo!Obey
  <2>1. DequeInv' /\ PointersInv' /\ MapInv' /\ KeepsOldPointers
    BY <1>1, <1>6, DequeStep, PointersStep, DemoMapStep DEF DataInv, KeepsOldPointers
  <2>2. ChangesNamedKeys
    BY <1>6, DemoMapStep DEF DataInv, ChangesNamedKeys
  <2> QED BY <1>4, <1>6, <2>1, <2>2 DEF DataInv, KeepsTheRest
<1>7. Demo!Unknown => UNCHANGED Demo!demoVars
  BY DEF Demo!Unknown
<1> QED BY <1>1, <1>2, <1>3, <1>5, <1>6, <1>7 DEF Demo!Next

LEMMA MapActsStep == ASSUME DataInv, MapActs PROVE DataInv' /\ KeepsTheRest
<1>1. /\ session = "map" /\ session' = session /\ Map!Next
      /\ UNCHANGED <<nwb, strVector, strPtr, strPtrs, dq, written, taken>>
  BY DEF MapActs, demoVars
<1>2. DequeInv' /\ PointersInv' /\ KeepsOldPointers
  BY <1>1 DEF DataInv, DequeInv, PointersInv, Demo!DequeIsInOrder, Demo!Alive, KeepsOldPointers
<1>3. CASE Map!User /\ UNCHANGED <<strMap, reply>>
  <2>1. /\ cmd' = cmd /\ shell' = shell
        /\ input' = input \/ \E l \in MapLines : input' = <<l>>
    BY <1>3 DEF Map!User, Map!Type, Map!CloseInput
  <2>2. PromptInv'
    BY <1>1, <2>1, UserStep DEF DataInv, Typed
  <2> QED BY <1>2, <1>3, <2>1, <2>2 DEF DataInv, MapInv, KeepsTheRest, ObeysNothingTwice, ChangesNamedKeys
<1>4. CASE Map!Reads /\ UNCHANGED <<strMap, reply>>
  <2>1. PromptInv' /\ ObeysNothingTwice
    BY <1>1, <1>4, ReadsStep DEF DataInv, ObeysNothingTwice
  <2> QED BY <1>2, <1>4, <2>1 DEF DataInv, MapInv, KeepsTheRest, ChangesNamedKeys
<1>5. CASE MapCommand
  <2>1. shell = "obeying" /\ UNCHANGED <<input, closed, stream, cmd>>
    BY <1>5, MapCommandKeeps
  <2>2. PromptInv' /\ ObeysNothingTwice
    BY <1>1, <2>1 DEF DataInv, PromptInv, Counts, Typed, ObeysNothingTwice
  <2>3. MapInv' /\ ChangesNamedKeys
    BY <1>5, MapShellStep DEF DataInv, ChangesNamedKeys
  <2> QED BY <1>2, <2>2, <2>3 DEF DataInv, KeepsTheRest
<1> QED BY <1>1, <1>3, <1>4, <1>5 DEF Map!Next, Map!Shell, MapCommand

LEMMA InitInv == Init => IInv
<1> SUFFICES ASSUME Init PROVE IInv
  OBVIOUS
<1>1. ThreadsInv
  BY ThreadsInit DEF Init
<1>2. Demo!Init /\ session \in Sessions /\ Line!Init
  BY DEF Init
<1>3. PromptInv
  BY <1>2 DEF Demo!Init, Demo!ShellInit, PromptInv, Counts
<1>4. DequeInv
  BY <1>2, ConcatEmptySeq, EmptySeq DEF Demo!Init, DequeInv, Demo!DequeIsInOrder
<1>5. PointersInv /\ MapInv
  BY <1>2 DEF Demo!Init, PointersInv, MapInv
<1>6. Line!BufferInv
  BY <1>2, ShellsAssumption DEF Line!CommandLineAssumption, Line!Init, Line!BufferInv, Line!cl
<1> QED BY <1>1, <1>3, <1>4, <1>5, <1>6 DEF IInv, DataInv

LEMMA ThreadsUnchanged ==
  ASSUME ThreadsInv, UNCHANGED threadVars
  PROVE  ThreadsInv' /\ DeletesFinished
  BY DEF threadVars, ThreadsInv, ThreadsOK, ListInv, RunnersInv, Threads!OneWriter, DeletesFinished

LEMMA LineUnchanged ==
  ASSUME Line!BufferInv, UNCHANGED wordVars
  PROVE  Line!BufferInv'
  BY DEF wordVars, Line!BufferInv, Line!cl

LEMMA NextInv ==
  ASSUME IInv, [Next]_vars
  PROVE  IInv' /\ KeepsTheRest /\ DeletesFinished
<1> USE DEF IInv
<1>1. CASE DemoActs
  <2>1. UNCHANGED threadVars /\ UNCHANGED wordVars
    BY <1>1 DEF DemoActs
  <2> QED BY <1>1, <2>1, DemoActsStep, ThreadsUnchanged, LineUnchanged
<1>2. CASE MapActs
  <2>1. UNCHANGED threadVars /\ UNCHANGED wordVars
    BY <1>2 DEF MapActs
  <2> QED BY <1>2, <2>1, MapActsStep, ThreadsUnchanged, LineUnchanged
<1>3. CASE BitsActs \/ RingActs
  <2>1. UNCHANGED threadVars /\ UNCHANGED wordVars
    BY <1>3 DEF BitsActs, RingActs
  <2>2. UNCHANGED <<session, promptVars, demoVars, strMap>>
    BY <1>3 DEF BitsActs, RingActs
  <2> QED BY <2>1, <2>2, DataUnchanged, ThreadsUnchanged, LineUnchanged
<1>4. CASE ThreadsAct
  <2>1. UNCHANGED <<session, promptVars, demoVars, strMap>> /\ UNCHANGED wordVars
    BY <1>4 DEF ThreadsAct, OthersOfThreads
  <2>2. ThreadsInv' /\ DeletesFinished
    BY <1>4, ThreadsStep DEF ThreadsAct, DeletesFinished
  <2> QED BY <2>1, <2>2, DataUnchanged, LineUnchanged
<1>5. CASE LineActs
  <2>1. UNCHANGED <<session, promptVars, demoVars, strMap>> /\ UNCHANGED threadVars
    BY <1>5 DEF LineActs
  <2>2. Line!BufferInv'
    BY <1>5, CharactersFit DEF LineActs
  <2> QED BY <2>1, <2>2, DataUnchanged, ThreadsUnchanged
<1>6. CASE UNCHANGED vars
  <2>1. UNCHANGED <<session, promptVars, demoVars, strMap>> /\ UNCHANGED threadVars
        /\ UNCHANGED wordVars
    BY <1>6 DEF vars
  <2> QED BY <2>1, DataUnchanged, ThreadsUnchanged, LineUnchanged
<1> QED BY <1>1, <1>2, <1>3, <1>4, <1>5, <1>6 DEF Next

(* The shells keep their deque, their threads and the buffer for a word in *)
(* order (maindemo's commands, boost threads and string2vector).           *)
THEOREM ShellsAreInOrder == Spec => []ShellsInv
<1>1. Init => IInv
  BY InitInv
<1>2. IInv /\ [Next]_vars => IInv'
  BY NextInv
<1>3. IInv => ShellsInv
  <2> SUFFICES ASSUME IInv PROVE ShellsInv
    OBVIOUS
  <2>1. Threads!HandlesAreAlive
    BY DEF IInv, ThreadsInv, ListInv, Threads!HandlesAreAlive
  <2>2. Threads!OneWriter /\ Demo!DequeIsInOrder /\ Line!BufferInv
    BY DEF IInv, ThreadsInv, RunnersInv, DataInv, DequeInv
  <2> QED BY <2>1, <2>2 DEF ShellsInv
<1> QED BY <1>1, <1>2, <1>3, PTL DEF Spec

LEMMA BytesUnchanged ==
  ASSUME BytesInv, UNCHANGED demoVars
  PROVE  BytesInv'
  BY DEF BytesInv, demoVars, Demo!BytesAreCounted, Demo!Alive

LEMMA BitsUnchanged ==
  ASSUME BitsInv, BitsExist(ba), ba' = ba
  PROVE  BitsInv' /\ BitsExist(ba')
  BY DEF BitsInv

LEMMA WordsUnchanged ==
  ASSUME WordsInv, UNCHANGED wordVars
  PROVE  WordsInv'
  BY DEF WordsInv, wordVars, ShortRuns

LEMMA ResultsInit == Init => ResultsInv
<1> SUFFICES ASSUME Init PROVE ResultsInv
  OBVIOUS
<1>1. Demo!Init /\ Bits!Init /\ Line!Init
  BY DEF Init
<1>2. BitsExist(ba)
  BY <1>1, NewBitsExist DEF Bits!Init
<1> QED BY <1>1, <1>2, BytesInit, BitsInit, WordsInit DEF ResultsInv

LEMMA ResultsStep == ASSUME IInv, ResultsInv, [Next]_vars PROVE ResultsInv'
<1> USE DEF ResultsInv
<1>1. CASE DemoActs
  <2>1. session \in DemoSessions /\ Demo!Next /\ ba' = ba /\ UNCHANGED wordVars
    BY <1>1 DEF DemoActs, arrayVars
  <2>2. BytesInv'
    <3>1. CASE Demo!Obey
      BY <2>1, <3>1, BytesStep DEF IInv, DataInv
    <3>2. CASE UNCHANGED demoVars
      BY <3>2, BytesUnchanged
    <3>3. UNCHANGED Demo!demoVars => UNCHANGED demoVars
      BY DEF Demo!demoVars, demoVars
    <3>4. Demo!Obey \/ UNCHANGED Demo!demoVars
      BY <2>1 DEF Demo!Next, Demo!Unknown
    <3> QED BY <3>1, <3>2, <3>3, <3>4
  <2> QED BY <2>1, <2>2, BitsUnchanged, WordsUnchanged
<1>2. CASE MapActs \/ RingActs \/ ThreadsAct \/ UNCHANGED vars
  <2>1. UNCHANGED demoVars /\ ba' = ba /\ UNCHANGED wordVars
    BY <1>2 DEF MapActs, RingActs, ThreadsAct, OthersOfThreads, vars, arrayVars
  <2> QED BY <2>1, BytesUnchanged, BitsUnchanged, WordsUnchanged
<1>3. CASE BitsActs
  <2>1. Bits!Next /\ UNCHANGED demoVars /\ UNCHANGED wordVars
    BY <1>3 DEF BitsActs
  <2> QED BY <2>1, BytesUnchanged, BitsStep, BitsExistStep, WordsUnchanged
<1>4. CASE LineActs
  <2>1. Line!Next /\ UNCHANGED demoVars /\ ba' = ba
    BY <1>4 DEF LineActs, arrayVars
  <2> QED BY <2>1, BytesUnchanged, BitsUnchanged, WordsStep DEF IInv
<1> QED BY <1>1, <1>2, <1>3, <1>4 DEF Next

(* What the shells work out is right (wb and fb, bah and bab,              *)
(* string2vector, splitStr and joinStr), for lines of any characters and   *)
(* length, any delimiters and words of any width.                          *)
THEOREM ResultsAreProved == Spec => []ResultsAreRight
<1>1. Init => IInv /\ ResultsInv
  BY InitInv, ResultsInit
<1>2. IInv /\ ResultsInv /\ [Next]_vars => (IInv /\ ResultsInv)'
  BY NextInv, ResultsStep
<1>3. IInv /\ ResultsInv => ResultsAreRight
  <2> SUFFICES ASSUME IInv, ResultsInv PROVE ResultsAreRight
    OBVIOUS
  <2>1. Demo!BytesAreCounted /\ Bits!HexAndBinAgree
    BY DigitsAreFourBits DEF ResultsInv, BytesInv
  <2>2. Line!WordsAreFound
    BY FoundWords DEF IInv, ResultsInv
  <2>3. text \in Lines
    BY DEF IInv, Line!BufferInv, Lines
  <2> QED BY <2>1, <2>2, <2>3, SplitIsRight, JoiningIsUndone DEF ResultsAreRight
<1> QED BY <1>1, <1>2, <1>3, PTL DEF Spec

(* No command changes what it does not name: pointers, entries, threads    *)
(* that run; and what was not read is not obeyed.                          *)
THEOREM TheRestIsKept == Spec => CommandsKeepTheRest
<1>1. Init => IInv
  BY InitInv
<1>2. IInv /\ [Next]_vars => IInv'
  BY NextInv
<1>3. IInv /\ [Next]_vars => [KeepsOldPointers]_(Demo!vars) /\ [ObeysNothingTwice]_(Demo!shellVars)
         /\ [ChangesNamedKeys]_vars /\ [DeletesFinished]_(Threads!vars)
  BY NextInv DEF KeepsTheRest
<1>4. Spec => Demo!OldPointersStay
  BY <1>1, <1>2, <1>3, PTL DEF Spec, Demo!OldPointersStay, KeepsOldPointers
<1>5. Spec => Demo!NothingIsObeyedTwice
  BY <1>1, <1>2, <1>3, PTL DEF Spec, Demo!NothingIsObeyedTwice, ObeysNothingTwice
<1>6. Spec => OnlyNamedKeysChange
  BY <1>1, <1>2, <1>3, PTL DEF Spec, OnlyNamedKeysChange, ChangesNamedKeys
<1>7. Spec => Threads!JoinedAreOver
  BY <1>1, <1>2, <1>3, PTL DEF Spec, Threads!JoinedAreOver, DeletesFinished
<1> QED BY <1>4, <1>5, <1>6, <1>7 DEF CommandsKeepTheRest

(* BitArray is a vector of bits and ring_buffer a queue of bytes, for words *)
(* of any width, arrays and rings of any size and any bytes.               *)
THEOREM AbstractTypesAreImplemented == Spec => ImplementsAbstractTypes
  BY BitsImplementVector, RingImplementsQueue DEF ImplementsAbstractTypes
=============================================================================
