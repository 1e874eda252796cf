--------------------------- MODULE ThreadManager ---------------------------
(***************************************************************************)
(* maindemo's threads.  The shell's commands create them, join them or let *)
(* them go, through a list of pointers to boost thread objects; each of    *)
(* them writes a line a number of times, under a mutex all of them share.  *)
(* A thread stands for its object, too: both are numbered as created.      *)
(***************************************************************************)
EXTENDS Integers, SequencesExt

CONSTANTS
  MaxThreads,   \* bound: threads created
  MaxTimes,     \* the lines a thread is to write, at most
  NoThread      \* the holder of a free mutex

All == 1..MaxThreads

ThreadManagerAssumption ==
  {MaxThreads, MaxTimes} \subseteq Nat /\ NoThread \notin All

VARIABLES
  threads,      \* the list: objects that are neither joined nor detached
  deleted,      \* the objects deleted
  main, j,      \* what the shell does, and the index joinThreads is at
  n,            \* threads created so far
  state, left,  \* per thread: what it does, and the lines it has to write
  coutMtx,      \* who holds the mutex
  reply         \* what the last command has shown

vars == <<threads, deleted, main, j, n, state, left, coutMtx, reply>>

Init ==
  /\ threads = <<>> /\ deleted = {}
  /\ main = "idle" /\ j = 1 /\ n = 0
  /\ state = [t \in All |-> "none"] /\ left = [t \in All |-> 0]
  /\ coutMtx = NoThread /\ reply = <<>>

-----------------------------------------------------------------------------
(* runner, in each thread.                                                 *)

Goes(t, from, to) == state[t] = from /\ state' = [state EXCEPT ![t] = to]
KeepsManager == UNCHANGED <<threads, deleted, main, j, n, reply>>

(* Mutant: nobody asks who holds the mutex.                                *)
LockIgnored(t) ==
  /\ Goes(t, "sleeping", "writing") /\ left[t] > 0
  /\ coutMtx' = t /\ UNCHANGED left /\ KeepsManager

Lock(t) ==
  /\ Goes(t, "sleeping", "writing") /\ left[t] > 0
  /\ coutMtx = NoThread /\ coutMtx' = t
  /\ UNCHANGED left /\ KeepsManager

(* Mutant: the mutex is not given back.                                    *)
UnlockForgotten(t) ==
  /\ Goes(t, "writing", "sleeping")
  /\ left' = [left EXCEPT ![t] = @ - 1] /\ UNCHANGED coutMtx /\ KeepsManager

Unlock(t) ==
  /\ Goes(t, "writing", "sleeping")
  /\ left' = [left EXCEPT ![t] = @ - 1] /\ coutMtx' = NoThread /\ KeepsManager

Return(t) ==
  /\ Goes(t, "sleeping", "over") /\ left[t] = 0
  /\ UNCHANGED <<left, coutMtx>> /\ KeepsManager

Runner(t) == Lock(t) \/ Unlock(t) \/ Return(t)

-----------------------------------------------------------------------------
(* The manager, in the shell's thread.                                     *)

KeepsThreads == UNCHANGED <<n, state, left, coutMtx>>

newThread ==
  /\ main = "idle" /\ n < MaxThreads /\ n' = n + 1
  /\ threads' = Append(threads, n + 1)
  /\ state' = [state EXCEPT ![n + 1] = "sleeping"]
  /\ \E nTimes \in 0..MaxTimes : left' = [left EXCEPT ![n + 1] = nTimes]
  /\ UNCHANGED <<deleted, main, j, coutMtx, reply>>

(* Mutant: the list keeps its pointers.                                    *)
detachKeepsList ==
  /\ main = "idle"
  /\ deleted' = deleted \cup ToSet(threads)
  /\ UNCHANGED <<threads, main, j, reply>> /\ KeepsThreads

detachThreads ==
  /\ main = "idle"
  /\ deleted' = deleted \cup ToSet(threads) /\ threads' = <<>>
  /\ UNCHANGED <<main, j, reply>> /\ KeepsThreads

joinThreads ==
  /\ main = "idle" /\ main' = "joining" /\ j' = 1
  /\ UNCHANGED <<threads, deleted, reply>> /\ KeepsThreads

(* Mutant: join does not wait.                                             *)
JoinAtOnce ==
  /\ main = "joining" /\ j <= Len(threads)
  /\ deleted' = deleted \cup {threads[j]} /\ j' = j + 1
  /\ UNCHANGED <<threads, main, reply>> /\ KeepsThreads

Join ==
  /\ main = "joining" /\ j <= Len(threads) /\ state[threads[j]] = "over"
  /\ deleted' = deleted \cup {threads[j]} /\ j' = j + 1
  /\ UNCHANGED <<threads, main, reply>> /\ KeepsThreads

AllJoined ==
  /\ main = "joining" /\ j > Len(threads)
  /\ main' = "idle" /\ threads' = <<>> /\ reply' = <<"all joined">>
  /\ UNCHANGED <<deleted, j>> /\ KeepsThreads

Show == main = "idle" /\ reply' = <<"threads", threads>>
ShowCount == main = "idle" /\ reply' = <<"count", Len(threads)>>
ShowThreads ==
  Show /\ UNCHANGED <<threads, deleted, main, j>> /\ KeepsThreads
getNThreads ==
  ShowCount /\ UNCHANGED <<threads, deleted, main, j>> /\ KeepsThreads

(* The shell's exit: the destructor interrupts and deletes, and the        *)
(* process ends with whatever still runs in it.                            *)
Exit ==
  /\ main = "idle" /\ main' = "exited"
  /\ deleted' = deleted \cup ToSet(threads)
  /\ state' = [t \in All |-> IF state[t] = "none" THEN "none" ELSE "over"]
  /\ UNCHANGED <<threads, j, n, left, coutMtx, reply>>

Joining == Join \/ AllJoined
Next ==
  \/ \E t \in All : main # "exited" /\ Runner(t)
  \/ newThread \/ detachThreads \/ joinThreads \/ Joining
  \/ ShowThreads \/ getNThreads \/ Exit

(* Threads run, and so does the shell in joinThreads; what the user types  *)
(* is open.                                                                *)
Spec ==
  /\ Init /\ [][Next]_vars
  /\ \A t \in All : WF_vars(main # "exited" /\ Runner(t))
  /\ WF_vars(Joining)

-----------------------------------------------------------------------------
(* Properties.                                                             *)

(* One line at a time is written, by the holder of the mutex.              *)
OneWriter ==
  main # "exited" => \A t \in All : state[t] = "writing" <=> coutMtx = t

(* Whatever was joined and detached in between, the list holds no pointer  *)
(* to a deleted object when a command starts, no pointer twice, and every  *)
(* thread that is not deleted can be reached through it.                   *)
HandlesAreAlive ==
  main = "idle" => /\ ToSet(threads) = 1..n \ deleted
                   /\ IsInjective(threads)

(* "All threads joined": they have all written their lines, but for those  *)
(* detached before; nobody deletes the object of a running thread without  *)
(* detaching it.                                                           *)
JoinedAreOver ==
  [][main = "joining" /\ deleted' # deleted
       => \A t \in deleted' \ deleted : state[t] = "over" /\ left[t] = 0]_vars

(* jt comes back: each thread gets the mutex in the end.                   *)
JoinReturns == main = "joining" ~> main = "idle"
=============================================================================
