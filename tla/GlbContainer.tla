---------------------------- MODULE GlbContainer ----------------------------
(***************************************************************************)
(* One GlbContainer and the threads that call it: command sessions publish *)
(* records and read or reset the lookup count, PowerDNS threads ask for    *)
(* records.  A step is what the two mutexes let other threads observe:     *)
(* the records of a batch go in one at a time, and nLookups++ is a load    *)
(* and a store.  A section that only reads under a shared lock is one      *)
(* step, enabled while nobody holds the lock exclusively: what it reads    *)
(* cannot change before it ends.                                           *)
(***************************************************************************)
EXTENDS GlbData

CONSTANTS
  Threads,    \* the threads that call the container
  NoThread,   \* the holder of a free mutex
  Records,    \* the IPRecords
  Requests,   \* the calls threads may make: [op, batch, mask]
  MaxCalls    \* bound: calls made over a behaviour

Ops == {"setIPs", "getIPs", "clrNLookups", "getNLookups", "to_string"}

(* The request of a thread that has made no call yet.                      *)
NoRequest == [op |-> "none", batch |-> <<>>, mask |-> 0]

ASSUME ThreadsAssumption == NoThread \notin Threads

ASSUME RecordsAssumption == \A r \in Records : r.type \in IPRecordTypes

ASSUME RequestsAssumption ==
  Requests \subseteq [op : Ops, batch : Seq(Records), mask : 0..3]

ASSUME MaxCallsAssumption == MaxCalls \in Nat

VARIABLES
  glbType,      \* the algorithm the constructor was given
  ips,          \* the records, in the order they were pushed
  nLookups,     \* the lookups counted since the last clrNLookups
  glbHolder,    \* the exclusive holder of glbMutex
  countHolder,  \* the holder of nLookupsMutex
  pc,           \* per thread: where it is
  req,          \* per thread: the call it is in, or was in last
  pos,          \* per thread: how many records of its batch it has pushed
  tmp,          \* per thread: the value nLookups++ has loaded
  dq,           \* per thread: the records its call handed back
  num,          \* per thread: the count its call handed back
  calls         \* calls made so far

vars == <<glbType, ips, nLookups, glbHolder, countHolder,
          pc, req, pos, tmp, dq, num, calls>>

PCs == Ops \cup {"idle", "push", "store", "counted"}

TypeOK ==
  /\ glbType \in GlbTypes
  /\ ips \in Seq(Records)
  /\ nLookups \in Nat
  /\ glbHolder \in Threads \cup {NoThread}
  /\ countHolder \in Threads \cup {NoThread}
  /\ pc \in [Threads -> PCs]
  /\ req \in [Threads -> [op : Ops \cup {"none"}, batch : Seq(Records), mask : 0..3]]
  /\ pos \in [Threads -> Nat]
  /\ tmp \in [Threads -> Nat]
  /\ dq \in [Threads -> Seq(Records)]
  /\ num \in [Threads -> Nat]
  /\ calls \in 0..MaxCalls

Init ==
  /\ glbType \in GlbTypes
  /\ ips = <<>>
  /\ nLookups = 0
  /\ glbHolder = NoThread
  /\ countHolder = NoThread
  /\ pc = [t \in Threads |-> "idle"]
  /\ req = [t \in Threads |-> NoRequest]
  /\ pos = [t \in Threads |-> 0]
  /\ tmp = [t \in Threads |-> 0]
  /\ dq = [t \in Threads |-> <<>>]
  /\ num = [t \in Threads |-> 0]
  /\ calls = 0

Goes(t, from, to) == pc[t] = from /\ pc' = [pc EXCEPT ![t] = to]

Call(t) ==
  /\ calls < MaxCalls
  /\ calls' = calls + 1
  /\ \E r \in Requests :
       /\ req' = [req EXCEPT ![t] = r]
       /\ Goes(t, "idle", r.op)
  /\ dq' = [dq EXCEPT ![t] = <<>>]
  /\ num' = [num EXCEPT ![t] = 0]
  /\ UNCHANGED <<glbType, ips, nLookups, glbHolder, countHolder, pos, tmp>>

-----------------------------------------------------------------------------
NoMutex == TRUE

(* lock_guard and shared_lock on glbMutex: nobody else holds it exclusively. *)
(* No section under the shared lock spans two steps, so no reader is ever   *)
(* in the way of the writer.                                               *)
GlbMutexFree == glbHolder = NoThread

(* lock_guard on nLookupsMutex.                                            *)
CountMutexFree == countHolder = NoThread

(* setIPs: one record at a time, under the exclusive lock.  It appends:    *)
(* what earlier calls published stays.                                     *)

SetLock(t) ==
  /\ GlbMutexFree
  /\ Goes(t, "setIPs", "push")
  /\ glbHolder' = t
  /\ pos' = [pos EXCEPT ![t] = 0]
  /\ UNCHANGED <<glbType, ips, nLookups, countHolder, req, tmp, dq, num, calls>>

SetPush(t) ==
  /\ pc[t] = "push"
  /\ pos[t] < Len(req[t].batch)
  /\ ips' = Append(ips, req[t].batch[pos[t] + 1])
  /\ pos' = [pos EXCEPT ![t] = @ + 1]
  /\ UNCHANGED <<glbType, nLookups, glbHolder, countHolder, pc, req, tmp, dq,
                 num, calls>>

SetUnlockLeaves(t) ==
  /\ pos[t] = Len(req[t].batch)
  /\ Goes(t, "push", "idle")
  /\ UNCHANGED <<glbType, ips, nLookups, glbHolder, countHolder, req, pos, tmp,
                 dq, num, calls>>

SetUnlock(t) ==
  /\ pos[t] = Len(req[t].batch)
  /\ Goes(t, "push", "idle")
  /\ glbHolder' = NoThread
  /\ UNCHANGED <<glbType, ips, nLookups, countHolder, req, pos, tmp, dq, num,
                 calls>>

-----------------------------------------------------------------------------
(* getIPs: incNLookups, then the selection under the shared lock.          *)

IncLock(t) ==
  /\ CountMutexFree
  /\ Goes(t, "getIPs", "store")
  /\ countHolder' = t
  /\ tmp' = [tmp EXCEPT ![t] = nLookups]
  /\ UNCHANGED <<glbType, ips, nLookups, glbHolder, req, pos, dq, num, calls>>

IncStore(t) ==
  /\ Goes(t, "store", "counted")
  /\ nLookups' = tmp[t] + 1
  /\ countHolder' = NoThread
  /\ UNCHANGED <<glbType, ips, glbHolder, req, pos, tmp, dq, num, calls>>

GetIPs(t) ==
  /\ GlbMutexFree
  /\ Goes(t, "counted", "idle")
  /\ \E out \in Selections(glbType, ips, req[t].mask) :
       dq' = [dq EXCEPT ![t] = out]
  /\ UNCHANGED <<glbType, ips, nLookups, glbHolder, countHolder, req, pos, tmp,
                 num, calls>>

-----------------------------------------------------------------------------
(* The other calls.  to_string holds the shared glbMutex but reads nLookups *)
(* without its mutex: a load that races with a store sees the value before *)
(* or the one after.                                                       *)

ClrNLookups(t) ==
  /\ CountMutexFree
  /\ Goes(t, "clrNLookups", "idle")
  /\ nLookups' = 0
  /\ UNCHANGED <<glbType, ips, glbHolder, countHolder, req, pos, tmp, dq, num,
                 calls>>

GetNLookups(t) ==
  /\ CountMutexFree
  /\ Goes(t, "getNLookups", "idle")
  /\ num' = [num EXCEPT ![t] = nLookups]
  /\ UNCHANGED <<glbType, ips, nLookups, glbHolder, countHolder, req, pos, tmp,
                 dq, calls>>

ContainerToString(t) ==
  /\ GlbMutexFree
  /\ Goes(t, "to_string", "idle")
  /\ num' = [num EXCEPT ![t] = nLookups]
  /\ dq' = [dq EXCEPT ![t] = ips]
  /\ UNCHANGED <<glbType, ips, nLookups, glbHolder, countHolder, req, pos, tmp,
                 calls>>

-----------------------------------------------------------------------------
(* What a call that has begun does by itself: every step but Call.         *)
Proceed(t) ==
  \/ SetLock(t) \/ SetPush(t) \/ SetUnlock(t)
  \/ IncLock(t) \/ IncStore(t) \/ GetIPs(t)
  \/ ClrNLookups(t) \/ GetNLookups(t) \/ ContainerToString(t)

(* The bounded workload is over.                                           *)
Finished ==
  /\ calls = MaxCalls
  /\ \A t \in Threads : pc[t] = "idle"
  /\ UNCHANGED vars

Next == (\E t \in Threads : Call(t) \/ Proceed(t)) \/ Finished

Fairness == \A t \in Threads : WF_vars(Proceed(t))

Spec == Init /\ [][Next]_vars /\ Fairness

-----------------------------------------------------------------------------
(* A mutex is held exactly by the thread inside its section, the count a   *)
(* thread is about to store is based on the current one, and a push stays  *)
(* inside the batch.                                                       *)
MutexInv ==
  /\ \A t \in Threads : pc[t] = "push" <=> glbHolder = t
  /\ \A t \in Threads : pc[t] = "store" <=> countHolder = t
  /\ \A t \in Threads : pc[t] = "store" => tmp[t] = nLookups
  /\ \A t \in Threads : pc[t] = "push" => pos[t] <= Len(req[t].batch)

(* Each program counter belongs to the call that was made.                 *)
PcMatchesRequest ==
  \A t \in Threads :
    /\ pc[t] \in Ops => req[t].op = pc[t]
    /\ pc[t] = "push" => req[t].op = "setIPs"
    /\ pc[t] \in {"store", "counted"} => req[t].op = "getIPs"

(* The inductive invariant of the container: its types, the ownership of   *)
(* its two mutexes and the position of every thread in its call.           *)
IInv == TypeOK /\ MutexInv /\ PcMatchesRequest

(* The promise: the container implements AtomicContainer.  A batch counts  *)
(* as published from the moment setIPs has the exclusive lock, so what the *)
(* abstract container holds is ips and what the holder has yet to push.    *)
Published ==
  IF glbHolder = NoThread
  THEN ips
  ELSE ips \o SubSeq(req[glbHolder].batch, pos[glbHolder] + 1,
                     Len(req[glbHolder].batch))

Phase(t) ==
  IF pc[t] \in Ops \cup {"store"} THEN "called"
  ELSE IF pc[t] = "push" THEN "published" ELSE pc[t]

Atomic == INSTANCE AtomicContainer WITH
            contents <- Published,
            count    <- nLookups,
            phase    <- [t \in Threads |-> Phase(t)]

(* Every answer and every description is that of whole batches, in the     *)
(* order they were published, no lookup is lost, and no count is taken     *)
(* twice: GlbContainer.cc's and GlbContainer.hh's locks make the           *)
(* container's calls atomic.                                               *)
ImplementsAtomicContainer == Atomic!Spec

(* No call waits for ever on a mutex: a finite workload runs to its end.   *)
CallsReturn == \A t \in Threads : pc[t] # "idle" ~> pc[t] = "idle"
=============================================================================
