------------------------- MODULE GlbContainerProofs -------------------------
(***************************************************************************)
(* What GlbContainer keeps for any threads, records and requests: its      *)
(* inductive invariant, and that it implements AtomicContainer.            *)
(***************************************************************************)
EXTENDS GlbContainer, SequenceTheorems, FiniteSetTheorems, TLAPS

USE DEF Ops, PCs, IPRecordTypes, IPv4, IPv6

(* Every deque getIPs can hand back is a sequence of the container's       *)
(* records, whatever the algorithm and the question.                       *)
LEMMA SelectionsAreRecords ==
  ASSUME NEW S, NEW seq \in Seq(S), NEW type, NEW mask,
         NEW out \in Selections(type, seq, mask)
  PROVE  out \in Seq(S)
<1>1. \A I \in SUBSET (DOMAIN seq) : Shuffled(seq, I) \subseteq Seq(S)
  <2> TAKE I \in SUBSET (DOMAIN seq)
  <2>1. I \in SUBSET (1..Len(seq)) /\ Len(seq) \in Nat
    BY LenProperties
  <2>2. Cardinality(I) \in Nat
    <3>1. IsFiniteSet(1..Len(seq))
      BY <2>1, FS_Interval
    <3>2. IsFiniteSet(I)
      BY <2>1, <3>1, FS_Subset
    <3> QED
      BY <3>2, FS_CardinalityType
  <2>3. ASSUME NEW p \in SetToSeqs(I)
        PROVE  [k \in DOMAIN p |-> seq[p[k]]] \in Seq(S)
    <3>1. p \in [1..Cardinality(I) -> I]
      BY DEF SetToSeqs
    <3>2. \A i \in I : seq[i] \in S
      BY <2>1, ElementOfSeq
    <3>3. [k \in DOMAIN p |-> seq[p[k]]] \in [1..Cardinality(I) -> S]
      BY <3>1, <3>2
    <3> QED
      BY <2>2, <3>3
  <2> QED
    BY <2>3 DEF Shuffled
<1>2. \A I : InOrder(seq, I) \subseteq Shuffled(seq, I)
  BY DEF InOrder, Shuffled
<1>3. <<>> \in Seq(S)
  OBVIOUS
<1>4. getIPSNoneAlgo(seq, mask) \subseteq Seq(S)
  BY <1>1, <1>2 DEF getIPSNoneAlgo
<1>5. getIPSRandomAlgo(seq, mask) \subseteq Seq(S)
  BY <1>1 DEF getIPSRandomAlgo
<1> QED
  BY <1>3, <1>4, <1>5 DEF Selections

LEMMA InitEstablishes == Init => IInv
BY ThreadsAssumption, MaxCallsAssumption
   DEF Init, IInv, TypeOK, MutexInv, PcMatchesRequest, NoRequest

LEMMA StepPreserves == IInv /\ [Next]_vars => IInv'
<1> SUFFICES ASSUME IInv, [Next]_vars
             PROVE  IInv'
  OBVIOUS
<1> USE ThreadsAssumption, RequestsAssumption, MaxCallsAssumption
        DEF IInv, TypeOK, MutexInv, PcMatchesRequest, Goes
<1>1. ASSUME NEW t \in Threads, Call(t)
      PROVE  IInv'
  <2>1. PICK r \in Requests : /\ req' = [req EXCEPT ![t] = r]
                              /\ Goes(t, "idle", r.op)
    BY <1>1 DEF Call
  <2>2. r \in [op : Ops, batch : Seq(Records), mask : 0..3] /\ r.op \in Ops
    OBVIOUS
  <2>3. TypeOK'
    <3>1. <<>> \in Seq(Records)
      OBVIOUS
    <3>2. calls' \in 0..MaxCalls
      BY <1>1 DEF Call
    <3>3. pc' \in [Threads -> PCs]
      BY <2>1, <2>2
    <3>4. dq' \in [Threads -> Seq(Records)] /\ num' \in [Threads -> Nat]
      BY <1>1, <3>1 DEF Call
    <3> QED
      BY <1>1, <2>1, <2>2, <3>2, <3>3, <3>4 DEF Call
  <2>4. MutexInv'
    BY <1>1, <2>1, <2>2, ZenonT(40) DEF Call
  <2>5. PcMatchesRequest'
    BY <1>1, <2>1, <2>2 DEF Call
  <2> QED
    BY <2>3, <2>4, <2>5
<1>2. ASSUME NEW t \in Threads, SetLock(t)
      PROVE  IInv'
  BY <1>2 DEF SetLock, GlbMutexFree
<1>3. ASSUME NEW t \in Threads, SetPush(t)
      PROVE  IInv'
  <2>1. req[t].batch[pos[t] + 1] \in Records
    BY <1>3, ElementOfSeq DEF SetPush
  <2>2. TypeOK'
    <3>1. ips' \in Seq(Records)
      BY <1>3, <2>1, AppendProperties DEF SetPush
    <3>2. pos' \in [Threads -> Nat]
      BY <1>3 DEF SetPush
    <3> QED
      BY <1>3, <3>1, <3>2 DEF SetPush
  <2>3. MutexInv' /\ PcMatchesRequest'
    BY <1>3, SMTT(30) DEF SetPush
  <2> QED
    BY <2>2, <2>3
<1>4. ASSUME NEW t \in Threads, SetUnlock(t)
      PROVE  IInv'
  BY <1>4, SMTT(30) DEF SetUnlock
<1>5. ASSUME NEW t \in Threads, IncLock(t)
      PROVE  IInv'
  BY <1>5 DEF IncLock, CountMutexFree
<1>6. ASSUME NEW t \in Threads, IncStore(t)
      PROVE  IInv'
  <2>1. TypeOK'
    BY <1>6, SMTT(30) DEF IncStore
  <2>2. \A s \in Threads : pc[s] = "store" => s = t
    BY <1>6 DEF IncStore
  <2>3. MutexInv'
    BY <1>6, <2>2 DEF IncStore
  <2>4. PcMatchesRequest'
    BY <1>6 DEF IncStore
  <2> QED
    BY <2>1, <2>3, <2>4
<1>7. ASSUME NEW t \in Threads, GetIPs(t)
      PROVE  IInv'
  <2>1. PICK out \in Selections(glbType, ips, req[t].mask) :
          dq' = [dq EXCEPT ![t] = out]
    BY <1>7 DEF GetIPs
  <2>2. out \in Seq(Records)
    BY SelectionsAreRecords
  <2> QED
    BY <1>7, <2>1, <2>2 DEF GetIPs
<1>8. ASSUME NEW t \in Threads, ClrNLookups(t)
      PROVE  IInv'
  BY <1>8 DEF ClrNLookups, CountMutexFree
<1>9. ASSUME NEW t \in Threads, GetNLookups(t)
      PROVE  IInv'
  BY <1>9 DEF GetNLookups
<1>10. ASSUME NEW t \in Threads, ContainerToString(t)
       PROVE  IInv'
  BY <1>10 DEF ContainerToString
<1>11. ASSUME UNCHANGED vars
       PROVE  IInv'
  BY <1>11 DEF vars
<1> QED
  BY <1>1, <1>2, <1>3, <1>4, <1>5, <1>6, <1>7, <1>8, <1>9, <1>10, <1>11
     DEF Next, Proceed, Finished

(* The types, the ownership of both mutexes and the position of every      *)
(* thread in its call are invariant: what the glbMutex and nLookupsMutex   *)
(* sections of GlbContainer.cc and GlbContainer.hh are there for.          *)
THEOREM Invariance == Spec => []IInv
<1>1. Init => IInv
  BY InitEstablishes
<1>2. IInv /\ [Next]_vars => IInv'
  BY StepPreserves
<1> QED
  BY <1>1, <1>2, PTL DEF Spec

-----------------------------------------------------------------------------
(* Pushing the next record of a batch leaves unchanged what is there       *)
(* followed by what is still to be pushed.                                 *)
LEMMA PushKeepsSum ==
  ASSUME NEW S, NEW seq \in Seq(S), NEW b \in Seq(S),
         NEW k \in Nat, k < Len(b)
  PROVE  Append(seq, b[k + 1]) \o SubSeq(b, k + 2, Len(b))
           = seq \o SubSeq(b, k + 1, Len(b))
<1> DEFINE rest == SubSeq(b, k + 2, Len(b))
<1>1. /\ Len(b) \in Nat
      /\ k + 1 \in 1 .. Len(b)
      /\ Len(b) \in k + 1 .. Len(b)
  BY LenProperties
<1>2. b[k + 1] \in S /\ <<b[k + 1]>> \in Seq(S)
  BY <1>1, ElementOfSeq
<1>3. rest \in Seq(S)
  <2>1. \A i \in k + 2 .. Len(b) : b[i] \in S
    BY <1>1, ElementOfSeq
  <2> QED
    BY <1>1, <2>1, SubSeqProperties
<1>4. Append(seq, b[k + 1]) = seq \o <<b[k + 1]>>
  BY <1>2, AppendIsConcat
<1>5. SubSeq(b, k + 1, Len(b)) = <<b[k + 1]>> \o rest
  <2>1. SubSeq(b, k + 1, Len(b)) = <<b[k + 1]>> \o SubSeq(b, (k + 1) + 1, Len(b))
    BY <1>1, SubSeqRecursiveFirst
  <2>2. (k + 1) + 1 = k + 2
    OBVIOUS
  <2> QED
    BY <2>1, <2>2
<1> HIDE DEF rest
<1>6. (seq \o <<b[k + 1]>>) \o rest = seq \o (<<b[k + 1]>> \o rest)
  BY <1>2, <1>3, ConcatAssociative
<1> QED
  BY <1>4, <1>5, <1>6 DEF rest

LEMMA InitRefines == Init => Atomic!Init
<1> SUFFICES ASSUME Init
             PROVE  Atomic!Init
  OBVIOUS
<1>1. Published = <<>>
  BY DEF Init, Published
<1>2. \A t \in Threads : Phase(t) = "idle"
  BY DEF Init, Phase
<1>3. [t \in Threads |-> Phase(t)] = [t \in Threads |-> "idle"]
  BY <1>2
<1> QED
  BY <1>1, <1>3 DEF Init, Atomic!Init

(* Each step of the container is a step of AtomicContainer or leaves what  *)
(* that module sees unchanged: taking the exclusive lock publishes the     *)
(* batch, the pushes stutter, and nLookups++ counts at its store.          *)
LEMMA StepRefines == IInv /\ [Next]_vars => [Atomic!Next]_Atomic!vars
<1> SUFFICES ASSUME IInv, [Next]_vars
             PROVE  [Atomic!Next]_Atomic!vars
  OBVIOUS
<1> USE ThreadsAssumption, RequestsAssumption
        DEF IInv, TypeOK, MutexInv, PcMatchesRequest, Goes, Atomic!Goes, Phase
<1>1. ASSUME NEW t \in Threads, Call(t)
      PROVE  Atomic!Invoke(t)
  <2>1. PICK r \in Requests : /\ req' = [req EXCEPT ![t] = r]
                              /\ Goes(t, "idle", r.op)
    BY <1>1 DEF Call
  <2>2. r.op \in Ops
    OBVIOUS
  <2>3. Published' = Published
    <3>1. glbHolder # NoThread => glbHolder \in Threads /\ glbHolder # t
      BY <2>1
    <3> QED
      BY <1>1, <2>1, <3>1 DEF Call, Published
  <2>4. Atomic!Goes(t, "idle", "called")
    BY <2>1, <2>2
  <2> QED
    BY <1>1, <2>1, <2>3, <2>4 DEF Call, Atomic!Invoke
<1>2. ASSUME NEW t \in Threads, SetLock(t)
      PROVE  Atomic!Publish(t)
  <2>1. Published = ips
    BY <1>2 DEF SetLock, GlbMutexFree, Published
  <2>2. Published' = ips \o SubSeq(req[t].batch, 1, Len(req[t].batch))
    BY <1>2, SMTT(30) DEF SetLock, Published
  <2>3. SubSeq(req[t].batch, 1, Len(req[t].batch)) = req[t].batch
    OBVIOUS
  <2> QED
    BY <1>2, <2>1, <2>2, <2>3 DEF SetLock, Atomic!Publish
<1>3. ASSUME NEW t \in Threads, SetPush(t)
      PROVE  UNCHANGED Atomic!vars
  <2>1. glbHolder = t /\ glbHolder' = t /\ t # NoThread
    BY <1>3 DEF SetPush
  <2>2. pos[t] \in Nat /\ req[t].batch \in Seq(Records)
    OBVIOUS
  <2>3. Published' = Append(ips, req[t].batch[pos[t] + 1])
                       \o SubSeq(req[t].batch, pos[t] + 2, Len(req[t].batch))
    <3>1. /\ ips' = Append(ips, req[t].batch[pos[t] + 1])
          /\ req' = req
          /\ pos'[t] + 1 = pos[t] + 2
      BY <1>3, <2>2 DEF SetPush
    <3>2. Published' = ips' \o SubSeq(req'[t].batch, pos'[t] + 1, Len(req'[t].batch))
      BY <2>1 DEF Published
    <3> QED
      BY <3>1, <3>2
  <2>4. pos[t] < Len(req[t].batch)
    BY <1>3 DEF SetPush
  <2>5. Published = ips \o SubSeq(req[t].batch, pos[t] + 1, Len(req[t].batch))
    BY <2>1 DEF Published
  <2>6. Published' = Published
    <3> DEFINE b == req[t].batch
                k == pos[t]
    <3>1. ips \in Seq(Records) /\ b \in Seq(Records) /\ k \in Nat /\ k < Len(b)
      BY <2>2, <2>4
    <3> HIDE DEF b, k
    <3>2. Append(ips, b[k + 1]) \o SubSeq(b, k + 2, Len(b))
            = ips \o SubSeq(b, k + 1, Len(b))
      BY ONLY <3>1, PushKeepsSum
    <3> QED
      BY <2>3, <2>5, <3>2 DEF b, k
  <2> QED
    BY <1>3, <2>6 DEF SetPush, Atomic!vars
<1>4. ASSUME NEW t \in Threads, SetUnlock(t)
      PROVE  Atomic!Return(t)
  <2>1. glbHolder = t /\ glbHolder' = NoThread /\ t # NoThread
    BY <1>4 DEF SetUnlock
  <2>2. SubSeq(req[t].batch, pos[t] + 1, Len(req[t].batch)) = <<>>
    BY <1>4, SubSeqEmpty DEF SetUnlock
  <2>3. Published' = Published
    BY <1>4, <2>1, <2>2, ConcatEmptySeq DEF SetUnlock, Published
  <2> QED
    BY <1>4, <2>3 DEF SetUnlock, Atomic!Return
<1>5. ASSUME NEW t \in Threads, IncLock(t)
      PROVE  UNCHANGED Atomic!vars
  BY <1>5 DEF IncLock, Published, Atomic!vars
<1>6. ASSUME NEW t \in Threads, IncStore(t)
      PROVE  Atomic!Count(t)
  BY <1>6 DEF IncStore, Published, Atomic!Count
<1>7. ASSUME NEW t \in Threads, GetIPs(t)
      PROVE  Atomic!Serve(t)
  <2>1. Published = ips /\ Published' = ips
    BY <1>7 DEF GetIPs, GlbMutexFree, Published
  <2>2. PICK out \in Selections(glbType, ips, req[t].mask) :
          dq' = [dq EXCEPT ![t] = out]
    BY <1>7 DEF GetIPs
  <2>3. Atomic!Goes(t, "counted", "idle")
    BY <1>7 DEF GetIPs
  <2> QED
    BY <1>7, <2>1, <2>2, <2>3 DEF GetIPs, Atomic!Serve
<1>8. ASSUME NEW t \in Threads, ClrNLookups(t)
      PROVE  Atomic!Reset(t)
  BY <1>8 DEF ClrNLookups, Published, Atomic!Reset
<1>9. ASSUME NEW t \in Threads, GetNLookups(t)
      PROVE  Atomic!Report(t)
  BY <1>9 DEF GetNLookups, Published, Atomic!Report
<1>10. ASSUME NEW t \in Threads, ContainerToString(t)
       PROVE  Atomic!Describe(t)
  BY <1>10 DEF ContainerToString, GlbMutexFree, Published, Atomic!Describe
<1>11. ASSUME UNCHANGED vars
       PROVE  UNCHANGED Atomic!vars
  BY <1>11 DEF vars, Published, Atomic!vars
<1> QED
  BY <1>1, <1>2, <1>3, <1>4, <1>5, <1>6, <1>7, <1>8, <1>9, <1>10, <1>11
     DEF Next, Proceed, Finished, Atomic!Next

(* The locks of GlbContainer make its calls atomic: whole batches become   *)
(* visible at once, no count is lost, and every selection is made from the *)
(* batches published at one instant.                                       *)
THEOREM Refinement == Spec => ImplementsAtomicContainer
<1>1. Init => Atomic!Init
  BY InitRefines
<1>2. IInv /\ [Next]_vars => [Atomic!Next]_Atomic!vars
  BY StepRefines
<1> QED
  BY <1>1, <1>2, Invariance, PTL DEF Spec, ImplementsAtomicContainer, Atomic!Spec
=============================================================================
