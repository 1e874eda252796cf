------------------------ MODULE GLBCollectionProofs ------------------------
(***************************************************************************)
(* For any threads, names and containers: what a call of the collection    *)
(* has found stays true until it acts, so nothing is replaced and no null  *)
(* pointer made up.                                                        *)
(***************************************************************************)
EXTENDS GLBCollection, TLAPS

LEMMA InitEstablishes ==
  ASSUME \E c \in Calls : c.op = "size", Init
  PROVE  IInv /\ NoNullHandedOut
<1> USE DEF Init, IInv, TypeOK, LockInv, FoundStaysTrue, NoNullHandedOut
<1>1. (CHOOSE c \in Calls : c.op = "size") \in Calls
  OBVIOUS
<1> QED
  BY <1>1, GlbsAssumption

LEMMA CallFields ==
  ASSUME NEW c \in Calls
  PROVE  /\ c.op \in {"add", "remove", "get", "size", "other"}
         /\ c.name \in Names
         /\ c.op = "add" => c.glb \in Glbs
BY DEF Calls

(* A writer is alone, so nobody else's finding is disturbed by it.         *)
LEMMA WriterIsAlone ==
  ASSUME IInv, NEW t \in writer, NEW u \in Threads, pc[u] = "found"
  PROVE  u = t
BY DEF IInv, LockInv, TypeOK

LEMMA StepPreserves ==
  ASSUME IInv, NoNullHandedOut, [Next]_vars
  PROVE  IInv' /\ NoNullHandedOut'
<1> USE GlbsAssumption
    DEF IInv, TypeOK, LockInv, FoundStaysTrue, NoNullHandedOut
<1>1. ASSUME NEW t \in Threads, Begin(t)
      PROVE  IInv' /\ NoNullHandedOut'
  <2>1. PICK c \in Calls : call' = [call EXCEPT ![t] = c]
    BY <1>1 DEF Begin
  <2> QED
    BY <1>1, <2>1 DEF Begin, Goes
<1>2. ASSUME NEW t \in Threads, Find(t)
      PROVE  IInv' /\ NoNullHandedOut'
  BY <1>2, CallFields DEF Find, Goes, CanWrite, CanRead
<1>3. ASSUME NEW t \in Threads, Add(t)
      PROVE  IInv' /\ NoNullHandedOut'
  <2>1. t \in writer /\ call[t].glb \in Glbs /\ call[t].name \in Names
    BY <1>3, CallFields DEF Add, Ends, Goes
  <2>2. \A u \in Threads : pc[u] = "found" => u = t
    BY <2>1, WriterIsAlone
  <2>3. PICK r \in {<<"done">>, <<"GLBExistsException">>} : Ends(t, "found", r)
    BY <1>3 DEF Add
  <2>4. glbMap' \in [Names -> Glbs \cup {NoGlb}] /\ UNCHANGED global
    BY <1>3, <2>1 DEF Add
  <2> QED
    BY <2>1, <2>2, <2>3, <2>4 DEF Ends, Goes
<1>4. ASSUME NEW t \in Threads, Remove(t)
      PROVE  IInv' /\ NoNullHandedOut'
  <2>1. t \in writer
    BY <1>4 DEF Remove, Ends, Goes
  <2>2. \A u \in Threads : pc[u] = "found" => u = t
    BY <2>1, WriterIsAlone
  <2>3. PICK r \in {<<"done">>, <<"GLBNotFoundException">>} : Ends(t, "found", r)
    BY <1>4 DEF Remove
  <2>4. glbMap' \in [Names -> Glbs \cup {NoGlb}] /\ UNCHANGED global
    BY <1>4 DEF Remove
  <2> QED
    BY <2>1, <2>2, <2>3, <2>4 DEF Ends, Goes
<1>5. ASSUME NEW t \in Threads, Get(t)
      PROVE  IInv' /\ NoNullHandedOut'
  <2>1. found[t] = glbMap[call[t].name] /\ call[t].name \in Names
    BY <1>5, CallFields DEF Get, Ends, Goes
  <2>2. UNCHANGED <<glbMap, global>>
    BY <1>5, <2>1 DEF Get
  <2>3. PICK r \in {<<"GLBNotFoundException">>}
                     \cup {<<"glb", g>> : g \in Glbs} : Ends(t, "found", r)
    BY <1>5, <2>1 DEF Get
  <2>4. r # <<"glb", Null>>
    OBVIOUS
  <2> QED
    BY <2>2, <2>3, <2>4 DEF Ends, Goes
<1>6. ASSUME NEW t \in Threads, Size(t)
      PROVE  IInv' /\ NoNullHandedOut'
  BY <1>6 DEF Size, Ends, Goes
<1>7. ASSUME NEW t \in Threads, OtherMap(t)
      PROVE  IInv' /\ NoNullHandedOut'
  BY <1>7, CallFields DEF OtherMap, Ends, Goes, CanWrite
<1>8. CASE UNCHANGED vars
  BY <1>8 DEF vars
<1> QED
  BY <1>1, <1>2, <1>3, <1>4, <1>5, <1>6, <1>7, <1>8 DEF Next, Step

(* The lock makes what a call has found true until it acts, and get never  *)
(* hands out a pointer that operator[] made up.  (There is a call of       *)
(* size, when there is a name.)                                            *)
THEOREM NothingIsMadeUp ==
  Names # {} => (Spec => [](IInv /\ NoNullHandedOut))
<1> SUFFICES ASSUME Names # {}
             PROVE  Spec => [](IInv /\ NoNullHandedOut)
  OBVIOUS
<1>1. \E c \in Calls : c.op = "size"
  <2>1. PICK n \in Names : TRUE
    OBVIOUS
  <2>2. [op |-> "size", name |-> n] \in Calls
    BY DEF Calls
  <2> QED
    BY <2>2
<1>2. Init => IInv /\ NoNullHandedOut
  BY <1>1, InitEstablishes
<1>3. (IInv /\ NoNullHandedOut) /\ [Next]_vars => (IInv /\ NoNullHandedOut)'
  BY StepPreserves
<1> QED
  BY <1>2, <1>3, PTL DEF Spec

(* Of two adds of one name that meet, one throws.                          *)
THEOREM ContainersAreNotReplaced == Names # {} => (Spec => NeverReplaced)
<1> SUFFICES ASSUME Names # {}
             PROVE  Spec => NeverReplaced
  OBVIOUS
<1>1. IInv /\ [Next]_vars =>
        [\A n \in Names : glbMap'[n] # glbMap[n]
                           => NoGlb \in {glbMap[n], glbMap'[n]}]_vars
  <2> SUFFICES ASSUME IInv, Next, NEW n \in Names, glbMap'[n] # glbMap[n]
               PROVE  NoGlb \in {glbMap[n], glbMap'[n]}
    BY DEF vars
  <2>1. PICK t \in Threads : Begin(t) \/ Step(t)
    BY DEF Next
  <2> QED
    BY <2>1, CallFields DEF Begin, Step, Find, Add, Remove, Get, Size,
       OtherMap, Ends, Goes, IInv, TypeOK, FoundStaysTrue
<1>2. Spec => []IInv
  BY NothingIsMadeUp, PTL
<1> QED
  BY <1>1, <1>2, PTL DEF Spec, NeverReplaced
=============================================================================
