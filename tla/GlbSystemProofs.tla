--------------------------- MODULE GlbSystemProofs ---------------------------
(***************************************************************************)
(* For any number of sessions, PowerDNS threads, names, commands and       *)
(* questions: the map's lock keeps iterators valid, a container stays with *)
(* the name it was made for, nothing that was erased comes back; answers   *)
(* are consistent; and the commands implement GlbRegistry.                 *)
(***************************************************************************)
EXTENDS GlbSystem, FiniteSetTheorems, TLAPS

(* The variables whose contents TypeOK leaves open.                        *)
ShapeInv ==
  /\ todo \in [Sessions -> Seq(Names)]
  /\ ips = [g \in Glbs |-> ips[g]]
  /\ IsFiniteSet(Registered)

(* A session is at a place where its command may take it.                  *)
StagesInv ==
  \A s \in Sessions :
    /\ pc[s] # "idle" => cmd[s] \in Commands
    /\ pc[s] \in Ops => cmd[s].op = pc[s]
    /\ pc[s] = "inserting" => cmd[s].op = "ADD_DOMAIN"
    /\ pc[s] = "erasing" => cmd[s].op \in {"DEL_DOMAIN", "CLR_DOMAINS"}
    /\ pc[s] = "applying" => cmd[s].op = "SNAPSHOT"

(* A container that is being inserted is known to nobody else, and it and  *)
(* those not allocated yet are as the constructor leaves them.             *)
FreshInv ==
  /\ \A g \in Unused : ips[g] = <<>> /\ nLookups[g] = 0
  /\ \A s \in Sessions : pc[s] = "inserting" =>
       /\ cmd[s].fqdn \notin Registered
       /\ \A n \in Names : glbMap[n] # glb[s]
       /\ \A t \in Sessions : pc[t] = "applying" => glb[t] # glb[s]
       /\ \A b \in Backends : found[b] # glb[s]
       /\ ips[glb[s]] = <<>> /\ nLookups[glb[s]] = 0

(* A backend has a question when it searches the map, and a container when *)
(* it asks that for addresses.                                             *)
BackendInv ==
  \A b \in Backends :
    /\ bpc[b] = "find" \/ found[b] # NoGlb => question[b] \in Questions
    /\ bpc[b] = "NS" => question[b] \in Questions
    /\ bpc[b] \in {"count", "select"} => found[b] # NoGlb

IInv ==
  /\ TypeOK /\ MapLockInv /\ ShapeInv /\ StagesInv
  /\ ContainersKeepTheirName /\ FreshInv /\ BackendInv /\ IteratorsStayValid

-----------------------------------------------------------------------------
(* What a session goes round is made of registered names.                  *)

LEMMA OrdersAreSequences ==
  ASSUME NEW S, IsFiniteSet(S), NEW order \in SetToSeqs(S)
  PROVE  order \in Seq(S)
<1>1. Cardinality(S) \in Nat
  BY FS_CardinalityType
<1>2. order \in [1..Cardinality(S) -> S]
  BY DEF SetToSeqs
<1> QED
  BY <1>1, <1>2

LEMMA RemainderInRange ==
  ASSUME NEW a \in Nat, NEW b \in Nat, b > 0
  PROVE  a % b \in 0..(b - 1)
OBVIOUS

LEMMA RoundsAreSequences ==
  ASSUME NEW S, NEW seq \in Seq(S), NEW n \in Nat
  PROVE  Repeated(seq, n) \in Seq(S)
<1> DEFINE rounds == n * Len(seq)
<1>1. Len(seq) \in Nat /\ rounds \in Nat
  OBVIOUS
<1>2. ASSUME NEW i \in 1..rounds
      PROVE  seq[((i - 1) % Len(seq)) + 1] \in S
  <2>1. Len(seq) # 0
    <3> SUFFICES ASSUME Len(seq) = 0
                 PROVE  FALSE
      OBVIOUS
    <3>1. rounds = 0
      OBVIOUS
    <3> QED
      BY <3>1
  <2>2. (i - 1) % Len(seq) \in 0..(Len(seq) - 1)
    BY <1>1, <2>1, RemainderInRange
  <2>3. ((i - 1) % Len(seq)) + 1 \in 1..Len(seq)
    BY <1>1, <2>2
  <2> QED
    BY <2>3
<1> QED
  BY <1>1, <1>2 DEF Repeated

LEMMA ItinerariesStayInTheMap ==
  ASSUME CommandsAssumption, IsFiniteSet(Registered),
         NEW c \in Commands, c.op \in {"COUNTS", "CLR_COUNTS", "DEBUG_DOMAINS"},
         NEW names \in Itineraries(c)
  PROVE  /\ names \in Seq(Names)
         /\ (c.op = "CLR_COUNTS" => c.fqdns = <<>>) => names \in Seq(Registered)
<1>1. CASE c.op = "CLR_COUNTS" /\ c.fqdns # <<>>
  BY <1>1 DEF Itineraries, CommandsAssumption
<1>2. CASE c.op = "DEBUG_DOMAINS"
  <2>1. PICK order \in SetToSeqs(Registered) : names = Repeated(order, c.nLoops)
    BY <1>2 DEF Itineraries
  <2>2. order \in Seq(Registered) /\ c.nLoops \in Nat
    BY <1>2, OrdersAreSequences DEF CommandsAssumption
  <2>3. names \in Seq(Registered)
    BY <2>1, <2>2, RoundsAreSequences
  <2> QED
    BY <2>3 DEF Registered
<1>3. CASE ~(c.op = "CLR_COUNTS" /\ c.fqdns # <<>>) /\ c.op # "DEBUG_DOMAINS"
  <2>1. names \in SetToSeqs(Registered)
    BY <1>3 DEF Itineraries
  <2>2. names \in Seq(Registered)
    BY <2>1, OrdersAreSequences
  <2> QED
    BY <2>2 DEF Registered
<1> QED
  BY <1>1, <1>2, <1>3

-----------------------------------------------------------------------------
(* The steps of a session.  What its command holds, by where it is.        *)

LEMMA CommandFields ==
  ASSUME IInv, NEW s \in Sessions, pc[s] # "idle"
  PROVE  /\ cmd[s] \in Commands
         /\ pc[s] \in {"ADD_DOMAIN", "DEL_DOMAIN", "SNAPSHOT", "inserting", "applying"}
              => cmd[s].fqdn \in Names
         /\ pc[s] \in {"inserting", "applying"}
              => glb[s] \in Glbs /\ cname[glb[s]] = cmd[s].fqdn
<1>1. cmd[s] \in Commands
  BY DEF IInv, StagesInv
<1>2. pc[s] \in {"ADD_DOMAIN", "DEL_DOMAIN", "SNAPSHOT", "inserting", "applying"}
        => cmd[s].op \in {"ADD_DOMAIN", "DEL_DOMAIN", "SNAPSHOT"}
  BY DEF IInv, StagesInv, Ops
<1>3. cmd[s].op \in {"ADD_DOMAIN", "DEL_DOMAIN", "SNAPSHOT"} => cmd[s].fqdn \in Names
  BY <1>1, CommandsAssumption DEF CommandsAssumption
<1>4. pc[s] \in {"inserting", "applying"}
        => glb[s] \in Glbs /\ cname[glb[s]] = cmd[s].fqdn
  BY DEF IInv, TypeOK, ContainersKeepTheirName
<1> QED
  BY <1>1, <1>2, <1>3, <1>4

(* An answer that leaves the map and the containers alone, from a place    *)
(* without the lock.                                                       *)
LEMMA AnswerPreserves ==
  ASSUME IInv, NEW s \in Sessions, NEW from \in Ops, NEW status,
         Answers(s, from, status), UNCHANGED <<up, mapVars, glbVars, backendVars>>
  PROVE  IInv'
<1> USE DEF Answers, Goes, mapVars, glbVars, backendVars, soaMembers, Ops
<1>1. TypeOK' /\ MapLockInv'
  BY DEF IInv, TypeOK, MapLockInv, SessionPCs
<1>2. ShapeInv' /\ StagesInv'
  BY DEF IInv, TypeOK, ShapeInv, StagesInv, Registered
<1>3. ContainersKeepTheirName' /\ BackendInv'
  BY DEF IInv, TypeOK, ContainersKeepTheirName, BackendInv, Registered, Lower
<1>4. FreshInv'
  BY DEF IInv, TypeOK, FreshInv, Unused, Registered
<1>5. IteratorsStayValid'
  BY DEF IInv, TypeOK, IteratorsStayValid, Registered
<1> QED
  BY <1>1, <1>2, <1>3, <1>4, <1>5 DEF IInv

LEMMA ReceivePreserves ==
  ASSUME IInv, NEW s \in Sessions, Receive(s), UNCHANGED backendVars
  PROVE  IInv'
<1> USE DEF Goes, sharedVars, mapVars, glbVars, backendVars, soaMembers, Ops
<1>1. PICK c \in Commands :
        /\ Goes(s, "idle", c.op)
        /\ cmd' = [cmd EXCEPT ![s] = c]
        /\ todo' = [todo EXCEPT ![s] = IF c.op = "COUNTS" THEN c.fqdns ELSE <<>>]
  BY DEF Receive
<1>2. /\ c.op \in Ops
      /\ (IF c.op = "COUNTS" THEN c.fqdns ELSE <<>>) \in Seq(Names)
  <2>1. c.op \in Ops /\ (c.op = "COUNTS" => c.fqdns \in Seq(Names))
    BY CommandsAssumption DEF CommandsAssumption
  <2>2. <<>> \in Seq(Names)
    OBVIOUS
  <2> QED
    BY <2>1, <2>2
<1>3. TypeOK' /\ MapLockInv'
  <2>1. /\ UNCHANGED sharedVars
        /\ glb' = [glb EXCEPT ![s] = NoGlb]
        /\ failed' = [failed EXCEPT ![s] = FALSE]
    BY DEF Receive
  <2>2. c.op \in SessionPCs /\ c.op \notin {"idle", "inserting", "erasing", "visiting"}
    BY <1>2 DEF SessionPCs
  <2>3. TypeOK'
    BY <1>1, <2>1, <2>2 DEF IInv, TypeOK
  <2>4. MapLockInv'
    BY <1>1, <2>1, <2>2 DEF IInv, TypeOK, MapLockInv
  <2> QED
    BY <2>3, <2>4
<1>4. ShapeInv' /\ StagesInv'
  <2>1. Registered' = Registered /\ ips' = ips
    BY DEF Receive, Registered
  <2>2. ShapeInv'
    BY <1>1, <1>2, <2>1 DEF IInv, ShapeInv
  <2>3. StagesInv'
    BY <1>1, <1>2 DEF IInv, TypeOK, StagesInv
  <2> QED
    BY <2>2, <2>3
<1>5. ContainersKeepTheirName' /\ BackendInv'
  BY <1>1, <1>2 DEF Receive, IInv, TypeOK, ContainersKeepTheirName, BackendInv,
     Registered, Lower
<1>6. FreshInv' /\ IteratorsStayValid'
  <2>1. \A t \in Sessions : pc'[t] \in {"inserting", "applying", "visiting"} =>
          /\ t # s /\ pc'[t] = pc[t] /\ glb'[t] = glb[t]
          /\ cmd'[t] = cmd[t] /\ todo'[t] = todo[t]
    BY <1>1, <1>2 DEF Receive, IInv, TypeOK, ShapeInv
  <2>2. UNCHANGED <<glbMap, cname, ips, nLookups, found>>
    BY DEF Receive
  <2>3. FreshInv'
    BY <2>1, <2>2 DEF IInv, FreshInv, Unused, Registered
  <2>4. IteratorsStayValid'
    BY <2>1, <2>2 DEF IInv, IteratorsStayValid, Registered
  <2> QED
    BY <2>3, <2>4
<1> QED
  BY <1>3, <1>4, <1>5, <1>6 DEF IInv

LEMMA AddBeginPreserves ==
  ASSUME IInv, NEW s \in Sessions, AddBegin(s), UNCHANGED backendVars
  PROVE  IInv'
<1> USE CommandFields, IdentitiesAssumption
    DEF Goes, soaVars, backendVars, soaMembers
<1> DEFINE new == NewGlb
<1>1. new \in Unused /\ new \in Glbs /\ cname[new] = NoName
  BY DEF AddBegin, NewGlb, Unused
<1>2. cmd[s].fqdn \in Names /\ cmd[s].fqdn # NoName /\ cmd[s].algo \in GlbTypes
  BY DEF AddBegin
<1>3. /\ \A n \in Names : glbMap[n] # new
      /\ \A t \in Sessions : pc[t] \in {"inserting", "applying"} => glb[t] # new
      /\ \A b \in Backends : found[b] # new
  <2>1. \A n \in Names : glbMap[n] # new
    BY <1>1 DEF IInv, ContainersKeepTheirName, Registered
  <2>2. \A t \in Sessions : pc[t] \in {"inserting", "applying"} => glb[t] # new
    BY <1>1
  <2>3. ASSUME NEW b \in Backends, found[b] = new
        PROVE  FALSE
    <3>1. question[b] \in Questions /\ cname[new] = Lower(b)
      BY <1>1, <2>3 DEF IInv, BackendInv, ContainersKeepTheirName
    <3>2. Lower(b) \in Names
      BY <3>1, QuestionsAssumption, LowerCaseAssumption
         DEF Lower, QuestionsAssumption, LowerCaseAssumption
    <3> QED
      BY <1>1, <3>1, <3>2
  <2> QED
    BY <2>1, <2>2, <2>3
<1>4. TypeOK' /\ MapLockInv'
  BY <1>1, <1>2 DEF AddBegin, IInv, TypeOK, MapLockInv, SessionPCs, CanWrite
<1>5. ShapeInv' /\ StagesInv'
  BY <1>1 DEF AddBegin, IInv, TypeOK, ShapeInv, StagesInv, Registered, Ops
<1>6. ContainersKeepTheirName' /\ BackendInv'
  <2>1. BackendInv'
    BY DEF AddBegin, IInv, BackendInv
  <2>2. \A n \in Registered' : cname'[glbMap'[n]] = n
    BY <1>1, <1>3 DEF AddBegin, IInv, TypeOK, ContainersKeepTheirName, Registered
  <2>3. \A t \in Sessions : pc'[t] \in {"inserting", "applying"}
          => glb'[t] # NoGlb /\ cname'[glb'[t]] = cmd'[t].fqdn
    BY <1>1, <1>2, <1>3 DEF AddBegin, IInv, TypeOK, ContainersKeepTheirName
  <2>4. \A b \in Backends : found'[b] # NoGlb => cname'[found'[b]] = Lower(b)'
    BY <1>1, <1>3 DEF AddBegin, IInv, TypeOK, ContainersKeepTheirName, Lower
  <2> QED
    BY <2>1, <2>2, <2>3, <2>4 DEF ContainersKeepTheirName
<1>7. FreshInv'
  BY <1>1, <1>2, <1>3 DEF AddBegin, IInv, TypeOK, FreshInv, Unused, Registered
<1>8. IteratorsStayValid'
  BY DEF AddBegin, IInv, TypeOK, IteratorsStayValid, Registered
<1> QED
  BY <1>4, <1>5, <1>6, <1>7, <1>8 DEF IInv

(* The type of a container that a backend has found stays.                 *)
LEMMA FoundKeepsItsType ==
  ASSUME IInv, NEW s \in Sessions, Receive(s) \/ SessionStep(s),
         NEW b \in Backends, found[b] # NoGlb
  PROVE  glbType'[found[b]] = glbType[found[b]]
<1>1. CASE AddBegin(s)
  <2>1. glbType' = [glbType EXCEPT ![NewGlb] = cmd[s].algo] /\ cname[NewGlb] = NoName
    BY <1>1 DEF AddBegin, NewGlb, Unused
  <2>2. question[b] \in Questions /\ cname[found[b]] = Lower(b)
    BY DEF IInv, BackendInv, ContainersKeepTheirName
  <2>3. Lower(b) \in Names
    BY <2>2, QuestionsAssumption, LowerCaseAssumption
       DEF Lower, QuestionsAssumption, LowerCaseAssumption
  <2>4. found[b] # NewGlb
    BY <2>1, <2>2, <2>3, IdentitiesAssumption
  <2> QED
    BY <2>1, <2>4 DEF IInv, TypeOK
<1>2. CASE ~AddBegin(s)
  <2>1. UNCHANGED glbType
    BY <1>2 DEF Receive, SessionStep, AddUnknownAlgo, AddExists, AddDone,
       DelMissing, EraseBegin, EraseDone, SnapMissing, SnapFind, SnapApply,
       CountsOne, CountsDone, ShareLock, VisitReads, VisitClears, VisitDone,
       SetSOA, SetNS, UnknownCommand, sharedVars, glbVars
  <2> QED
    BY <2>1
<1> QED
  BY <1>1, <1>2

(* While one session is inside the hash table no other one is, and none    *)
(* iterates over it.                                                       *)
LEMMA WriterIsAlone ==
  ASSUME IInv, NEW s \in Sessions, pc[s] \in {"inserting", "erasing"}
  PROVE  /\ mapWriter = s
         /\ \A t \in Sessions : pc[t] \in {"inserting", "erasing"} => t = s
         /\ \A t \in Sessions : pc[t] # "visiting"
BY IdentitiesAssumption DEF IInv, MapLockInv

LEMMA AddDonePreserves ==
  ASSUME IInv, NEW s \in Sessions, AddDone(s), UNCHANGED backendVars
  PROVE  IInv'
<1> USE CommandFields, WriterIsAlone, IdentitiesAssumption
    DEF Answers, Goes, glbVars, soaVars, backendVars, soaMembers, AddDone
<1>1. pc[s] = "inserting" /\ cmd[s].fqdn \in Names /\ glb[s] \in Glbs
  OBVIOUS
<1>2. TypeOK' /\ MapLockInv'
  BY <1>1, ZenonT(40) DEF IInv, TypeOK, MapLockInv, SessionPCs
<1>3. ShapeInv' /\ StagesInv'
  <2>1. Registered' \subseteq Registered \cup {cmd[s].fqdn}
    BY <1>1 DEF IInv, TypeOK, Registered
  <2>2. IsFiniteSet(Registered')
    BY <2>1, FS_AddElement, FS_Subset DEF IInv, ShapeInv
  <2> QED
    BY <1>1, <2>2 DEF IInv, TypeOK, ShapeInv, StagesInv, Ops
<1>4. ContainersKeepTheirName' /\ BackendInv'
  BY <1>1 DEF IInv, TypeOK, ContainersKeepTheirName, BackendInv, Registered, Lower
<1>5. FreshInv'
  BY <1>1 DEF IInv, TypeOK, FreshInv, Unused, Registered
<1>6. IteratorsStayValid'
  BY <1>1 DEF IInv, TypeOK, IteratorsStayValid
<1> QED
  BY <1>2, <1>3, <1>4, <1>5, <1>6 DEF IInv

LEMMA EraseBeginPreserves ==
  ASSUME IInv, NEW s \in Sessions, EraseBegin(s), UNCHANGED backendVars
  PROVE  IInv'
<1> USE DEF Goes, glbVars, soaVars, backendVars, soaMembers, Ops
<1>1. /\ pc[s] \in {"DEL_DOMAIN", "CLR_DOMAINS"}
      /\ pc' = [pc EXCEPT ![s] = "erasing"]
      /\ CanWrite /\ mapWriter' = s /\ mapInFlux'
  BY DEF EraseBegin
<1>2. UNCHANGED <<up, glbMap, mapReaders, glbVars, cmd, glb, todo, failed>>
  BY DEF EraseBegin
<1>3. TypeOK' /\ MapLockInv'
  BY <1>1, <1>2, IdentitiesAssumption
     DEF IInv, TypeOK, MapLockInv, SessionPCs, CanWrite
<1>4. ShapeInv' /\ StagesInv'
  BY <1>1, <1>2 DEF IInv, TypeOK, ShapeInv, StagesInv, Registered
<1>5. ContainersKeepTheirName' /\ BackendInv'
  BY <1>1, <1>2 DEF IInv, TypeOK, ContainersKeepTheirName, BackendInv, Registered,
     Lower
<1>6. FreshInv' /\ IteratorsStayValid'
  BY <1>1, <1>2 DEF IInv, TypeOK, FreshInv, IteratorsStayValid, Unused, Registered
<1> QED
  BY <1>3, <1>4, <1>5, <1>6 DEF IInv

LEMMA EraseDonePreserves ==
  ASSUME IInv, NEW s \in Sessions, EraseDone(s), UNCHANGED backendVars
  PROVE  IInv'
<1> USE DEF Answers, Goes, glbVars, soaVars, backendVars, soaMembers
<1>1. /\ pc[s] = "erasing"
      /\ pc' = [pc EXCEPT ![s] = "idle"]
      /\ mapWriter' = NoThread /\ mapInFlux' = FALSE
      /\ UNCHANGED <<up, mapReaders, glbVars, cmd, glb, todo, failed>>
  BY DEF EraseDone
<1>2. /\ mapWriter = s
      /\ \A t \in Sessions : pc[t] \in {"inserting", "erasing"} => t = s
      /\ \A t \in Sessions : pc[t] # "visiting"
  BY <1>1, WriterIsAlone
<1>3. /\ glbMap' \in [Names -> Glbs \cup {NoGlb}]
      /\ \A n \in Names : glbMap'[n] \in {glbMap[n], NoGlb}
  BY DEF EraseDone, IInv, TypeOK
<1>4. TypeOK' /\ MapLockInv'
  <2>1. TypeOK'
    BY <1>1, <1>3 DEF IInv, TypeOK, SessionPCs
  <2>2. \A t \in Sessions : pc'[t] \notin {"inserting", "erasing"}
    BY <1>1, <1>2 DEF IInv, TypeOK
  <2>3. \A t \in Sessions : pc'[t] # "visiting" /\ t \notin mapReaders'
    BY <1>1, <1>2 DEF IInv, TypeOK, MapLockInv
  <2>4. MapLockInv'
    BY <1>1, <2>2, <2>3, IdentitiesAssumption DEF MapLockInv
  <2> QED
    BY <2>1, <2>4
<1>5. ShapeInv' /\ StagesInv'
  <2>1. Registered' \subseteq Registered
    BY <1>3 DEF Registered
  <2>2. IsFiniteSet(Registered')
    BY <2>1, FS_Subset DEF IInv, ShapeInv
  <2> QED
    BY <1>1, <2>2 DEF IInv, TypeOK, ShapeInv, StagesInv, Ops
<1>6. ContainersKeepTheirName' /\ BackendInv'
  BY <1>1, <1>3 DEF IInv, TypeOK, ContainersKeepTheirName, BackendInv, Registered,
     Lower
<1>7. FreshInv' /\ IteratorsStayValid'
  BY <1>1, <1>2, <1>3 DEF IInv, TypeOK, FreshInv, IteratorsStayValid, Unused
<1> QED
  BY <1>4, <1>5, <1>6, <1>7 DEF IInv

LEMMA SnapFindPreserves ==
  ASSUME IInv, NEW s \in Sessions, SnapFind(s), UNCHANGED backendVars
  PROVE  IInv'
<1> USE DEF Goes, sharedVars, mapVars, glbVars, backendVars, soaMembers
<1>1. /\ pc[s] = "SNAPSHOT" /\ pc' = [pc EXCEPT ![s] = "applying"]
      /\ cmd[s].fqdn \in Registered
      /\ glb' = [glb EXCEPT ![s] = glbMap[cmd[s].fqdn]]
      /\ UNCHANGED <<sharedVars, cmd, todo>>
  BY DEF SnapFind
<1>2. failed' \in [Sessions -> BOOLEAN]
  BY DEF SnapFind, HasBadEntry, IInv, TypeOK
<1>3. /\ glbMap[cmd[s].fqdn] \in Glbs
      /\ cname[glbMap[cmd[s].fqdn]] = cmd[s].fqdn
      /\ cmd[s] \in Commands /\ cmd[s].op = "SNAPSHOT" /\ cmd[s].fqdn \in Names
  <2>1. cmd[s].fqdn \in Names
    BY <1>1 DEF Registered
  <2>2. cmd[s] \in Commands /\ cmd[s].op = "SNAPSHOT"
    BY <1>1 DEF IInv, StagesInv, Ops
  <2>3. cname[glbMap[cmd[s].fqdn]] = cmd[s].fqdn
    BY <1>1 DEF IInv, ContainersKeepTheirName
  <2>4. glbMap[cmd[s].fqdn] \in Glbs
    BY <1>1, <2>1 DEF IInv, TypeOK, Registered
  <2> QED
    BY <2>1, <2>2, <2>3, <2>4
<1>4. TypeOK' /\ MapLockInv'
  BY <1>1, <1>2, <1>3 DEF IInv, TypeOK, MapLockInv, SessionPCs
<1>5. ShapeInv' /\ StagesInv'
  BY <1>1, <1>3 DEF IInv, TypeOK, ShapeInv, StagesInv, Registered, Ops
<1>6. ContainersKeepTheirName' /\ BackendInv'
  BY <1>1, <1>3 DEF IInv, TypeOK, ContainersKeepTheirName, BackendInv, Registered,
     Lower
<1>7. FreshInv' /\ IteratorsStayValid'
  BY <1>1, <1>3 DEF IInv, TypeOK, FreshInv, IteratorsStayValid, Unused, Registered
<1> QED
  BY <1>4, <1>5, <1>6, <1>7 DEF IInv

(* A SNAPSHOT or a question writes to a container that has a name and is   *)
(* not about to be inserted.                                               *)
LEMMA SnapApplyPreserves ==
  ASSUME IInv, NEW s \in Sessions, SnapApply(s), UNCHANGED backendVars
  PROVE  IInv'
<1> USE DEF Answers, Goes, mapVars, backendVars, soaMembers
<1>1. /\ pc[s] = "applying" /\ pc' = [pc EXCEPT ![s] = "idle"]
      /\ ips' = [ips EXCEPT ![glb[s]] = @ \o Decoded(cmd[s].entries)]
      /\ UNCHANGED <<up, mapVars, cname, glbType, nLookups, cmd, glb, todo, failed>>
  BY DEF SnapApply
<1>2. glb[s] \in Glbs /\ cname[glb[s]] # NoName
  BY <1>1, CommandFields, IdentitiesAssumption
<1>3. TypeOK' /\ MapLockInv'
  BY <1>1 DEF IInv, TypeOK, MapLockInv, SessionPCs
<1>4. ShapeInv' /\ StagesInv'
  BY <1>1, <1>2 DEF IInv, TypeOK, ShapeInv, StagesInv, Registered, Ops
<1>5. ContainersKeepTheirName' /\ BackendInv'
  BY <1>1 DEF IInv, TypeOK, ContainersKeepTheirName, BackendInv, Registered, Lower
<1>6. \A g \in Glbs : g # glb[s] => ips'[g] = ips[g]
  BY <1>1 DEF IInv, ShapeInv
<1>7. FreshInv' /\ IteratorsStayValid'
  <2>1. FreshInv'
    <3>1. \A g \in Unused' : ips'[g] = <<>> /\ nLookups'[g] = 0
      BY <1>1, <1>2, <1>6 DEF IInv, FreshInv, Unused
    <3>2. \A t \in Sessions : pc[t] = "inserting" => glb[t] \in Glbs /\ glb[t] # glb[s]
      BY <1>1, CommandFields DEF IInv, FreshInv
    <3>3. \A t \in Sessions : pc'[t] \in {"inserting", "applying"} => pc'[t] = pc[t]
      BY <1>1 DEF IInv, TypeOK
    <3> QED
      BY <1>1, <1>6, <3>1, <3>2, <3>3 DEF IInv, FreshInv, Registered
  <2>2. IteratorsStayValid'
    BY <1>1 DEF IInv, TypeOK, IteratorsStayValid, Registered
  <2> QED
    BY <2>1, <2>2
<1> QED
  BY <1>3, <1>4, <1>5, <1>7 DEF IInv

(* COUNTS by name and the visits: a session goes on to its next name.      *)
LEMMA NextNamePreserves ==
  ASSUME IInv, NEW s \in Sessions, todo[s] # <<>>,
         todo' = [todo EXCEPT ![s] = Tail(@)],
         failed' \in [Sessions -> BOOLEAN], nLookups' \in [Glbs -> Nat],
         \A g \in Glbs : nLookups'[g] \in {nLookups[g], 0},
         UNCHANGED <<up, mapVars, cname, glbType, ips, soaVars, pc, cmd, glb,
                     backendVars>>
  PROVE  IInv'
<1> USE DEF mapVars, backendVars, soaMembers
<1>1. TypeOK' /\ MapLockInv'
  BY DEF IInv, TypeOK, MapLockInv
<1>2. /\ todo' \in [Sessions -> Seq(Names)]
      /\ \A t \in Sessions : ToSet(todo'[t]) \subseteq ToSet(todo[t])
  <2>1. todo \in [Sessions -> Seq(Names)]
    BY DEF IInv, ShapeInv
  <2>2. Tail(todo[s]) \in Seq(Names)
    BY <2>1
  <2>3. ToSet(Tail(todo[s])) \subseteq ToSet(todo[s])
    BY <2>1 DEF ToSet
  <2> QED
    BY <2>1, <2>2, <2>3
<1>3. ShapeInv' /\ StagesInv'
  BY <1>2 DEF IInv, ShapeInv, StagesInv, Registered
<1>4. ContainersKeepTheirName' /\ BackendInv'
  BY DEF IInv, ContainersKeepTheirName, BackendInv, Registered, Lower
<1>5. FreshInv'
  BY CommandFields DEF IInv, FreshInv, Unused, Registered
<1>6. IteratorsStayValid'
  BY <1>2 DEF IInv, IteratorsStayValid, Registered
<1> QED
  BY <1>1, <1>3, <1>4, <1>5, <1>6 DEF IInv

LEMMA VisitsPreserve ==
  ASSUME IInv, NEW s \in Sessions, CountsOne(s) \/ VisitReads(s) \/ VisitClears(s),
         UNCHANGED backendVars
  PROVE  IInv'
<1> USE DEF sharedVars, glbVars
<1>1. /\ todo[s] # <<>> /\ todo' = [todo EXCEPT ![s] = Tail(@)]
      /\ UNCHANGED <<up, mapVars, cname, glbType, ips, soaVars, pc, cmd, glb>>
  BY DEF CountsOne, VisitReads, VisitClears
<1>2. failed' \in [Sessions -> BOOLEAN]
  BY DEF CountsOne, VisitReads, VisitClears, IInv, TypeOK
<1>3. /\ nLookups' \in [Glbs -> Nat]
      /\ \A g \in Glbs : nLookups'[g] \in {nLookups[g], 0}
  BY DEF CountsOne, VisitReads, VisitClears, IInv, TypeOK
<1> QED
  BY <1>1, <1>2, <1>3, NextNamePreserves

LEMMA ShareLockPreserves ==
  ASSUME IInv, NEW s \in Sessions, ShareLock(s), UNCHANGED backendVars
  PROVE  IInv'
<1> USE DEF glbVars, soaVars, backendVars, soaMembers
<1>1. /\ pc[s] \in {"COUNTS", "CLR_COUNTS", "DEBUG_DOMAINS"}
      /\ CanRead /\ mapReaders' = mapReaders \cup {s}
      /\ pc' = [pc EXCEPT ![s] = "visiting"]
      /\ UNCHANGED <<up, glbMap, mapWriter, mapInFlux, glbVars, cmd, glb, failed>>
  BY DEF ShareLock
<1>2. PICK names \in Itineraries(cmd[s]) : todo' = [todo EXCEPT ![s] = names]
  BY DEF ShareLock
<1>3. cmd[s] \in Commands /\ cmd[s].op = pc[s]
  BY <1>1 DEF IInv, StagesInv, Ops
<1>4. /\ names \in Seq(Names)
      /\ (cmd[s].op = "CLR_COUNTS" => cmd[s].fqdns = <<>>) => names \in Seq(Registered)
  BY <1>1, <1>2, <1>3, ItinerariesStayInTheMap, CommandsAssumption DEF IInv, ShapeInv
<1>5. TypeOK' /\ MapLockInv'
  BY <1>1, IdentitiesAssumption DEF IInv, TypeOK, MapLockInv, SessionPCs, CanRead
<1>6. ShapeInv' /\ StagesInv'
  BY <1>1, <1>2, <1>3, <1>4 DEF IInv, TypeOK, ShapeInv, StagesInv, Registered, Ops
<1>7. ContainersKeepTheirName' /\ BackendInv'
  BY <1>1 DEF IInv, TypeOK, ContainersKeepTheirName, BackendInv, Registered, Lower
<1>8. FreshInv'
  BY <1>1 DEF IInv, TypeOK, FreshInv, Unused, Registered
<1>9. IteratorsStayValid'
  <2> SUFFICES ASSUME NEW t \in Sessions, pc'[t] = "visiting",
                      cmd[t].op = "CLR_COUNTS" => cmd[t].fqdns = <<>>
               PROVE  ToSet(todo'[t]) \subseteq Registered
    BY <1>1 DEF IteratorsStayValid, Registered
  <2>1. CASE t = s
    <3>1. todo'[t] = names
      BY <1>2, <2>1 DEF IInv, ShapeInv
    <3>2. names \in Seq(Registered)
      BY <1>4, <2>1
    <3> QED
      BY <3>1, <3>2 DEF ToSet
  <2>2. CASE t # s
    BY <1>1, <1>2, <2>2 DEF IInv, TypeOK, ShapeInv, IteratorsStayValid
  <2> QED
    BY <2>1, <2>2
<1> QED
  BY <1>5, <1>6, <1>7, <1>8, <1>9 DEF IInv

LEMMA VisitDonePreserves ==
  ASSUME IInv, NEW s \in Sessions, VisitDone(s), UNCHANGED backendVars
  PROVE  IInv'
<1> USE DEF glbVars, soaVars, backendVars, soaMembers
<1>1. /\ pc[s] = "visiting" /\ pc' = [pc EXCEPT ![s] = "idle"]
      /\ mapReaders' = mapReaders \ {s}
      /\ UNCHANGED <<up, glbMap, mapWriter, mapInFlux, glbVars, cmd, glb, todo, failed>>
  BY DEF VisitDone, Answers, Goes
<1>2. TypeOK' /\ MapLockInv'
  BY <1>1 DEF IInv, TypeOK, MapLockInv, SessionPCs
<1>3. ShapeInv' /\ StagesInv'
  BY <1>1 DEF IInv, TypeOK, ShapeInv, StagesInv, Registered, Ops
<1>4. ContainersKeepTheirName' /\ BackendInv'
  BY <1>1 DEF IInv, TypeOK, ContainersKeepTheirName, BackendInv, Registered, Lower
<1>5. FreshInv' /\ IteratorsStayValid'
  BY <1>1 DEF IInv, TypeOK, FreshInv, IteratorsStayValid, Unused, Registered
<1> QED
  BY <1>2, <1>3, <1>4, <1>5 DEF IInv

LEMMA SessionPreserves ==
  ASSUME IInv, NEW s \in Sessions, SessionStep(s), UNCHANGED backendVars
  PROVE  IInv'
<1> USE DEF sharedVars, Ops
<1>1. CASE AddUnknownAlgo(s)
  BY <1>1, AnswerPreserves DEF AddUnknownAlgo
<1>2. CASE AddExists(s)
  BY <1>2, AnswerPreserves DEF AddExists
<1>3. CASE DelMissing(s)
  BY <1>3, AnswerPreserves DEF DelMissing
<1>4. CASE SnapMissing(s)
  BY <1>4, AnswerPreserves DEF SnapMissing
<1>5. CASE CountsDone(s)
  BY <1>5, AnswerPreserves DEF CountsDone
<1>6. CASE SetSOA(s)
  BY <1>6, AnswerPreserves DEF SetSOA
<1>7. CASE SetNS(s)
  BY <1>7, AnswerPreserves DEF SetNS
<1>8. CASE UnknownCommand(s)
  BY <1>8, AnswerPreserves DEF UnknownCommand
<1> QED
  BY <1>1, <1>2, <1>3, <1>4, <1>5, <1>6, <1>7, <1>8,
     AddBeginPreserves, AddDonePreserves, EraseBeginPreserves, EraseDonePreserves,
     SnapFindPreserves, SnapApplyPreserves, VisitsPreserve, ShareLockPreserves,
     VisitDonePreserves
     DEF SessionStep

-----------------------------------------------------------------------------
(* The steps of a backend.                                                 *)

LEMMA BaseNames ==
  ASSUME IInv, NEW b \in Backends, question[b] \in Questions
  PROVE  Lower(b) \in Names
BY QuestionsAssumption, LowerCaseAssumption
   DEF Lower, QuestionsAssumption, LowerCaseAssumption

(* A backend's step that leaves the sessions and the map alone, and counts *)
(* no more than its own container's lookups.                               *)
LEMMA BackendLeavesTheRest ==
  ASSUME IInv, UNCHANGED <<mapVars, cname, glbType, ips, sessionVars>>,
         TypeOK', BackendInv',
         \A b \in Backends : found'[b] # NoGlb => cname[found'[b]] = Lower(b)',
         \A s \in Sessions : pc[s] = "inserting" =>
           /\ \A b \in Backends : found'[b] # glb[s]
           /\ nLookups'[glb[s]] = nLookups[glb[s]],
         \A g \in Unused : nLookups'[g] = nLookups[g]
  PROVE  IInv'
<1> USE DEF mapVars, sessionVars
<1>1. MapLockInv' /\ ShapeInv' /\ StagesInv' /\ IteratorsStayValid'
  BY DEF IInv, MapLockInv, ShapeInv, StagesInv, IteratorsStayValid, Registered
<1>2. ContainersKeepTheirName'
  BY DEF IInv, ContainersKeepTheirName, Registered
<1>3. FreshInv'
  BY DEF IInv, FreshInv, Unused, Registered
<1> QED
  BY <1>1, <1>2, <1>3 DEF IInv

LEMMA LookupStartPreserves ==
  ASSUME IInv, NEW b \in Backends, LookupStart(b), UNCHANGED sessionVars
  PROVE  IInv'
<1> USE DEF sharedVars, mapVars, glbVars
<1>1. PICK q \in Questions :
        /\ question' = [question EXCEPT ![b] = q]
        /\ sendSOA' = [sendSOA EXCEPT ![b] = q.type = "SOA"]
        /\ \E to \in {"NS", "find"} : bpc' = [bpc EXCEPT ![b] = to]
  BY DEF LookupStart
<1>2. /\ found' = [found EXCEPT ![b] = NoGlb]
      /\ sendNS' = [sendNS EXCEPT ![b] = FALSE]
      /\ UNCHANGED <<up, mapVars, glbVars>>
  BY DEF LookupStart
<1>3. TypeOK'
  BY <1>1, <1>2 DEF IInv, TypeOK, BackendPCs, sessionVars
<1>4. BackendInv'
  BY <1>1, <1>2 DEF IInv, TypeOK, BackendInv
<1>5. \A a \in Backends : found'[a] # NoGlb => cname[found'[a]] = Lower(a)'
  BY <1>1, <1>2 DEF IInv, TypeOK, ContainersKeepTheirName, Lower
<1>6. \A s \in Sessions : pc[s] = "inserting" =>
        \A a \in Backends : found'[a] # glb[s]
  BY <1>2, CommandFields, IdentitiesAssumption DEF IInv, TypeOK, FreshInv
<1> QED
  BY <1>2, <1>3, <1>4, <1>5, <1>6, BackendLeavesTheRest

LEMMA FindsPreserves ==
  ASSUME IInv, NEW b \in Backends, NEW g \in {glbMap[Lower(b)], NoGlb},
         Finds(b, g), UNCHANGED sessionVars
  PROVE  IInv'
<1> USE DEF sharedVars, mapVars, glbVars, soaMembers
<1>1. /\ found' = [found EXCEPT ![b] = g]
      /\ bpc[b] = "find"
      /\ \/ g # NoGlb /\ bpc' = [bpc EXCEPT ![b] = "count"]
         \/ bpc' = [bpc EXCEPT ![b] = "get"]
      /\ UNCHANGED <<up, mapVars, glbVars, question, sendSOA, sendNS>>
  BY DEF Finds, Moves
<1>2. question[b] \in Questions /\ Lower(b) \in Names
  BY <1>1, BaseNames DEF IInv, BackendInv
<1>3. g \in Glbs \cup {NoGlb} /\ (g # NoGlb => cname[g] = Lower(b))
  BY <1>2 DEF IInv, TypeOK, ContainersKeepTheirName, Registered
<1>4. TypeOK'
  BY <1>1, <1>3 DEF IInv, TypeOK, BackendPCs, sessionVars
<1>5. BackendInv'
  BY <1>1, <1>2 DEF IInv, TypeOK, BackendInv
<1>6. \A a \in Backends : found'[a] # NoGlb => cname[found'[a]] = Lower(a)'
  BY <1>1, <1>3 DEF IInv, TypeOK, ContainersKeepTheirName, Lower
<1>7. \A s \in Sessions : pc[s] = "inserting" =>
        \A a \in Backends : found'[a] # glb[s]
  BY <1>1, <1>2, CommandFields, IdentitiesAssumption DEF IInv, TypeOK, FreshInv
<1> QED
  BY <1>1, <1>4, <1>5, <1>6, <1>7, BackendLeavesTheRest

LEMMA LookupCountsPreserves ==
  ASSUME IInv, NEW b \in Backends, LookupCounts(b), UNCHANGED sessionVars
  PROVE  IInv'
<1> USE DEF mapVars, soaMembers
<1>1. /\ bpc[b] = "count" /\ bpc' = [bpc EXCEPT ![b] = "select"]
      /\ nLookups' = [nLookups EXCEPT ![found[b]] = @ + 1]
      /\ UNCHANGED <<up, mapVars, cname, glbType, ips, question, found, sendSOA, sendNS>>
  BY DEF LookupCounts, Moves
<1>2. found[b] \in Glbs /\ cname[found[b]] # NoName
  <2>1. found[b] \in Glbs /\ question[b] \in Questions
    BY <1>1 DEF IInv, TypeOK, BackendInv
  <2>2. cname[found[b]] = Lower(b)
    BY <2>1, IdentitiesAssumption DEF IInv, ContainersKeepTheirName
  <2> QED
    BY <2>1, <2>2, BaseNames, IdentitiesAssumption
<1>3. TypeOK'
  BY <1>1, <1>2 DEF IInv, TypeOK, BackendPCs, sessionVars
<1>4. BackendInv'
  BY <1>1 DEF IInv, TypeOK, BackendInv
<1>5. \A a \in Backends : found'[a] # NoGlb => cname[found'[a]] = Lower(a)'
  BY <1>1 DEF IInv, ContainersKeepTheirName, Lower
<1>6. \A g \in Glbs : g # found[b] => nLookups'[g] = nLookups[g]
  BY <1>1 DEF IInv, TypeOK
<1>7. \A s \in Sessions : pc[s] = "inserting" =>
        /\ \A a \in Backends : found'[a] # glb[s]
        /\ nLookups'[glb[s]] = nLookups[glb[s]]
  BY <1>1, <1>6, CommandFields DEF IInv, FreshInv
<1>8. \A g \in Unused : nLookups'[g] = nLookups[g]
  BY <1>2, <1>6 DEF Unused
<1> QED
  BY <1>1, <1>3, <1>4, <1>5, <1>7, <1>8, BackendLeavesTheRest

(* What remains of a backend's steps moves it on and nothing else that     *)
(* matters here.                                                           *)
LEMMA MovesPreserve ==
  ASSUME IInv, NEW b \in Backends, UNCHANGED sessionVars,
         \/ LookupNS(b) \/ LookupCrashes(b) \/ LookupSelects(b)
         \/ GetSOA(b) \/ GetNS(b) \/ GetIP(b) \/ GetEnd(b)
  PROVE  IInv'
<1> USE DEF sharedVars, mapVars, glbVars, backendVars, soaMembers,
            LookupNS, LookupCrashes, LookupSelects, GetSOA, GetNS, GetIP, GetEnd,
            Moves, Returns
<1>1. /\ UNCHANGED <<mapVars, glbVars, question, found>>
      /\ up' \in BOOLEAN
  BY DEF IInv, TypeOK
<1>2. sendSOA' \in [Backends -> BOOLEAN] /\ sendNS' \in [Backends -> BOOLEAN]
  BY DEF IInv, TypeOK
<1>3. \/ bpc' = bpc
      \/ bpc[b] = "NS" /\ bpc' = [bpc EXCEPT ![b] = "find"]
      \/ \E to \in {"idle", "get"} : bpc' = [bpc EXCEPT ![b] = to]
  OBVIOUS
<1> HIDE DEF LookupNS, LookupCrashes, LookupSelects, GetSOA, GetNS, GetIP, GetEnd,
             Moves, Returns
<1>4. TypeOK'
  BY <1>1, <1>2, <1>3 DEF IInv, TypeOK, BackendPCs, sessionVars
<1>5. BackendInv'
  BY <1>1, <1>3 DEF IInv, TypeOK, BackendInv
<1>6. /\ \A a \in Backends : found'[a] # NoGlb => cname[found'[a]] = Lower(a)'
      /\ \A s \in Sessions : pc[s] = "inserting" =>
            \A a \in Backends : found'[a] # glb[s]
  BY <1>1 DEF IInv, ContainersKeepTheirName, FreshInv, Lower
<1> QED
  BY <1>1, <1>4, <1>5, <1>6, BackendLeavesTheRest

LEMMA BackendPreserves ==
  ASSUME IInv, NEW b \in Backends, BackendStep(b), UNCHANGED sessionVars
  PROVE  IInv'
<1>1. CASE LookupFind(b)
  BY <1>1, FindsPreserves DEF LookupFind
<1>2. CASE LookupFindRaces(b)
  BY <1>2, FindsPreserves DEF LookupFindRaces
<1> QED
  BY <1>1, <1>2, MovesPreserve, LookupCountsPreserves DEF BackendStep

-----------------------------------------------------------------------------
LEMMA EmptyIsSequence == ASSUME NEW S PROVE <<>> \in Seq(S)
OBVIOUS

LEMMA InitEstablishes == Init => IInv
<1> SUFFICES ASSUME Init
             PROVE  IInv
  OBVIOUS
<1> USE DEF Init, SharedInit, SessionInit, BackendInit
<1>1. Registered = {}
  BY DEF Registered
<1>2. TypeOK /\ MapLockInv
  BY IdentitiesAssumption
     DEF TypeOK, MapLockInv, SessionPCs, BackendPCs, NoName, GlbTypes
<1>3. ShapeInv /\ StagesInv
  <2>1. todo \in [Sessions -> Seq(Names)] /\ ips = [g \in Glbs |-> ips[g]]
    BY EmptyIsSequence
  <2>2. IsFiniteSet(Registered)
    BY <1>1, FS_EmptySet
  <2>3. StagesInv
    BY DEF StagesInv, Ops
  <2> QED
    BY <2>1, <2>2, <2>3 DEF ShapeInv
<1>4. ContainersKeepTheirName /\ FreshInv /\ BackendInv /\ IteratorsStayValid
  BY <1>1 DEF ContainersKeepTheirName, FreshInv, Unused, BackendInv,
     IteratorsStayValid
<1> QED
  BY <1>2, <1>3, <1>4 DEF IInv

LEMMA StepPreserves == IInv /\ [Next]_vars => IInv'
<1> SUFFICES ASSUME IInv, [Next]_vars
             PROVE  IInv'
  OBVIOUS
<1>1. ASSUME NEW s \in Sessions, Receive(s), UNCHANGED backendVars
      PROVE  IInv'
  BY <1>1, ReceivePreserves
<1>2. ASSUME NEW s \in Sessions, SessionActs(s)
      PROVE  IInv'
  BY <1>2, SessionPreserves DEF SessionActs
<1>3. ASSUME NEW b \in Backends, LookupStart(b), UNCHANGED sessionVars
      PROVE  IInv'
  BY <1>3, LookupStartPreserves
<1>4. ASSUME NEW b \in Backends, BackendActs(b)
      PROVE  IInv'
  BY <1>4, BackendPreserves DEF BackendActs
<1>5. CASE UNCHANGED vars
  <2> USE <1>5 DEF vars, sharedVars, mapVars, glbVars, sessionVars, backendVars,
                   soaMembers
  <2>1. TypeOK' /\ BackendInv'
    BY DEF IInv, TypeOK, BackendInv
  <2>2. /\ \A b \in Backends : found'[b] # NoGlb => cname[found'[b]] = Lower(b)'
        /\ \A s \in Sessions : pc[s] = "inserting" =>
              \A b \in Backends : found'[b] # glb[s]
    BY DEF IInv, ContainersKeepTheirName, FreshInv, Lower
  <2> QED
    BY <2>1, <2>2, BackendLeavesTheRest
<1> QED
  BY <1>1, <1>2, <1>3, <1>4, <1>5 DEF Next, Finished

LEMMA InductiveInvariant == Spec => []IInv
BY InitEstablishes, StepPreserves, PTL DEF Spec

(* The types, and glbMapMutex: a writer is alone with the map, however     *)
(* many sessions there are and whatever they are sent.                     *)
THEOREM MapIsLocked == Spec => []SystemInv
<1>1. IInv => SystemInv
  BY DEF IInv, SystemInv
<1> QED
  BY <1>1, InductiveInvariant, PTL

(* getCounts, clearCounts and debugDomains never step onto an entry that   *)
(* was erased under them.                                                  *)
THEOREM IteratorsNeverDangle == Spec => []IteratorsStayValid
<1>1. IInv => IteratorsStayValid
  BY DEF IInv
<1> QED
  BY <1>1, InductiveInvariant, PTL

(* Records and questions for a name reach the container made for it and    *)
(* no other.                                                               *)
THEOREM NamesAndContainersAgree == Spec => []ContainersKeepTheirName
<1>1. IInv => ContainersKeepTheirName
  BY DEF IInv
<1> QED
  BY <1>1, InductiveInvariant, PTL

(* Only AddDone puts a container into the map, and what it puts in is      *)
(* fresh, under a name that is free.                                       *)
LEMMA OnlyFreshContainersEnter ==
  ASSUME IInv, [Next]_vars, NEW n \in Names, glbMap'[n] \notin {glbMap[n], NoGlb}
  PROVE  /\ glbMap[n] = NoGlb
         /\ \A m \in Names : glbMap[m] # glbMap'[n]
         /\ ips[glbMap'[n]] = <<>> /\ nLookups[glbMap'[n]] = 0
<1> USE DEF sharedVars, mapVars
<1>1. PICK s \in Sessions : AddDone(s)
  <2>1. glbMap' # glbMap
    OBVIOUS
  <2>2. PICK s \in Sessions : Receive(s) \/ SessionStep(s)
    <3>1. ASSUME NEW b \in Backends, LookupStart(b) \/ BackendStep(b)
          PROVE  glbMap' = glbMap
      BY <3>1 DEF LookupStart, BackendStep, LookupNS, LookupFind, LookupFindRaces,
         Finds, LookupCrashes, LookupCounts, LookupSelects, GetSOA, GetNS, GetIP,
         GetEnd, Returns
    <3>2. UNCHANGED vars => glbMap' = glbMap
      BY DEF vars
    <3> QED
      BY <2>1, <3>1, <3>2 DEF Next, SessionActs, BackendActs, Finished
  <2>3. EraseDone(s) => glbMap'[n] \in {glbMap[n], NoGlb}
    BY DEF EraseDone
  <2>4. AddDone(s)
    BY <2>1, <2>2, <2>3 DEF Receive, SessionStep, AddUnknownAlgo, AddExists,
       AddBegin, DelMissing, EraseBegin, SnapMissing, SnapFind, SnapApply,
       CountsOne, CountsDone, ShareLock, VisitReads, VisitClears, VisitDone,
       SetSOA, SetNS, UnknownCommand
  <2> QED
    BY <2>4
<1>2. pc[s] = "inserting" /\ n = cmd[s].fqdn /\ glbMap'[n] = glb[s]
  BY <1>1 DEF AddDone, Answers, Goes, IInv, TypeOK
<1> QED
  BY <1>2 DEF IInv, FreshInv, Registered

THEOREM NothingComesBack == Spec => NeverReplacedNorRevived
<1>1. IInv /\ [Next]_vars =>
        [\A n \in Names :
           LET new == glbMap'[n]
           IN new \notin {glbMap[n], NoGlb} =>
                /\ glbMap[n] = NoGlb
                /\ \A m \in Names : glbMap[m] # new
                /\ ips[new] = <<>> /\ nLookups[new] = 0]_vars
  BY OnlyFreshContainersEnter
<1> QED
  BY <1>1, InductiveInvariant, PTL DEF Spec, NeverReplacedNorRevived

-----------------------------------------------------------------------------
(* The SOA record.  As long as it is to be sent none has been, and if the  *)
(* name is under the base domain that lookup kept, the two were read as    *)
(* one pair.                                                               *)
SoaInv ==
  /\ globalSOA = [soa |-> globalSOA.soa, base |-> globalSOA.base]
  /\ globalSOA \in SoaPairs
  /\ soaRecord = [b \in Backends |-> soaRecord[b]]
  /\ baseDomain = [b \in Backends |-> baseDomain[b]]
  /\ answer = [b \in Backends |-> answer[b]]
  /\ \A b \in Backends :
       /\ \E S : answer[b] \in Seq(S)
       /\ sendSOA[b] =>
            /\ \A i \in DOMAIN answer[b] : answer[b][i].type # "SOA"
            /\ matchesBaseFqdn(Lower(b), baseDomain[b])
                 => [soa |-> soaRecord[b], base |-> baseDomain[b]] \in SoaPairs

AnswersInv == IInv /\ SoaInv /\ SoaRecordFitsItsDomain

LEMMA AppendedRecord ==
  ASSUME NEW S, NEW seq \in Seq(S), NEW rr
  PROVE  /\ Append(seq, rr) \in Seq(S \cup {rr})
         /\ DOMAIN Append(seq, rr) = DOMAIN seq \cup {Len(seq) + 1}
         /\ Len(seq) + 1 \notin DOMAIN seq
         /\ \A i \in DOMAIN seq : Append(seq, rr)[i] = seq[i]
         /\ Append(seq, rr)[Len(seq) + 1] = rr
<1>1. seq \in Seq(S \cup {rr}) /\ Len(seq) \in Nat /\ DOMAIN seq = 1..Len(seq)
  OBVIOUS
<1>2. 1..(Len(seq) + 1) = (1..Len(seq)) \cup {Len(seq) + 1}
  BY <1>1
<1> QED
  BY <1>1, <1>2

LEMMA AnswersInvInit == Init => SoaInv /\ SoaRecordFitsItsDomain
<1> SUFFICES ASSUME Init
             PROVE  SoaInv /\ SoaRecordFitsItsDomain
  OBVIOUS
<1>1. /\ globalSOA = [soa |-> "", base |-> <<"">>]
      /\ sendSOA = [b \in Backends |-> FALSE]
      /\ soaRecord = [b \in Backends |-> ""]
      /\ baseDomain = [b \in Backends |-> <<"">>]
      /\ answer = [b \in Backends |-> <<>>]
  BY DEF Init, SharedInit, BackendInit
<1>2. globalSOA \in SoaPairs
  BY <1>1 DEF SoaPairs
<1>3. \A b \in Backends : answer[b] = <<>> /\ answer[b] \in Seq({}) /\ ~sendSOA[b]
  BY <1>1, EmptyIsSequence
<1>4. SoaInv
  BY <1>1, <1>2, <1>3 DEF SoaInv
<1>5. \A b \in Backends : DOMAIN answer[b] = {}
  BY <1>3
<1> QED
  BY <1>4, <1>5 DEF SoaRecordFitsItsDomain

(* A backend's answers, and what it keeps for them, are its own business:  *)
(* the sessions only replace the pair it will read next.                   *)
LEMMA SoaSessionPreserves ==
  ASSUME AnswersInv, NEW s \in Sessions, Receive(s) \/ SessionStep(s),
         UNCHANGED backendVars
  PROVE  SoaInv' /\ SoaRecordFitsItsDomain'
<1>1. /\ globalSOA' = [soa |-> globalSOA'.soa, base |-> globalSOA'.base]
      /\ globalSOA' \in SoaPairs
  <2>1. CASE SetSOA(s)
    <3>1. /\ pc[s] = "SET_SOA"
          /\ globalSOA' = [soa |-> cmd[s].soa, base |-> cmd[s].base]
      BY <2>1 DEF SetSOA, Answers, Goes
    <3>2. cmd[s] \in Commands /\ cmd[s].op = "SET_SOA"
      BY <3>1 DEF AnswersInv, IInv, StagesInv, Ops
    <3> QED
      BY <3>1, <3>2 DEF SoaPairs
  <2>2. CASE ~SetSOA(s)
    <3>1. globalSOA' = globalSOA
      BY <2>2 DEF Receive, SessionStep, AddUnknownAlgo, AddExists, AddBegin, AddDone,
         DelMissing, EraseBegin, EraseDone, SnapMissing, SnapFind, SnapApply,
         CountsOne, CountsDone, ShareLock, VisitReads, VisitClears, VisitDone,
         SetNS, UnknownCommand, sharedVars, soaVars
    <3> QED
      BY <3>1 DEF AnswersInv, SoaInv
  <2> QED
    BY <2>1, <2>2
<1>2. UNCHANGED <<soaRecord, baseDomain, answer, sendSOA, question>>
  BY DEF backendVars, soaMembers
<1> QED
  BY <1>1, <1>2 DEF AnswersInv, SoaInv, SoaRecordFitsItsDomain, Lower

LEMMA SoaLookupStartPreserves ==
  ASSUME AnswersInv, NEW b \in Backends, LookupStart(b)
  PROVE  SoaInv' /\ SoaRecordFitsItsDomain'
<1> DEFINE Base(q) == IF AsksForAuthority(q) THEN globalSOA.base ELSE <<"">>
           Under(q) == AsksForAuthority(q) /\ matchesBaseFqdn(LowerCase[q.name], Base(q))
<1>1. PICK q \in Questions :
        /\ question' = [question EXCEPT ![b] = q]
        /\ baseDomain' = [baseDomain EXCEPT ![b] = Base(q)]
        /\ soaRecord' = IF Under(q) THEN [soaRecord EXCEPT ![b] = globalSOA.soa]
                        ELSE soaRecord
        /\ sendSOA' = [sendSOA EXCEPT ![b] = q.type = "SOA"]
  BY DEF LookupStart
<1>2. answer' = [answer EXCEPT ![b] = <<>>] /\ globalSOA' = globalSOA
  BY DEF LookupStart, sharedVars, soaVars
<1>3. /\ question'[b] = q /\ baseDomain'[b] = Base(q)
      /\ Under(q) => soaRecord'[b] = globalSOA.soa
      /\ sendSOA'[b] = (q.type = "SOA")
      /\ answer'[b] = <<>>
  BY <1>1, <1>2 DEF AnswersInv, IInv, TypeOK, SoaInv
<1>4. \A a \in Backends \ {b} :
        /\ question'[a] = question[a] /\ baseDomain'[a] = baseDomain[a]
        /\ soaRecord'[a] = soaRecord[a] /\ sendSOA'[a] = sendSOA[a]
        /\ answer'[a] = answer[a]
  BY <1>1, <1>2 DEF AnswersInv, IInv, TypeOK, SoaInv
<1>5. sendSOA'[b] /\ matchesBaseFqdn(Lower(b)', baseDomain'[b])
        => [soa |-> soaRecord'[b], base |-> baseDomain'[b]] \in SoaPairs
  <2> SUFFICES ASSUME sendSOA'[b], matchesBaseFqdn(Lower(b)', baseDomain'[b])
               PROVE  [soa |-> soaRecord'[b], base |-> baseDomain'[b]] \in SoaPairs
    OBVIOUS
  <2>1. q.type = "SOA" /\ AsksForAuthority(q)
    BY <1>3 DEF AsksForAuthority
  <2>2. Lower(b)' = LowerCase[q.name]
    BY <1>3 DEF Lower
  <2>3. Under(q) /\ baseDomain'[b] = globalSOA.base
    BY <1>3, <2>1, <2>2
  <2>4. [soa |-> soaRecord'[b], base |-> baseDomain'[b]] = globalSOA
    BY <1>3, <2>3 DEF AnswersInv, SoaInv
  <2> QED
    BY <2>4 DEF AnswersInv, SoaInv
<1>6. answer'[b] \in Seq({}) /\ DOMAIN answer'[b] = {}
  <2>1. answer'[b] = <<>>
    BY <1>3
  <2> HIDE <1>3
  <2> QED
    BY <2>1, EmptyIsSequence
<1>7. /\ soaRecord' = [a \in Backends |-> soaRecord'[a]]
      /\ baseDomain' = [a \in Backends |-> baseDomain'[a]]
      /\ answer' = [a \in Backends |-> answer'[a]]
  BY <1>1, <1>2 DEF AnswersInv, SoaInv
<1>8. SoaInv'
  BY <1>2, <1>4, <1>5, <1>6, <1>7 DEF AnswersInv, SoaInv, Lower
<1>9. SoaRecordFitsItsDomain'
  BY <1>4, <1>6 DEF AnswersInv, SoaRecordFitsItsDomain, Lower
<1> QED
  BY <1>8, <1>9

(* get appends a record; it is an SOA record only when sendSOA is set, and *)
(* then sendSOA is cleared.                                                *)
LEMMA SoaGetPreserves ==
  ASSUME AnswersInv, NEW b \in Backends, NEW rr, Returns(b, rr),
         \/ /\ sendSOA[b] /\ sendSOA' = [sendSOA EXCEPT ![b] = FALSE]
            /\ rr = ResourceRecord("SOA", soaRecord[b], baseDomain[b])
         \/ rr.type # "SOA" /\ sendSOA' = sendSOA
  PROVE  SoaInv' /\ SoaRecordFitsItsDomain'
<1>1. /\ answer' = [answer EXCEPT ![b] = Append(@, rr)]
      /\ UNCHANGED <<globalSOA, soaRecord, baseDomain, question>>
  BY DEF Returns, sharedVars, soaVars
<1>2. PICK S : answer[b] \in Seq(S)
  BY DEF AnswersInv, SoaInv
<1>3. answer'[b] = Append(answer[b], rr)
  BY <1>1 DEF AnswersInv, SoaInv
<1> DEFINE last == Len(answer[b]) + 1
<1>4. /\ answer'[b] \in Seq(S \cup {rr})
      /\ DOMAIN answer'[b] = DOMAIN answer[b] \cup {last} /\ last \notin DOMAIN answer[b]
      /\ \A i \in DOMAIN answer[b] : answer'[b][i] = answer[b][i]
      /\ answer'[b][last] = rr
  BY <1>2, <1>3, AppendedRecord
<1> HIDE DEF last
<1>5. /\ answer' = [a \in Backends |-> answer'[a]]
      /\ \A a \in Backends \ {b} : answer'[a] = answer[a] /\ sendSOA'[a] = sendSOA[a]
  BY <1>1 DEF AnswersInv, SoaInv, IInv, TypeOK
<1>6. \A a \in Backends : \E X : answer'[a] \in Seq(X)
  BY <1>4, <1>5 DEF AnswersInv, SoaInv
<1>7. CASE /\ sendSOA[b] /\ sendSOA' = [sendSOA EXCEPT ![b] = FALSE]
           /\ rr = ResourceRecord("SOA", soaRecord[b], baseDomain[b])
  <2>1. ~sendSOA'[b]
    BY <1>7 DEF AnswersInv, IInv, TypeOK
  <2>2. SoaInv'
    BY <1>1, <1>5, <1>6, <2>1 DEF AnswersInv, SoaInv, Lower
  <2>3. \A i \in DOMAIN answer[b] : answer[b][i].type # "SOA"
    BY <1>7 DEF AnswersInv, SoaInv
  <2>4. /\ rr.content = soaRecord[b] /\ rr.qname = baseDomain[b]
        /\ matchesBaseFqdn(Lower(b), baseDomain[b])
             => [soa |-> soaRecord[b], base |-> baseDomain[b]] \in SoaPairs
    BY <1>7 DEF AnswersInv, SoaInv, ResourceRecord
  <2>5. ASSUME NEW i \in DOMAIN answer'[b], answer'[b][i].type = "SOA"
        PROVE  /\ \A j \in DOMAIN answer'[b] : answer'[b][j].type = "SOA" => j = i
               /\ matchesBaseFqdn(Lower(b)', answer'[b][i].qname)
                    => [soa |-> answer'[b][i].content, base |-> answer'[b][i].qname]
                         \in SoaPairs
    <3>1. \A j \in DOMAIN answer'[b] : answer'[b][j].type = "SOA" => j = last
      BY <1>4, <2>3
    <3>2. i = last /\ answer'[b][i] = rr
      BY <1>4, <2>5, <3>1
    <3>3. Lower(b)' = Lower(b)
      BY <1>1 DEF Lower
    <3> QED
      BY <2>4, <3>1, <3>2, <3>3
  <2>6. SoaRecordFitsItsDomain'
    BY <1>1, <1>5, <2>5 DEF AnswersInv, SoaRecordFitsItsDomain, Lower
  <2> QED
    BY <2>2, <2>6
<1>8. CASE rr.type # "SOA" /\ sendSOA' = sendSOA
  <2>1. SoaInv'
    BY <1>1, <1>4, <1>5, <1>6, <1>8 DEF AnswersInv, SoaInv, Lower
  <2>2. \A i \in DOMAIN answer'[b] : answer'[b][i].type = "SOA" =>
          i \in DOMAIN answer[b] /\ answer'[b][i] = answer[b][i]
    BY <1>4, <1>8
  <2>3. SoaRecordFitsItsDomain'
    BY <1>1, <1>5, <2>2, SMTT(30)
       DEF AnswersInv, SoaRecordFitsItsDomain, Lower
  <2> QED
    BY <2>1, <2>3
<1> QED
  BY <1>7, <1>8

LEMMA SoaBackendPreserves ==
  ASSUME AnswersInv, NEW b \in Backends, BackendStep(b)
  PROVE  SoaInv' /\ SoaRecordFitsItsDomain'
<1>1. CASE GetSOA(b)
  BY <1>1, SoaGetPreserves DEF GetSOA
<1>2. CASE GetNS(b) \/ GetIP(b)
  <2>1. \E type \in {"NS", "A", "AAAA"} : \E content, qname :
          /\ Returns(b, ResourceRecord(type, content, qname))
          /\ sendSOA' = sendSOA
    BY <1>2 DEF GetNS, GetIP
  <2>2. \A type \in {"NS", "A", "AAAA"} : \A content, qname :
          ResourceRecord(type, content, qname).type # "SOA"
    BY DEF ResourceRecord
  <2> QED
    BY <2>1, <2>2, SoaGetPreserves
<1>3. CASE ~GetSOA(b) /\ ~GetNS(b) /\ ~GetIP(b)
  <2>1. UNCHANGED <<globalSOA, soaRecord, baseDomain, answer, sendSOA, question>>
    BY <1>3 DEF BackendStep, LookupNS, LookupFind, LookupFindRaces, Finds,
       LookupCrashes, LookupCounts, LookupSelects, GetEnd, sharedVars, soaVars,
       backendVars, soaMembers
  <2> QED
    BY <2>1 DEF AnswersInv, SoaInv, SoaRecordFitsItsDomain, Lower
<1> QED
  BY <1>1, <1>2, <1>3

LEMMA AnswersInvStep == AnswersInv /\ [Next]_vars => AnswersInv'
<1> SUFFICES ASSUME AnswersInv, [Next]_vars
             PROVE  SoaInv' /\ SoaRecordFitsItsDomain'
  BY StepPreserves DEF AnswersInv
<1>1. CASE UNCHANGED vars
  BY <1>1 DEF vars, sharedVars, soaVars, backendVars, soaMembers, AnswersInv, SoaInv,
     SoaRecordFitsItsDomain, Lower
<1> QED
  BY <1>1, SoaSessionPreserves, SoaLookupStartPreserves, SoaBackendPreserves
     DEF Next, SessionActs, BackendActs, Finished

(* A question is answered with the SOA record and the base domain of one   *)
(* SET_SOA, and with one SOA record at most, however SET_SOA, lookup and   *)
(* get follow each other.                                                  *)
THEOREM SoaRecordsAreWhole == Spec => []SoaRecordFitsItsDomain
<1>1. Init => AnswersInv
  BY InitEstablishes, AnswersInvInit DEF AnswersInv
<1>2. AnswersInv => SoaRecordFitsItsDomain
  BY DEF AnswersInv
<1> QED
  BY <1>1, <1>2, AnswersInvStep, PTL DEF Spec

-----------------------------------------------------------------------------
(* The NS records.  The lists that are about are lists SET_NS set.  While  *)
(* one is handed out, the answer so far is what the iterator has passed;   *)
(* afterwards the answer begins with the whole list or has no NS record.   *)
NsOf(b) ==
  /\ bpc[b] \notin {"idle", "get"} => answer[b] = <<>>
  /\ sendNS[b] \/ bpc[b] = "NS" => ~sendSOA[b]
  /\ sendNS[b] =>
       /\ bpc[b] # "idle"
       /\ nsIterator[b] <= Len(nsRecords[b]) + 1
       /\ DOMAIN answer[b] = 1..(nsIterator[b] - 1)
       /\ NsGiven(b) = DOMAIN answer[b]
  /\ \A i \in NsGiven(b) : answer[b][i].content = nsRecords[b][i]
  /\ ~sendNS[b] => NsGiven(b) \in {{}, DOMAIN nsRecords[b]}

NsInv ==
  /\ globalNsRecords \in NsLists
  /\ nsRecords \in [Backends -> NsLists]
  /\ nsIterator \in [Backends -> Nat \ {0}]
  /\ \A b \in Backends : NsOf(b)

LEMMA NsListsAreSequences ==
  ASSUME NEW list \in NsLists
  PROVE  list \in Seq(STRING) /\ Len(list) \in Nat /\ DOMAIN list = 1..Len(list)
<1>1. list \in Seq(STRING)
  BY ArgumentsAssumption, EmptyIsSequence DEF NsLists, ArgumentsAssumption
<1> QED
  BY <1>1

LEMMA NsInvInit == Init => NsInv
<1> SUFFICES ASSUME Init
             PROVE  NsInv
  OBVIOUS
<1>1. /\ globalNsRecords = <<>>
      /\ nsRecords = [b \in Backends |-> <<>>]
      /\ nsIterator = [b \in Backends |-> 1]
      /\ sendNS = [b \in Backends |-> FALSE]
      /\ bpc = [b \in Backends |-> "idle"]
      /\ answer = [b \in Backends |-> <<>>]
  BY DEF Init, SharedInit, BackendInit
<1>2. <<>> \in NsLists
  BY DEF NsLists
<1>3. ASSUME NEW b \in Backends
      PROVE  NsOf(b)
  <2>1. NsGiven(b) = {} /\ bpc[b] = "idle" /\ ~sendNS[b]
    BY <1>1 DEF NsGiven
  <2> QED
    BY <2>1 DEF NsOf
<1> QED
  BY <1>1, <1>2, <1>3 DEF NsInv

LEMMA NsSessionPreserves ==
  ASSUME IInv, NsInv, NEW s \in Sessions, Receive(s) \/ SessionStep(s),
         UNCHANGED backendVars
  PROVE  NsInv'
<1>1. globalNsRecords' \in NsLists
  <2>1. CASE SetNS(s)
    <3>1. pc[s] = "SET_NS" /\ globalNsRecords' = cmd[s].records
      BY <2>1 DEF SetNS, Answers, Goes
    <3>2. cmd[s] \in Commands /\ cmd[s].op = "SET_NS"
      BY <3>1 DEF IInv, StagesInv, Ops
    <3> QED
      BY <3>1, <3>2 DEF NsLists
  <2>2. CASE ~SetNS(s)
    <3>1. globalNsRecords' = globalNsRecords
      BY <2>2 DEF Receive, SessionStep, AddUnknownAlgo, AddExists, AddBegin, AddDone,
         DelMissing, EraseBegin, EraseDone, SnapMissing, SnapFind, SnapApply,
         CountsOne, CountsDone, ShareLock, VisitReads, VisitClears, VisitDone,
         SetSOA, UnknownCommand, sharedVars, soaVars
    <3> QED
      BY <3>1 DEF NsInv
  <2> QED
    BY <2>1, <2>2
<1>2. UNCHANGED <<bpc, answer, sendNS, sendSOA, nsIterator, nsRecords>>
  BY DEF backendVars, soaMembers
<1> QED
  BY <1>1, <1>2 DEF NsInv, NsOf, NsGiven

(* A step of one backend leaves what the others have alone.                *)
LEMMA NsIsTheBackendsOwn ==
  ASSUME NsInv, NEW b \in Backends, globalNsRecords' = globalNsRecords,
         nsRecords' \in [Backends -> NsLists], nsIterator' \in [Backends -> Nat \ {0}],
         \A a \in Backends \ {b} :
           /\ bpc'[a] = bpc[a] /\ answer'[a] = answer[a]
           /\ sendNS'[a] = sendNS[a] /\ sendSOA'[a] = sendSOA[a]
           /\ nsIterator'[a] = nsIterator[a] /\ nsRecords'[a] = nsRecords[a],
         NsOf(b)'
  PROVE  NsInv'
<1>1. ASSUME NEW a \in Backends \ {b}
      PROVE  NsOf(a)'
  <2>1. NsOf(a) /\ NsGiven(a)' = NsGiven(a)
    BY DEF NsInv, NsGiven
  <2> QED
    BY <2>1 DEF NsOf
<1> QED
  BY <1>1 DEF NsInv

LEMMA NsLookupPreserves ==
  ASSUME AnswersInv, NsInv, NEW b \in Backends,
         LookupStart(b) \/ LookupNS(b)
  PROVE  NsInv'
<1> USE DEF sharedVars, soaVars
<1>1. /\ globalNsRecords' = globalNsRecords
      /\ nsRecords' \in [Backends -> NsLists] /\ nsIterator' \in [Backends -> Nat \ {0}]
      /\ \A a \in Backends \ {b} :
           /\ nsIterator'[a] = nsIterator[a] /\ nsRecords'[a] = nsRecords[a]
  <2>1. \/ UNCHANGED <<globalNsRecords, nsRecords, nsIterator>>
        \/ /\ nsRecords' = [nsRecords EXCEPT ![b] = globalNsRecords]
           /\ nsIterator' = [nsIterator EXCEPT ![b] = 1]
           /\ UNCHANGED globalNsRecords
    BY DEF LookupStart, LookupNS
  <2> QED
    BY <2>1 DEF NsInv
<1>2. \A a \in Backends \ {b} :
        /\ bpc'[a] = bpc[a] /\ answer'[a] = answer[a]
        /\ sendNS'[a] = sendNS[a] /\ sendSOA'[a] = sendSOA[a]
  <2>1. CASE LookupStart(b)
    <3>1. PICK q \in Questions, to \in {"NS", "find"} :
            /\ bpc' = [bpc EXCEPT ![b] = to]
            /\ sendSOA' = [sendSOA EXCEPT ![b] = q.type = "SOA"]
      BY <2>1 DEF LookupStart
    <3>2. /\ answer' = [answer EXCEPT ![b] = <<>>]
          /\ sendNS' = [sendNS EXCEPT ![b] = FALSE]
      BY <2>1 DEF LookupStart
    <3> QED
      BY <3>1, <3>2 DEF AnswersInv, IInv, TypeOK, SoaInv
  <2>2. CASE LookupNS(b)
    <3>1. /\ bpc' = [bpc EXCEPT ![b] = "find"] /\ answer' = answer
          /\ sendNS' = [sendNS EXCEPT ![b] = TRUE] /\ sendSOA' = sendSOA
      BY <2>2 DEF LookupNS, Moves
    <3> QED
      BY <3>1 DEF AnswersInv, IInv, TypeOK
  <2> QED
    BY <2>1, <2>2
<1>3. CASE LookupStart(b)
  <2>1. /\ answer'[b] = <<>> /\ sendNS'[b] = FALSE
        /\ bpc'[b] = "NS" => sendSOA'[b] = FALSE
        /\ bpc'[b] \in {"NS", "find"}
    <3>1. PICK q \in Questions, to \in {"NS", "find"} :
            /\ bpc' = [bpc EXCEPT ![b] = to] /\ (to = "NS" => q.type # "SOA")
            /\ sendSOA' = [sendSOA EXCEPT ![b] = q.type = "SOA"]
      BY <1>3 DEF LookupStart
    <3>2. /\ answer' = [answer EXCEPT ![b] = <<>>]
          /\ sendNS' = [sendNS EXCEPT ![b] = FALSE]
      BY <1>3 DEF LookupStart
    <3> QED
      BY <3>1, <3>2 DEF AnswersInv, IInv, TypeOK, SoaInv
  <2>2. NsGiven(b)' = {}
    BY <2>1 DEF NsGiven
  <2> QED
    BY <1>1, <1>2, <2>1, <2>2, NsIsTheBackendsOwn DEF NsOf
<1>4. CASE LookupNS(b)
  <2>1. /\ bpc[b] = "NS" /\ bpc'[b] = "find"
        /\ nsRecords'[b] = globalNsRecords /\ nsIterator'[b] = 1
        /\ sendNS'[b] = TRUE /\ sendSOA'[b] = sendSOA[b]
        /\ answer' = answer
    BY <1>4 DEF LookupNS, Moves, NsInv, AnswersInv, IInv, TypeOK
  <2>2. answer'[b] = <<>> /\ ~sendSOA'[b]
    BY <2>1 DEF NsInv, NsOf
  <2>3. DOMAIN answer'[b] = {} /\ NsGiven(b)' = {}
    BY <2>2 DEF NsGiven
  <2>4. 1 <= Len(nsRecords'[b]) + 1 /\ 1..(1 - 1) = {}
    BY <2>1, NsListsAreSequences DEF NsInv
  <2>5. NsOf(b)'
    BY <2>1, <2>2, <2>3, <2>4 DEF NsOf
  <2> QED
    BY <1>1, <1>2, <2>5, NsIsTheBackendsOwn
<1> QED
  BY <1>3, <1>4

(* When the iterator has reached the end, the whole list has been given.   *)
LEMMA WholeListGiven ==
  ASSUME NsInv, NEW b \in Backends, sendNS[b], ~(nsIterator[b] <= Len(nsRecords[b]))
  PROVE  NsGiven(b) = DOMAIN nsRecords[b]
<1>1. /\ nsIterator[b] <= Len(nsRecords[b]) + 1
      /\ NsGiven(b) = 1..(nsIterator[b] - 1)
      /\ nsIterator[b] \in Nat
  BY DEF NsInv, NsOf
<1>2. Len(nsRecords[b]) \in Nat /\ DOMAIN nsRecords[b] = 1..Len(nsRecords[b])
  BY NsListsAreSequences DEF NsInv
<1>3. nsIterator[b] - 1 = Len(nsRecords[b])
  BY <1>1, <1>2
<1> QED
  BY <1>1, <1>2, <1>3

(* An answer that gains a record gains an NS record or none.               *)
LEMMA GivenGrows ==
  ASSUME AnswersInv, NEW b \in Backends, NEW rr, Returns(b, rr)
  PROVE  /\ \A a \in Backends \ {b} : answer'[a] = answer[a]
         /\ \E n \in Nat :
              /\ DOMAIN answer[b] = 1..n /\ DOMAIN answer'[b] = 1..(n + 1)
              /\ \A i \in 1..n : answer'[b][i] = answer[b][i]
              /\ answer'[b][n + 1] = rr
              /\ NsGiven(b)' = IF rr.type = "NS" THEN NsGiven(b) \cup {n + 1}
                               ELSE NsGiven(b)
<1>1. answer' = [answer EXCEPT ![b] = Append(@, rr)]
  BY DEF Returns
<1>2. PICK S : answer[b] \in Seq(S)
  BY DEF AnswersInv, SoaInv
<1>3. /\ answer'[b] = Append(answer[b], rr)
      /\ \A a \in Backends \ {b} : answer'[a] = answer[a]
  BY <1>1 DEF AnswersInv, SoaInv
<1> DEFINE n == Len(answer[b])
<1>4. n \in Nat /\ DOMAIN answer[b] = 1..n
  BY <1>2
<1>5. /\ DOMAIN answer'[b] = DOMAIN answer[b] \cup {n + 1} /\ n + 1 \notin DOMAIN answer[b]
      /\ \A i \in DOMAIN answer[b] : answer'[b][i] = answer[b][i]
      /\ answer'[b][n + 1] = rr
  BY <1>2, <1>3, AppendedRecord
<1> HIDE DEF n
<1>6. NsGiven(b)' = IF rr.type = "NS" THEN NsGiven(b) \cup {n + 1} ELSE NsGiven(b)
  BY <1>5 DEF NsGiven
<1>7. DOMAIN answer'[b] = 1..(n + 1)
  BY <1>4, <1>5
<1> QED
  BY <1>3, <1>4, <1>5, <1>6, <1>7

LEMMA NsGetPreserves ==
  ASSUME AnswersInv, NsInv, NEW b \in Backends, GetSOA(b) \/ GetNS(b) \/ GetIP(b)
  PROVE  NsInv'
<1>1. PICK rr :
        /\ Returns(b, rr)
        /\ GetSOA(b) => rr.type = "SOA"
        /\ GetNS(b) => rr.type = "NS" /\ rr.content = nsRecords[b][nsIterator[b]]
        /\ GetIP(b) => rr.type \in {"A", "AAAA"}
  <2>1. ASSUME NEW type, NEW content, NEW qname
        PROVE  /\ ResourceRecord(type, content, qname).type = type
               /\ ResourceRecord(type, content, qname).content = content
    BY DEF ResourceRecord
  <2>2. ~(GetSOA(b) /\ GetNS(b)) /\ ~(GetSOA(b) /\ GetIP(b)) /\ ~(GetNS(b) /\ GetIP(b))
    BY DEF GetSOA, GetNS, GetIP
  <2>3. CASE GetSOA(b)
    BY <2>1, <2>2, <2>3 DEF GetSOA
  <2>4. CASE GetNS(b)
    BY <2>1, <2>2, <2>4 DEF GetNS, NsList
  <2>5. CASE GetIP(b)
    <3>1. PICK type \in {"A", "AAAA"} :
            \E content : Returns(b, ResourceRecord(type, content, question[b].name))
      BY <2>5 DEF GetIP
    <3> QED
      BY <2>1, <2>2, <2>5, <3>1
  <2> QED
    BY <2>3, <2>4, <2>5
<1>2. /\ bpc[b] = "get" /\ UNCHANGED <<bpc, nsRecords, globalNsRecords>>
  BY <1>1 DEF Returns, sharedVars, soaVars
<1>3. /\ nsIterator' \in [Backends -> Nat \ {0}]
      /\ \A a \in Backends \ {b} :
           /\ nsIterator'[a] = nsIterator[a]
           /\ sendNS'[a] = sendNS[a] /\ sendSOA'[a] = sendSOA[a]
  BY DEF GetSOA, GetNS, GetIP, NsInv, AnswersInv, IInv, TypeOK
<1>4. PICK n \in Nat :
        /\ DOMAIN answer[b] = 1..n /\ DOMAIN answer'[b] = 1..(n + 1)
        /\ \A i \in 1..n : answer'[b][i] = answer[b][i]
        /\ answer'[b][n + 1] = rr
        /\ NsGiven(b)' = IF rr.type = "NS" THEN NsGiven(b) \cup {n + 1} ELSE NsGiven(b)
  BY <1>1, GivenGrows
<1>5. \A a \in Backends \ {b} : answer'[a] = answer[a]
  BY <1>1, GivenGrows
<1>6. /\ NsOf(b) /\ nsRecords[b] \in NsLists /\ nsRecords'[b] = nsRecords[b]
      /\ NsGiven(b) \subseteq 1..n
  BY <1>2, <1>4 DEF NsInv, NsGiven
<1>7. \A i \in NsGiven(b) : answer'[b][i].content = nsRecords'[b][i]
  BY <1>4, <1>6 DEF NsOf
<1>8. CASE GetSOA(b)
  <2>1. sendSOA[b] /\ sendNS'[b] = sendNS[b] /\ ~sendSOA'[b]
    BY <1>8 DEF GetSOA, AnswersInv, IInv, TypeOK
  <2>2. ~sendNS[b] /\ NsGiven(b)' = NsGiven(b)
    BY <1>1, <1>4, <1>6, <1>8, <2>1 DEF NsOf
  <2>3. NsOf(b)'
    BY <1>2, <1>6, <1>7, <2>1, <2>2 DEF NsOf
  <2> QED
    BY <1>2, <1>3, <1>5, <1>6, <2>3, NsIsTheBackendsOwn DEF NsInv
<1>9. CASE GetNS(b)
  <2>1. /\ sendNS[b] /\ sendNS'[b] = sendNS[b]
        /\ ~sendSOA[b] /\ sendSOA'[b] = sendSOA[b]
        /\ nsIterator[b] <= Len(nsRecords[b])
        /\ nsIterator'[b] = nsIterator[b] + 1
        /\ nsIterator[b] \in Nat \ {0}
    BY <1>9 DEF GetNS, NsPending, NsInv
  <2>2. n = nsIterator[b] - 1 /\ NsGiven(b) = 1..n
    <3>1. 1..n = 1..(nsIterator[b] - 1) /\ NsGiven(b) = 1..n
      BY <1>4, <1>6, <2>1 DEF NsOf
    <3>2. n \in 1..n <=> n # 0
      OBVIOUS
    <3>3. nsIterator[b] - 1 \in 1..(nsIterator[b] - 1) <=> nsIterator[b] - 1 # 0
      BY <2>1
    <3> QED
      BY <2>1, <3>1, <3>2, <3>3
  <2>3. /\ NsGiven(b)' = 1..(n + 1)
        /\ \A i \in 1..(n + 1) : answer'[b][i].content = nsRecords'[b][i]
    <3>1. NsGiven(b)' = (1..n) \cup {n + 1}
      BY <1>1, <1>4, <1>9, <2>2
    <3>2. answer'[b][n + 1].content = nsRecords'[b][n + 1]
      BY <1>1, <1>4, <1>6, <1>9, <2>1, <2>2
    <3>3. \A i \in 1..n : answer'[b][i].content = nsRecords'[b][i]
      BY <1>7, <2>2
    <3>4. (1..n) \cup {n + 1} = 1..(n + 1)
      OBVIOUS
    <3> QED
      BY <3>1, <3>2, <3>3, <3>4
  <2>4. Len(nsRecords[b]) \in Nat
    BY <1>6, NsListsAreSequences
  <2>5. /\ nsIterator'[b] <= Len(nsRecords'[b]) + 1
        /\ nsIterator'[b] - 1 = n + 1
    BY <1>6, <2>1, <2>2, <2>4
  <2>6. NsOf(b)'
    BY <1>2, <1>4, <2>1, <2>3, <2>5 DEF NsOf
  <2> QED
    BY <1>2, <1>3, <1>5, <1>6, <2>6, NsIsTheBackendsOwn DEF NsInv
<1>10. CASE GetIP(b)
  <2>1. /\ ~sendNS'[b] /\ ~sendSOA[b] /\ sendSOA'[b] = sendSOA[b]
        /\ sendNS[b] => ~(nsIterator[b] <= Len(nsRecords[b]))
    BY <1>10 DEF GetIP, NsPending, AnswersInv, IInv, TypeOK
  <2>2. NsGiven(b)' = NsGiven(b)
    BY <1>1, <1>4, <1>10
  <2>3. NsGiven(b) \in {{}, DOMAIN nsRecords[b]}
    <3>1. CASE sendNS[b]
      BY <1>6, <2>1, <3>1, WholeListGiven
    <3> QED
      BY <1>6, <3>1 DEF NsOf
  <2>4. NsOf(b)'
    BY <1>2, <1>6, <1>7, <2>1, <2>2, <2>3 DEF NsOf
  <2> QED
    BY <1>2, <1>3, <1>5, <1>6, <2>4, NsIsTheBackendsOwn DEF NsInv
<1> QED
  BY <1>8, <1>9, <1>10

LEMMA NsMovesPreserve ==
  ASSUME AnswersInv, NsInv, NEW b \in Backends, BackendStep(b),
         ~LookupNS(b), ~GetSOA(b), ~GetNS(b), ~GetIP(b)
  PROVE  NsInv'
<1>1. UNCHANGED <<globalNsRecords, nsRecords, nsIterator, answer, sendSOA>>
  BY DEF BackendStep, LookupFind, LookupFindRaces, Finds, LookupCrashes, LookupCounts,
     LookupSelects, GetEnd, sharedVars, soaVars, backendVars, soaMembers
<1>2. CASE GetEnd(b)
  <2>1. /\ bpc' = [bpc EXCEPT ![b] = "idle"]
        /\ sendNS' = [sendNS EXCEPT ![b] = FALSE]
        /\ ~sendSOA[b]
        /\ sendNS[b] => ~(nsIterator[b] <= Len(nsRecords[b]))
    BY <1>2 DEF GetEnd, Moves, NsPending
  <2>2. /\ \A a \in Backends \ {b} : bpc'[a] = bpc[a] /\ sendNS'[a] = sendNS[a]
        /\ bpc'[b] = "idle" /\ ~sendNS'[b]
    BY <2>1 DEF AnswersInv, IInv, TypeOK
  <2>3. NsGiven(b) \in {{}, DOMAIN nsRecords[b]}
    <3>1. CASE sendNS[b]
      BY <2>1, <3>1, WholeListGiven DEF NsInv
    <3> QED
      BY <3>1 DEF NsInv, NsOf
  <2>4. NsOf(b)'
    BY <1>1, <2>1, <2>2, <2>3 DEF NsInv, NsOf, NsGiven
  <2> QED
    BY <1>1, <2>2, <2>4, NsIsTheBackendsOwn DEF NsInv
<1>3. CASE LookupCrashes(b)
  BY <1>1, <1>3 DEF LookupCrashes, backendVars, soaMembers, NsInv, NsOf, NsGiven
<1>4. CASE LookupFind(b) \/ LookupFindRaces(b) \/ LookupCounts(b) \/ LookupSelects(b)
  <2>1. /\ sendNS' = sendNS /\ bpc[b] \in {"find", "count", "select"}
        /\ \E to \in {"count", "select", "get"} : bpc' = [bpc EXCEPT ![b] = to]
    BY <1>4 DEF LookupFind, LookupFindRaces, Finds, LookupCounts, LookupSelects, Moves,
       soaMembers
  <2>2. /\ \A a \in Backends \ {b} : bpc'[a] = bpc[a]
        /\ bpc'[b] \in {"count", "select", "get"}
    BY <2>1 DEF AnswersInv, IInv, TypeOK
  <2>3. NsOf(b)'
    BY <1>1, <2>1, <2>2 DEF NsInv, NsOf, NsGiven
  <2> QED
    BY <1>1, <2>1, <2>2, <2>3, NsIsTheBackendsOwn DEF NsInv
<1> QED
  BY <1>2, <1>3, <1>4 DEF BackendStep

NsAnswersInv == AnswersInv /\ NsInv

LEMMA NsAnswersInvStep == NsAnswersInv /\ [Next]_vars => NsAnswersInv'
<1> SUFFICES ASSUME NsAnswersInv, [Next]_vars
             PROVE  NsInv'
  BY AnswersInvStep DEF NsAnswersInv
<1>1. CASE UNCHANGED vars
  BY <1>1 DEF vars, sharedVars, soaVars, backendVars, soaMembers, NsAnswersInv, NsInv,
     NsOf, NsGiven
<1>2. ASSUME NEW b \in Backends, BackendStep(b)
      PROVE  NsInv'
  BY <1>2, NsLookupPreserves, NsGetPreserves, NsMovesPreserve DEF NsAnswersInv
<1>3. ASSUME NEW b \in Backends, LookupStart(b)
      PROVE  NsInv'
  BY <1>3, NsLookupPreserves DEF NsAnswersInv
<1>4. ASSUME NEW s \in Sessions, Receive(s) \/ SessionStep(s), UNCHANGED backendVars
      PROVE  NsInv'
  BY <1>4, NsSessionPreserves DEF NsAnswersInv, AnswersInv
<1> QED
  BY <1>1, <1>2, <1>3, <1>4 DEF Next, SessionActs, BackendActs, Finished

LEMMA NsInvGivesOneList == NsInv => NsAnswersComeFromOneList
<1> SUFFICES ASSUME NsInv, NEW b \in Backends
             PROVE  \E list \in NsLists :
                      /\ \E k \in 0..Len(list) : NsGiven(b) = 1..k
                      /\ \A i \in NsGiven(b) : answer[b][i].content = list[i]
                      /\ bpc[b] = "idle" => NsGiven(b) \in {{}, DOMAIN list}
  BY DEF NsAnswersComeFromOneList
<1> DEFINE list == nsRecords[b]
<1>1. list \in NsLists /\ Len(list) \in Nat /\ DOMAIN list = 1..Len(list)
  BY NsListsAreSequences DEF NsInv
<1>2. \A i \in NsGiven(b) : answer[b][i].content = list[i]
  BY DEF NsInv, NsOf
<1>3. CASE sendNS[b]
  <2>1. /\ bpc[b] # "idle" /\ nsIterator[b] \in Nat \ {0}
        /\ nsIterator[b] <= Len(list) + 1
        /\ NsGiven(b) = 1..(nsIterator[b] - 1)
    BY <1>3 DEF NsInv, NsOf
  <2>2. nsIterator[b] - 1 \in 0..Len(list)
    BY <1>1, <2>1
  <2> QED
    BY <1>1, <1>2, <2>1, <2>2
<1>4. CASE ~sendNS[b]
  <2>1. NsGiven(b) \in {{}, DOMAIN list}
    BY <1>4 DEF NsInv, NsOf
  <2>2. 1..0 = {} /\ 0 \in 0..Len(list) /\ Len(list) \in 0..Len(list)
    BY <1>1
  <2>3. \E k \in 0..Len(list) : NsGiven(b) = 1..k
    BY <1>1, <2>1, <2>2
  <2> QED
    BY <1>1, <1>2, <2>1, <2>3
<1> QED
  BY <1>3, <1>4

(* The NS records of an answer are those of one SET_NS, in its order, and  *)
(* all of them or none when the answer is complete, whenever other lists   *)
(* are set meanwhile.                                                      *)
THEOREM NsListsAreWhole == Spec => []NsAnswersComeFromOneList
<1>1. Init => NsAnswersInv
  BY InitEstablishes, AnswersInvInit, NsInvInit DEF AnswersInv, NsAnswersInv
<1>2. NsAnswersInv => NsAnswersComeFromOneList
  BY NsInvGivesOneList DEF NsAnswersInv
<1> QED
  BY <1>1, <1>2, NsAnswersInvStep, PTL DEF Spec

-----------------------------------------------------------------------------
(* The addresses.                                                          *)
IPRecords == [type : IPRecordTypes, addr : STRING, ttl : Int]

LEMMA FinitePart ==
  ASSUME NEW n \in Nat, NEW I \in SUBSET (1..n)
  PROVE  IsFiniteSet(I) /\ Cardinality(I) \in Nat
<1>1. IsFiniteSet(1..n)
  BY FS_Interval
<1>2. IsFiniteSet(I)
  BY <1>1, FS_Subset
<1> QED
  BY <1>2, FS_CardinalityType

LEMMA ProperPart ==
  ASSUME NEW S, IsFiniteSet(S), NEW T \in SUBSET S, T # S
  PROVE  Cardinality(T) # Cardinality(S)
BY FS_Subset

LEMMA SequenceOf ==
  ASSUME NEW S, NEW n \in Nat, NEW f, f = [k \in 1..n |-> f[k]],
         \A k \in 1..n : f[k] \in S
  PROVE  f \in Seq(S) /\ DOMAIN f = 1..n
OBVIOUS

(* The elements of a finite set of numbers can be counted off: for each k  *)
(* up to its size there is one that has k elements up to itself.           *)
LEMMA CountedOff ==
  ASSUME NEW n \in Nat, NEW I \in SUBSET (1..n),
         NEW k \in 1..Cardinality(I)
  PROVE  \E i \in I : Cardinality({j \in I : j <= i}) = k
<1> DEFINE UpTo(i) == {j \in I : j <= i}
           rank == [i \in I |-> Cardinality(UpTo(i))]
           size == Cardinality(I)
<1>1. IsFiniteSet(I) /\ size \in Nat
  BY FinitePart
<1>2. \A i \in I : IsFiniteSet(UpTo(i)) /\ Cardinality(UpTo(i)) \in 1..size
  <2> SUFFICES ASSUME NEW i \in I
               PROVE  IsFiniteSet(UpTo(i)) /\ Cardinality(UpTo(i)) \in 1..size
    OBVIOUS
  <2>1. UpTo(i) \in SUBSET I /\ i \in UpTo(i)
    OBVIOUS
  <2>2. IsFiniteSet(UpTo(i)) /\ Cardinality(UpTo(i)) <= size
    BY <1>1, <2>1, FS_Subset
  <2>3. Cardinality(UpTo(i)) \in Nat
    BY <2>2, FS_CardinalityType
  <2>4. Cardinality(UpTo(i)) # 0
    BY <2>1, <2>2, FS_EmptySet
  <2> QED
    BY <1>1, <2>2, <2>3, <2>4
<1>3. ASSUME NEW i \in I, NEW j \in I, i < j
      PROVE  rank[i] # rank[j]
  <2>1. UpTo(i) \in SUBSET UpTo(j) /\ j \in UpTo(j) /\ j \notin UpTo(i)
    <3>1. \A m \in I : m \in Nat
      OBVIOUS
    <3>2. \A m \in I : m <= i => m <= j
      BY <1>3, <3>1
    <3>3. j <= j /\ ~(j <= i)
      BY <1>3, <3>1
    <3> QED
      BY <3>2, <3>3
  <2>2. IsFiniteSet(UpTo(j)) /\ UpTo(i) # UpTo(j)
    BY <1>2, <2>1
  <2>3. Cardinality(UpTo(i)) # Cardinality(UpTo(j))
    <3> HIDE DEF UpTo
    <3> QED
      BY <2>1, <2>2, ProperPart
  <2> QED
    BY <2>3
<1>4. rank \in Injection(I, 1..size)
  <2>1. rank \in [I -> 1..size]
    BY <1>2
  <2>2. \A i, j \in I : i # j => i < j \/ j < i
    OBVIOUS
  <2>3. \A i, j \in I : rank[i] = rank[j] => i = j
    BY <1>3, <2>2
  <2> QED
    BY <2>1, <2>3 DEF Injection, IsInjective
<1>5. IsFiniteSet(1..size) /\ Cardinality(1..size) = size
  BY <1>1, FS_Interval
<1>6. rank \in Surjection(I, 1..size)
  BY <1>4, <1>5, FS_Injection
<1>7. PICK i \in I : rank[i] = k
  BY <1>6 DEF Surjection
<1> QED
  BY <1>7

(* A record as the answer gives it: the name of its type, and the address. *)
Address(r) == <<IF r.type = IPv4 THEN "A" ELSE "AAAA", r.addr>>

Published(entries) ==
  {<<IF e.ipt = 4 THEN "A" ELSE "AAAA", e.addr>> :
     e \in {d \in ToSet(entries) : Decodes(d)}}

(* A snapshot's records are those of entries that decode, each with the    *)
(* type and the address of its entry.                                      *)
LEMMA DecodedRecords ==
  ASSUME NEW entries \in Seq(Entries)
  PROVE  /\ Decoded(entries) \in Seq(IPRecords)
         /\ \A k \in DOMAIN Decoded(entries) :
              Address(Decoded(entries)[k]) \in Published(entries)
<1> DEFINE good == {i \in DOMAIN entries : Decodes(entries[i])}
           nth(k) == CHOOSE i \in good : Cardinality({j \in good : j <= i}) = k
           size == Cardinality(good)
           f == [k \in 1..size |-> IPRecord(entries[nth(k)])]
<1>1. Len(entries) \in Nat /\ good \in SUBSET (1..Len(entries))
  OBVIOUS
<1>2. size \in Nat
  BY <1>1, FinitePart
<1>3. ASSUME NEW k \in 1..size
      PROVE  f[k] \in IPRecords /\ Address(f[k]) \in Published(entries)
  <2>1. nth(k) \in good
    BY <1>1, CountedOff
  <2>2. f[k] = IPRecord(entries[nth(k)])
    OBVIOUS
  <2> HIDE DEF nth, f
  <2>3. nth(k) \in DOMAIN entries /\ Decodes(entries[nth(k)])
    BY <2>1
  <2> HIDE DEF good
  <2>4. entries[nth(k)] \in Entries /\ entries[nth(k)] \in ToSet(entries)
    BY <2>3 DEF ToSet
  <2>5. f[k] \in IPRecords
    BY <2>2, <2>4 DEF Entries, IPRecord, IPRecords, IPRecordTypes
  <2>6. Address(f[k]) = <<IF entries[nth(k)].ipt = 4 THEN "A" ELSE "AAAA",
                          entries[nth(k)].addr>>
    BY <2>2 DEF IPRecord, Address, IPv4, IPv6
  <2> QED
    BY <2>3, <2>4, <2>5, <2>6 DEF Published
<1>4. Decoded(entries) = f
  BY DEF Decoded
<1>5. f = [k \in 1..size |-> f[k]]
  OBVIOUS
<1> HIDE DEF f, size
<1> QED
  BY <1>2, <1>3, <1>4, <1>5, SequenceOf

(* What getIPs hands back are records of the container, NONE those of the  *)
(* types asked for, RANDOM those that are IPv4 if anything is asked for.   *)
Selected(type, r, mask) ==
  \/ type = "NONE" /\ NoneWants(r.type, mask)
  \/ type = "RANDOM" /\ RandomWants(r.type, mask)

LEMMA SelectionsAreRecords ==
  ASSUME NEW S, NEW recs \in Seq(S), NEW type, NEW mask,
         NEW out \in Selections(type, recs, mask)
  PROVE  /\ out \in Seq(S)
         /\ \A k \in DOMAIN out : \E i \in DOMAIN recs :
              out[k] = recs[i] /\ Selected(type, recs[i], mask)
<1>1. ASSUME NEW I \in SUBSET (DOMAIN recs), NEW p \in SetToSeqs(I),
             out = [k \in DOMAIN p |-> recs[p[k]]]
      PROVE  out \in Seq(S) /\ \A k \in DOMAIN out : \E i \in I : out[k] = recs[i]
  <2>1. IsFiniteSet(I)
    <3>1. Len(recs) \in Nat /\ DOMAIN recs = 1..Len(recs)
      OBVIOUS
    <3> QED
      BY <3>1, FinitePart
  <2>2. p \in [1..Cardinality(I) -> I] /\ Cardinality(I) \in Nat
    BY <2>1, FS_CardinalityType DEF SetToSeqs
  <2>3. \A k \in 1..Cardinality(I) : p[k] \in I /\ recs[p[k]] \in S
    BY <2>2
  <2>4. out = [k \in 1..Cardinality(I) |-> recs[p[k]]]
    BY <1>1, <2>2
  <2>5. out \in Seq(S)
    BY <2>2, <2>3, <2>4
  <2>6. \A k \in DOMAIN out : p[k] \in I /\ out[k] = recs[p[k]]
    BY <2>3, <2>4
  <2> QED
    BY <2>5, <2>6
<1>2. CASE type = "NONE"
  <2> DEFINE I == {i \in DOMAIN recs : NoneWants(recs[i].type, mask)}
  <2>1. out \in InOrder(recs, I)
    BY <1>2 DEF Selections, getIPSNoneAlgo
  <2>2. PICK p \in SetToSeqs(I) : out = [k \in DOMAIN p |-> recs[p[k]]]
    BY <2>1 DEF InOrder
  <2>3. out \in Seq(S) /\ \A k \in DOMAIN out : \E i \in I : out[k] = recs[i]
    BY <1>1, <2>2
  <2>4. \A i \in I : i \in DOMAIN recs /\ Selected(type, recs[i], mask)
    BY <1>2 DEF Selected
  <2> QED
    BY <2>3, <2>4
<1>3. CASE type = "RANDOM"
  <2> DEFINE I == {i \in DOMAIN recs : RandomWants(recs[i].type, mask)}
  <2>1. out \in Shuffled(recs, I)
    BY <1>3 DEF Selections, getIPSRandomAlgo
  <2>2. PICK p \in SetToSeqs(I) : out = [k \in DOMAIN p |-> recs[p[k]]]
    BY <2>1 DEF Shuffled
  <2>3. out \in Seq(S) /\ \A k \in DOMAIN out : \E i \in I : out[k] = recs[i]
    BY <1>1, <2>2
  <2>4. \A i \in I : i \in DOMAIN recs /\ Selected(type, recs[i], mask)
    BY <1>3 DEF Selected
  <2> QED
    BY <2>3, <2>4
<1>4. CASE type \notin {"NONE", "RANDOM"}
  <2>1. out = <<>>
    BY <1>4 DEF Selections
  <2> QED
    BY <2>1, EmptyIsSequence
<1> QED
  BY <1>2, <1>3, <1>4

(* What a container holds was published for its name, with its type; what  *)
(* a backend has handed out, or has yet to, is offered for its question.   *)
(* Until the map has been searched there is nothing of either.             *)
QueuedFor(b) == \A i \in DOMAIN queue[b] : Address(queue[b][i]) \in Offered(b)

AnsweredFor(b) ==
  \A i \in DOMAIN answer[b] :
    LET rr == answer[b][i]
    IN rr.type \in {"A", "AAAA"} =>
         rr.qname = question[b].name /\ <<rr.type, rr.content>> \in Offered(b)

NothingYet(b) == bpc[b] \in {"NS", "find"} => queue[b] = <<>> /\ answer[b] = <<>>

HoldsItsOwn(g) == \A i \in DOMAIN ips[g] : Address(ips[g][i]) \in PublishedFor(cname[g])

AddressInv ==
  /\ ips \in [Glbs -> Seq(IPRecords)]
  /\ queue \in [Backends -> Seq(IPRecords)]
  /\ \A g \in Glbs : HoldsItsOwn(g)
  /\ \A b \in Backends : QueuedFor(b) /\ AnsweredFor(b) /\ NothingYet(b)

(* What is offered depends on the question and on the container alone.     *)
LEMMA OfferStays ==
  ASSUME NEW b, question'[b] = question[b], found'[b] = found[b],
         found[b] # NoGlb => glbType'[found[b]] = glbType[found[b]]
  PROVE  Lower(b)' = Lower(b) /\ Offered(b)' = Offered(b)
<1>1. Lower(b)' = Lower(b)
  BY DEF Lower
<1>2. \A type : Serves(b, type)' = Serves(b, type)
  BY DEF Serves
<1>3. PublishedFor(Lower(b))' = PublishedFor(Lower(b))
  BY <1>1 DEF PublishedFor
<1> QED
  BY <1>1, <1>2, <1>3 DEF Offered

(* The records an algorithm selects are of a type the question is given.   *)
LEMMA SelectedIsServed ==
  ASSUME NEW b, found[b] # NoGlb, NEW r \in IPRecords,
         Selected(glbType[found[b]], r, Mask(question[b].type))
  PROVE  Serves(b, Address(r)[1])
<1> DEFINE asked == question[b].type
<1>1. \/ r.type = 1 /\ Address(r)[1] = "A"
      \/ r.type = 2 /\ Address(r)[1] = "AAAA"
  BY DEF IPRecords, IPRecordTypes, Address, IPv4, IPv6
<1>2. Mask(asked) = CASE asked = "A" -> 1 [] asked = "AAAA" -> 2
                      [] asked = "ANY" -> 3 [] OTHER -> 0
  BY DEF Mask, IPv4, IPv6
<1>3. CASE glbType[found[b]] = "NONE" /\ NoneWants(r.type, Mask(asked))
  BY <1>1, <1>2, <1>3 DEF NoneWants, Serves
<1>4. CASE glbType[found[b]] = "RANDOM" /\ RandomWants(r.type, Mask(asked))
  BY <1>1, <1>2, <1>4 DEF RandomWants, Serves
<1> QED
  BY <1>3, <1>4 DEF Selected

LEMMA AddressInvInit == Init => AddressInv
<1> SUFFICES ASSUME Init
             PROVE  AddressInv
  OBVIOUS
<1>1. /\ ips = [g \in Glbs |-> <<>>]
      /\ queue = [b \in Backends |-> <<>>] /\ answer = [b \in Backends |-> <<>>]
  BY DEF Init, SharedInit, BackendInit
<1>2. /\ ips \in [Glbs -> Seq(IPRecords)] /\ queue \in [Backends -> Seq(IPRecords)]
  BY <1>1, EmptyIsSequence
<1>3. /\ \A g \in Glbs : DOMAIN ips[g] = {}
      /\ \A b \in Backends : DOMAIN queue[b] = {} /\ DOMAIN answer[b] = {}
  BY <1>1
<1> QED
  BY <1>1, <1>2, <1>3 DEF AddressInv, HoldsItsOwn, QueuedFor, AnsweredFor, NothingYet

LEMMA ConcatElements ==
  ASSUME NEW S, NEW s \in Seq(S), NEW t \in Seq(S)
  PROVE  /\ s \o t \in Seq(S)
         /\ \A i \in DOMAIN (s \o t) :
              \/ \E j \in DOMAIN s : (s \o t)[i] = s[j]
              \/ \E j \in DOMAIN t : (s \o t)[i] = t[j]
<1>1. s \o t \in Seq(S) /\ Len(s \o t) = Len(s) + Len(t)
  OBVIOUS
<1>2. ASSUME NEW i \in DOMAIN (s \o t)
      PROVE  \/ \E j \in DOMAIN s : (s \o t)[i] = s[j]
             \/ \E j \in DOMAIN t : (s \o t)[i] = t[j]
  <2>1. i \in 1..(Len(s) + Len(t)) /\ Len(s) \in Nat /\ Len(t) \in Nat
    BY <1>1
  <2>2. CASE i <= Len(s)
    BY <2>1, <2>2
  <2>3. CASE ~(i <= Len(s))
    <3>1. i - Len(s) \in DOMAIN t /\ (s \o t)[i] = t[i - Len(s)]
      BY <2>1, <2>3
    <3> QED
      BY <3>1
  <2> QED
    BY <2>2, <2>3
<1> QED
  BY <1>1, <1>2

(* SNAPSHOT writes to the container of the name it was given, and no other *)
(* command touches a container's records.                                  *)
LEMMA AddressSessionPreserves ==
  ASSUME IInv, AddressInv, NEW s \in Sessions, Receive(s) \/ SessionStep(s),
         UNCHANGED backendVars
  PROVE  AddressInv'
<1>1. UNCHANGED <<queue, answer, question, found, bpc>>
  BY DEF backendVars
<1>2. \A b \in Backends : QueuedFor(b)' /\ AnsweredFor(b)' /\ NothingYet(b)'
  <2>1. ASSUME NEW b \in Backends
        PROVE  Offered(b)' = Offered(b)
    BY <1>1, FoundKeepsItsType, OfferStays
  <2> QED
    BY <1>1, <2>1 DEF AddressInv, QueuedFor, AnsweredFor, NothingYet
<1>3. CASE AddBegin(s)
  <2>1. /\ ips' = ips /\ cname' = [cname EXCEPT ![NewGlb] = cmd[s].fqdn]
        /\ NewGlb \in Unused
    BY <1>3 DEF AddBegin, NewGlb
  <2>2. ASSUME NEW g \in Glbs
        PROVE  HoldsItsOwn(g)'
    <3>1. CASE g = NewGlb
      <4>1. ips'[g] = <<>>
        BY <2>1, <3>1 DEF IInv, FreshInv
      <4> QED
        BY <4>1 DEF HoldsItsOwn
    <3>2. CASE g # NewGlb
      <4>1. ips'[g] = ips[g] /\ cname'[g] = cname[g]
        BY <2>1, <3>2 DEF IInv, TypeOK
      <4> QED
        BY <4>1 DEF AddressInv, HoldsItsOwn
    <3> QED
      BY <3>1, <3>2
  <2> QED
    BY <1>1, <1>2, <2>1, <2>2 DEF AddressInv
<1>4. CASE SnapApply(s)
  <2>1. /\ pc[s] = "applying" /\ cname' = cname
        /\ ips' = [ips EXCEPT ![glb[s]] = @ \o Decoded(cmd[s].entries)]
    BY <1>4 DEF SnapApply, Answers, Goes
  <2>2. /\ glb[s] \in Glbs /\ cname[glb[s]] = cmd[s].fqdn
        /\ cmd[s] \in Commands /\ cmd[s].op = "SNAPSHOT"
    BY <2>1, CommandFields DEF IInv, StagesInv
  <2>3. /\ Decoded(cmd[s].entries) \in Seq(IPRecords)
        /\ \A i \in DOMAIN Decoded(cmd[s].entries) :
             Address(Decoded(cmd[s].entries)[i]) \in PublishedFor(cmd[s].fqdn)
    <3>1. cmd[s].entries \in Seq(Entries)
      BY <2>2, ArgumentsAssumption DEF ArgumentsAssumption
    <3>2. Published(cmd[s].entries) \subseteq PublishedFor(cmd[s].fqdn)
      BY <2>2 DEF PublishedFor, Published
    <3> QED
      BY <3>1, <3>2, DecodedRecords
  <2>4. /\ ips'[glb[s]] = ips[glb[s]] \o Decoded(cmd[s].entries)
        /\ \A g \in Glbs \ {glb[s]} : ips'[g] = ips[g]
        /\ ips[glb[s]] \in Seq(IPRecords)
    BY <2>1, <2>2 DEF AddressInv
  <2>5. /\ ips'[glb[s]] \in Seq(IPRecords)
        /\ \A i \in DOMAIN ips'[glb[s]] :
             \/ \E j \in DOMAIN ips[glb[s]] : ips'[glb[s]][i] = ips[glb[s]][j]
             \/ \E j \in DOMAIN Decoded(cmd[s].entries) :
                   ips'[glb[s]][i] = Decoded(cmd[s].entries)[j]
    <3> DEFINE old == ips[glb[s]]
               new == Decoded(cmd[s].entries)
    <3>1. old \in Seq(IPRecords) /\ new \in Seq(IPRecords) /\ ips'[glb[s]] = old \o new
      BY <2>3, <2>4
    <3> HIDE DEF old, new
    <3>2. /\ old \o new \in Seq(IPRecords)
          /\ \A i \in DOMAIN (old \o new) :
               \/ \E j \in DOMAIN old : (old \o new)[i] = old[j]
               \/ \E j \in DOMAIN new : (old \o new)[i] = new[j]
      BY <3>1, ConcatElements
    <3>3. /\ ips'[glb[s]] \in Seq(IPRecords)
          /\ \A i \in DOMAIN ips'[glb[s]] :
               \/ \E j \in DOMAIN old : ips'[glb[s]][i] = old[j]
               \/ \E j \in DOMAIN new : ips'[glb[s]][i] = new[j]
      BY <3>1, <3>2
    <3> QED
      BY <3>3 DEF old, new
  <2>6. \A j \in DOMAIN ips[glb[s]] : Address(ips[glb[s]][j]) \in PublishedFor(cmd[s].fqdn)
    BY <2>2 DEF AddressInv, HoldsItsOwn
  <2>7. \A i \in DOMAIN ips'[glb[s]] : Address(ips'[glb[s]][i]) \in PublishedFor(cmd[s].fqdn)
    BY <2>3, <2>5, <2>6
  <2>8. \A g \in Glbs : HoldsItsOwn(g)'
    <3>1. ASSUME NEW g \in Glbs, g = glb[s]
          PROVE  HoldsItsOwn(g)'
      BY <2>1, <2>2, <2>7, <3>1 DEF HoldsItsOwn
    <3>2. ASSUME NEW g \in Glbs, g # glb[s]
          PROVE  HoldsItsOwn(g)'
      <4>1. ips'[g] = ips[g] /\ cname'[g] = cname[g]
        BY <2>1, <2>4, <3>2
      <4> QED
        BY <4>1 DEF AddressInv, HoldsItsOwn
    <3> QED
      BY <3>1, <3>2
  <2>9. ips' \in [Glbs -> Seq(IPRecords)]
    BY <2>1, <2>4, <2>5 DEF AddressInv
  <2> QED
    BY <1>1, <1>2, <2>8, <2>9 DEF AddressInv
<1>5. CASE ~AddBegin(s) /\ ~SnapApply(s)
  <2>1. UNCHANGED <<ips, cname>>
    BY <1>5 DEF Receive, SessionStep, AddUnknownAlgo, AddExists, AddDone,
       DelMissing, EraseBegin, EraseDone, SnapMissing, SnapFind,
       CountsOne, CountsDone, ShareLock, VisitReads, VisitClears, VisitDone,
       SetSOA, SetNS, UnknownCommand, sharedVars, glbVars
  <2> QED
    BY <1>1, <1>2, <2>1 DEF AddressInv, HoldsItsOwn
<1> QED
  BY <1>3, <1>4, <1>5

(* A step of one backend leaves the containers' records and what the other *)
(* backends hold alone.                                                    *)
OthersAlone(b) ==
  \A a \in Backends \ {b} :
    /\ queue'[a] = queue[a] /\ answer'[a] = answer[a]
    /\ question'[a] = question[a] /\ found'[a] = found[a] /\ bpc'[a] = bpc[a]

LEMMA AddressesAreTheBackendsOwn ==
  ASSUME AddressInv, NEW b \in Backends, UNCHANGED <<ips, cname, glbType>>,
         queue' \in [Backends -> Seq(IPRecords)], OthersAlone(b),
         QueuedFor(b)', AnsweredFor(b)', NothingYet(b)'
  PROVE  AddressInv'
<1>1. ASSUME NEW a \in Backends \ {b}
      PROVE  QueuedFor(a)' /\ AnsweredFor(a)' /\ NothingYet(a)'
  <2>1. QueuedFor(a) /\ AnsweredFor(a) /\ NothingYet(a)
    BY DEF AddressInv
  <2>2. Offered(a)' = Offered(a)
    BY OfferStays DEF OthersAlone
  <2> QED
    BY <2>1, <2>2 DEF QueuedFor, AnsweredFor, NothingYet, OthersAlone
<1>2. \A g \in Glbs : HoldsItsOwn(g)'
  BY DEF AddressInv, HoldsItsOwn
<1> QED
  BY <1>1, <1>2 DEF AddressInv

LEMMA AddressLookupPreserves ==
  ASSUME AnswersInv, AddressInv, NEW b \in Backends,
         LookupStart(b) \/ LookupSelects(b)
  PROVE  AddressInv'
<1>1. UNCHANGED <<ips, cname, glbType>>
  BY DEF LookupStart, LookupSelects, sharedVars, glbVars
<1>2. CASE LookupStart(b)
  <2>1. /\ queue' = [queue EXCEPT ![b] = <<>>] /\ answer' = [answer EXCEPT ![b] = <<>>]
        /\ found' = [found EXCEPT ![b] = NoGlb]
        /\ \E q : question' = [question EXCEPT ![b] = q]
        /\ \E at : bpc' = [bpc EXCEPT ![b] = at]
    BY <1>2 DEF LookupStart, Cleared
  <2>2. OthersAlone(b)
    BY <2>1 DEF AddressInv, AnswersInv, SoaInv, IInv, TypeOK, OthersAlone
  <2>3. queue' \in [Backends -> Seq(IPRecords)]
    BY <2>1, EmptyIsSequence DEF AddressInv
  <2>4. queue'[b] = <<>> /\ answer'[b] = <<>>
    BY <2>1 DEF AddressInv, AnswersInv, SoaInv
  <2> QED
    BY <1>1, <2>2, <2>3, <2>4, AddressesAreTheBackendsOwn
       DEF QueuedFor, AnsweredFor, NothingYet
<1>3. CASE LookupSelects(b)
  <2>1. PICK out \in Selections(glbType[found[b]], ips[found[b]], Mask(question[b].type)) :
          queue' = [queue EXCEPT ![b] = @ \o out]
    BY <1>3 DEF LookupSelects
  <2>2. UNCHANGED <<answer, question, found>> /\ bpc' = [bpc EXCEPT ![b] = "get"]
    BY <1>3 DEF LookupSelects, Moves
  <2>3. found[b] # NoGlb /\ found[b] \in Glbs /\ cname[found[b]] = Lower(b)
    BY <1>3, IdentitiesAssumption DEF LookupSelects, Moves, AnswersInv, IInv, TypeOK,
       BackendInv, ContainersKeepTheirName
  <2>4. /\ out \in Seq(IPRecords)
        /\ \A k \in DOMAIN out : \E i \in DOMAIN ips[found[b]] :
             /\ out[k] = ips[found[b]][i]
             /\ Selected(glbType[found[b]], ips[found[b]][i], Mask(question[b].type))
    BY <2>1, <2>3, SelectionsAreRecords DEF AddressInv
  <2>5. ASSUME NEW k \in DOMAIN out
        PROVE  Address(out[k]) \in Offered(b)
    <3>1. PICK i \in DOMAIN ips[found[b]] :
            /\ out[k] = ips[found[b]][i]
            /\ Selected(glbType[found[b]], ips[found[b]][i], Mask(question[b].type))
      BY <2>4
    <3>2. out[k] \in IPRecords
      BY <2>4
    <3>3. Address(out[k]) \in PublishedFor(Lower(b))
      BY <2>3, <3>1 DEF AddressInv, HoldsItsOwn
    <3>4. Serves(b, Address(out[k])[1])
      BY <2>3, <3>1, <3>2, SelectedIsServed
    <3> QED
      BY <3>3, <3>4 DEF Offered
  <2>6. /\ queue[b] \in Seq(IPRecords) /\ queue'[b] = queue[b] \o out
        /\ \A a \in Backends \ {b} : queue'[a] = queue[a]
    BY <2>1 DEF AddressInv
  <2>7. Offered(b)' = Offered(b)
    BY <1>1, <2>2, OfferStays
  <2>8. queue'[b] \in Seq(IPRecords) /\ QueuedFor(b)'
    <3>1. \A i \in DOMAIN queue[b] : Address(queue[b][i]) \in Offered(b)
      BY DEF AddressInv, QueuedFor
    <3> DEFINE had == queue[b]
    <3>2. had \in Seq(IPRecords) /\ out \in Seq(IPRecords)
      BY <2>4, <2>6
    <3> HIDE DEF had
    <3>3. /\ had \o out \in Seq(IPRecords)
          /\ \A i \in DOMAIN (had \o out) :
               \/ \E j \in DOMAIN had : (had \o out)[i] = had[j]
               \/ \E j \in DOMAIN out : (had \o out)[i] = out[j]
      BY <3>2, ConcatElements
    <3>4. \A i \in DOMAIN had : Address(had[i]) \in Offered(b)
      BY <3>1 DEF had
    <3>5. \A i \in DOMAIN (had \o out) :
            Address((had \o out)[i]) \in Offered(b)
      <4> SUFFICES ASSUME NEW i \in DOMAIN (had \o out)
                   PROVE  Address((had \o out)[i]) \in Offered(b)
        OBVIOUS
      <4>1. CASE \E j \in DOMAIN had : (had \o out)[i] = had[j]
        BY ONLY <3>4, <4>1
      <4>2. CASE \E j \in DOMAIN out : (had \o out)[i] = out[j]
        BY ONLY <2>5, <4>2
      <4> QED
        BY <3>3, <4>1, <4>2
    <3> QED
      BY <2>6, <2>7, <3>3, <3>5 DEF QueuedFor, had
  <2>9. queue' \in [Backends -> Seq(IPRecords)]
    BY <2>1, <2>6, <2>8 DEF AddressInv
  <2>10. AnsweredFor(b)' /\ NothingYet(b)' /\ OthersAlone(b)
    BY <2>2, <2>6, <2>7
       DEF AddressInv, AnsweredFor, NothingYet, OthersAlone, AnswersInv, IInv, TypeOK
  <2> QED
    BY <1>1, <2>8, <2>9, <2>10, AddressesAreTheBackendsOwn
<1> QED
  BY <1>2, <1>3

LEMMA AddressGetPreserves ==
  ASSUME AnswersInv, AddressInv, NEW b \in Backends,
         GetSOA(b) \/ GetNS(b) \/ GetIP(b)
  PROVE  AddressInv'
<1>1. PICK rr :
        /\ Returns(b, rr)
        /\ \/ rr.type \notin {"A", "AAAA"} /\ queue' = queue
           \/ /\ queue[b] # <<>> /\ queue' = [queue EXCEPT ![b] = Tail(@)]
              /\ rr.qname = question[b].name
              /\ <<rr.type, rr.content>> = Address(Head(queue[b]))
  <2>1. ASSUME NEW type, NEW content, NEW qname
        PROVE  /\ ResourceRecord(type, content, qname).type = type
               /\ ResourceRecord(type, content, qname).content = content
               /\ ResourceRecord(type, content, qname).qname = qname
    BY DEF ResourceRecord
  <2>2. CASE GetSOA(b)
    BY <2>1, <2>2 DEF GetSOA
  <2>3. CASE GetNS(b)
    BY <2>1, <2>3 DEF GetNS
  <2>4. CASE GetIP(b)
    <3>1. Returns(b, ResourceRecord(IF Head(queue[b]).type = IPv4 THEN "A" ELSE "AAAA",
                                    Head(queue[b]).addr, question[b].name))
      BY <2>4 DEF GetIP
    <3>2. queue[b] # <<>> /\ queue' = [queue EXCEPT ![b] = Tail(@)]
      BY <2>4 DEF GetIP
    <3> QED
      BY <2>1, <3>1, <3>2 DEF Address
  <2> QED
    BY <2>2, <2>3, <2>4
<1>2. UNCHANGED <<ips, cname, glbType, question, found, bpc>> /\ bpc[b] = "get"
  BY <1>1 DEF Returns, sharedVars, glbVars
<1>3. /\ Offered(b)' = Offered(b) /\ QueuedFor(b) /\ AnsweredFor(b)
      /\ queue[b] \in Seq(IPRecords)
  BY <1>2, OfferStays DEF AddressInv
<1>4. PICK n \in Nat :
        /\ DOMAIN answer[b] = 1..n /\ DOMAIN answer'[b] = 1..(n + 1)
        /\ \A i \in 1..n : answer'[b][i] = answer[b][i]
        /\ answer'[b][n + 1] = rr
  BY <1>1, GivenGrows
<1>5. \A a \in Backends \ {b} : answer'[a] = answer[a]
  BY <1>1, GivenGrows
<1>6. rr.type \in {"A", "AAAA"} =>
        rr.qname = question[b].name /\ <<rr.type, rr.content>> \in Offered(b)
  <2>1. queue[b] # <<>> => 1 \in DOMAIN queue[b] /\ Head(queue[b]) = queue[b][1]
    BY <1>3
  <2> QED
    BY <1>1, <1>3, <2>1 DEF QueuedFor
<1>7. AnsweredFor(b)'
  <2>1. \A i \in 1..(n + 1) : i \in 1..n \/ i = n + 1
    OBVIOUS
  <2>2. \A i \in DOMAIN answer'[b] :
          \/ i \in DOMAIN answer[b] /\ answer'[b][i] = answer[b][i]
          \/ answer'[b][i] = rr
    BY <1>4, <2>1
  <2> QED
    BY <1>2, <1>3, <1>6, <2>2 DEF AnsweredFor
<1>8. /\ queue' \in [Backends -> Seq(IPRecords)]
      /\ \A a \in Backends \ {b} : queue'[a] = queue[a]
      /\ QueuedFor(b)'
  <2>1. CASE queue' = queue
    BY <1>2, <1>3, <2>1 DEF AddressInv, QueuedFor
  <2>2. CASE queue[b] # <<>> /\ queue' = [queue EXCEPT ![b] = Tail(@)]
    <3>1. /\ Tail(queue[b]) \in Seq(IPRecords)
          /\ \A i \in DOMAIN Tail(queue[b]) :
               i + 1 \in DOMAIN queue[b] /\ Tail(queue[b])[i] = queue[b][i + 1]
      BY <1>3, <2>2
    <3>2. queue'[b] = Tail(queue[b]) /\ \A a \in Backends \ {b} : queue'[a] = queue[a]
      BY <2>2 DEF AddressInv
    <3>3. QueuedFor(b)'
      BY <1>2, <1>3, <3>1, <3>2 DEF QueuedFor
    <3>4. queue' \in [Backends -> Seq(IPRecords)]
      BY <2>2, <3>1 DEF AddressInv
    <3> QED
      BY <3>2, <3>3, <3>4
  <2> QED
    BY <1>1, <2>1, <2>2
<1>9. NothingYet(b)' /\ OthersAlone(b)
  BY <1>2, <1>5, <1>8 DEF NothingYet, OthersAlone
<1> QED
  BY <1>2, <1>7, <1>8, <1>9, AddressesAreTheBackendsOwn

LEMMA AddressMovesPreserve ==
  ASSUME IInv, AddressInv, NEW b \in Backends, BackendStep(b),
         ~LookupSelects(b), ~GetSOA(b), ~GetNS(b), ~GetIP(b)
  PROVE  AddressInv'
<1>1. UNCHANGED <<ips, cname, glbType, queue, answer, question>>
  BY DEF BackendStep, LookupNS, LookupFind, LookupFindRaces, Finds, LookupCrashes,
     LookupCounts, GetEnd, sharedVars, glbVars, backendVars
<1>2. CASE \E g : Finds(b, g)
  <2>1. PICK g, at : /\ found' = [found EXCEPT ![b] = g]
                     /\ bpc[b] = "find" /\ bpc' = [bpc EXCEPT ![b] = at]
    BY <1>2 DEF Finds, Moves
  <2>2. OthersAlone(b)
    BY <1>1, <2>1 DEF OthersAlone, IInv, TypeOK
  <2>3. queue[b] = <<>> /\ answer[b] = <<>>
    BY <2>1 DEF AddressInv, NothingYet
  <2>4. QueuedFor(b)' /\ AnsweredFor(b)' /\ NothingYet(b)'
    BY <1>1, <2>3 DEF QueuedFor, AnsweredFor, NothingYet
  <2> QED
    BY <1>1, <2>2, <2>4, AddressesAreTheBackendsOwn DEF AddressInv
<1>3. CASE ~\E g : Finds(b, g)
  <2>1. UNCHANGED found /\ (UNCHANGED bpc \/ \E from, to : Moves(b, from, to)
                                             /\ (to = "find" => from = "NS")
                                             /\ to # "NS")
    BY <1>3 DEF BackendStep, LookupNS, LookupFind, LookupFindRaces, LookupCrashes,
       LookupCounts, GetEnd, backendVars
  <2>2. OthersAlone(b)
    BY <1>1, <2>1 DEF OthersAlone, Moves, IInv, TypeOK
  <2>3. bpc'[b] \in {"NS", "find"} => bpc[b] \in {"NS", "find"}
    BY <2>1 DEF Moves, IInv, TypeOK
  <2>4. Offered(b)' = Offered(b)
    BY <1>1, <2>1, OfferStays
  <2>5. QueuedFor(b)' /\ AnsweredFor(b)' /\ NothingYet(b)'
    BY <1>1, <2>3, <2>4 DEF AddressInv, QueuedFor, AnsweredFor, NothingYet
  <2> QED
    BY <1>1, <2>2, <2>5, AddressesAreTheBackendsOwn DEF AddressInv
<1> QED
  BY <1>2, <1>3

AddressAnswersInv == AnswersInv /\ AddressInv

LEMMA AddressAnswersInvStep == AddressAnswersInv /\ [Next]_vars => AddressAnswersInv'
<1> SUFFICES ASSUME AddressAnswersInv, [Next]_vars
             PROVE  AddressInv'
  BY AnswersInvStep DEF AddressAnswersInv
<1>1. CASE UNCHANGED vars
  <2>1. UNCHANGED <<ips, cname, glbType, queue, answer, question, found, bpc>>
    BY <1>1 DEF vars, sharedVars, glbVars, backendVars
  <2>2. \A b \in Backends : Offered(b)' = Offered(b)
    BY <2>1, OfferStays
  <2> QED
    BY <2>1, <2>2
       DEF AddressAnswersInv, AddressInv, HoldsItsOwn, QueuedFor, AnsweredFor, NothingYet
<1>2. ASSUME NEW b \in Backends, LookupStart(b) \/ BackendStep(b)
      PROVE  AddressInv'
  BY <1>2, AddressLookupPreserves, AddressGetPreserves, AddressMovesPreserve
     DEF AddressAnswersInv, AnswersInv
<1>3. ASSUME NEW s \in Sessions, Receive(s) \/ SessionStep(s), UNCHANGED backendVars
      PROVE  AddressInv'
  BY <1>3, AddressSessionPreserves DEF AddressAnswersInv, AnswersInv
<1> QED
  BY <1>1, <1>2, <1>3 DEF Next, SessionActs, BackendActs, Finished

(* A question is never answered with an address published for another name *)
(* or as the other type, of a type that the algorithm of the container     *)
(* that was found does not select for it, or left over from an earlier     *)
(* question, whatever domains are added, deleted and filled while it is    *)
(* looked up.                                                              *)
THEOREM AddressesAreOfTheName == Spec => []AddressesBelongToTheQuestion
<1>1. Init => AddressAnswersInv
  BY InitEstablishes, AnswersInvInit, AddressInvInit DEF AnswersInv, AddressAnswersInv
<1>2. AddressAnswersInv => AddressesBelongToTheQuestion
  BY DEF AddressAnswersInv, AddressInv, AnsweredFor, AddressesBelongToTheQuestion, ToSet
<1> QED
  BY <1>1, <1>2, AddressAnswersInvStep, PTL DEF Spec

-----------------------------------------------------------------------------
(* The refinement: every step of the command sessions among themselves and *)
(* the PowerDNS threads is a step of GlbRegistry or leaves its state alone. *)
(* The mapping is the one GlbSystem gives.                                 *)

(* The sequences of the sessions.                                          *)
SequencesInv ==
  /\ counts \in [Sessions -> Seq(Names \X Nat)]
  /\ reply = [s \in Sessions |-> reply[s]]

(* What a COUNTS with names, or a CLR_COUNTS, still has to visit, has      *)
(* counted and knows to be missing.                                        *)
LookingInv(s) ==
  /\ ToSet(todo[s]) \subseteq ToSet(cmd[s].fqdns)
  /\ ~failed[s] => \A n \in ToSet(cmd[s].fqdns) :
                     n \in ToSet(todo[s]) \cup CountedNames(counts[s])

ClearingInv(s) ==
  /\ counts[s] = <<>>
  /\ ToSet(todo[s]) \subseteq
       (IF cmd[s].fqdns = <<>> THEN Registered ELSE ToSet(cmd[s].fqdns))
  /\ failed[s] => \E n \in ToSet(cmd[s].fqdns) : n \notin Registered
  /\ ~failed[s] => \A n \in ToSet(cmd[s].fqdns) : n \in ToSet(todo[s]) \cup Registered

(* What a session that goes through all domains has seen and has yet to    *)
(* see are together what is registered.                                    *)
ReportingInv(s) ==
  LET named == CountedNames(counts[s]) \cup ToSet(todo[s])
  IN /\ ~failed[s]
     /\ IF cmd[s].op = "COUNTS"
        THEN cmd[s].fqdns = <<>> /\ named = Registered
        ELSE named = IF cmd[s].nLoops > 0 THEN Registered ELSE {}

(* How far a session's command has got, and what it relies on meanwhile.   *)
ProgressInv(s) ==
  /\ pc[s] = "inserting" => cmd[s].algo \in GlbTypes
  /\ pc[s] = "erasing" /\ cmd[s].op = "DEL_DOMAIN" => cmd[s].fqdn \in Registered
  /\ pc[s] = "applying" => failed[s] = HasBadEntry(cmd[s].entries)
  /\ pc[s] \notin {"idle", "COUNTS", "visiting"} => counts[s] = <<>>
  /\ pc[s] \in {"CLR_COUNTS", "DEBUG_DOMAINS"}
     \/ (pc[s] = "COUNTS" /\ cmd[s].fqdns = <<>>)
       => ~failed[s] /\ counts[s] = <<>> /\ todo[s] = <<>>
  /\ LooksByName(s) => LookingInv(s)
  /\ pc[s] = "visiting" =>
       /\ cmd[s].op \in {"COUNTS", "CLR_COUNTS", "DEBUG_DOMAINS"}
       /\ IF cmd[s].op = "CLR_COUNTS" THEN ClearingInv(s) ELSE ReportingInv(s)

RefinementInv ==
  IInv /\ SequencesInv /\ \A s \in Sessions : ProgressInv(s)

-----------------------------------------------------------------------------
(* Sequences and the sets of their elements.                               *)

LEMMA HeadAndTail ==
  ASSUME NEW S, NEW seq \in Seq(S), seq # <<>>
  PROVE  /\ Head(seq) \in S
         /\ Head(seq) \in ToSet(seq)
         /\ ToSet(seq) = {Head(seq)} \cup ToSet(Tail(seq))
<1>1. /\ Len(seq) \in Nat /\ Len(seq) > 0 /\ DOMAIN seq = 1..Len(seq)
      /\ Head(seq) = seq[1]
  OBVIOUS
<1>2. /\ DOMAIN Tail(seq) = 1..(Len(seq) - 1)
      /\ \A i \in 1..(Len(seq) - 1) : Tail(seq)[i] = seq[i + 1]
  OBVIOUS
<1>3. Head(seq) \in S /\ Head(seq) \in ToSet(seq)
  BY <1>1 DEF ToSet
<1>4. ASSUME NEW i \in DOMAIN Tail(seq)
      PROVE  Tail(seq)[i] \in ToSet(seq)
  <2>1. i + 1 \in DOMAIN seq /\ Tail(seq)[i] = seq[i + 1]
    BY <1>1, <1>2
  <2> QED
    BY <2>1 DEF ToSet
<1>5. ASSUME NEW i \in DOMAIN seq, i # 1
      PROVE  seq[i] \in ToSet(Tail(seq))
  <2>1. i - 1 \in 1..(Len(seq) - 1) /\ (i - 1) + 1 = i
    BY <1>1, <1>5
  <2> QED
    BY <1>2, <2>1 DEF ToSet
<1> QED
  BY <1>1, <1>3, <1>4, <1>5 DEF ToSet

LEMMA CountedOneMore ==
  ASSUME NEW seq \in Seq(Names \X Nat), NEW n \in Names, NEW k \in Nat
  PROVE  /\ Append(seq, <<n, k>>) \in Seq(Names \X Nat)
         /\ CountedNames(Append(seq, <<n, k>>)) = CountedNames(seq) \cup {n}
<1> DEFINE app == Append(seq, <<n, k>>)
<1>1. /\ app \in Seq(Names \X Nat)
      /\ DOMAIN seq = 1..Len(seq) /\ Len(seq) \in Nat
      /\ DOMAIN app = 1..(Len(seq) + 1)
      /\ \A i \in 1..Len(seq) : app[i] = seq[i]
      /\ app[Len(seq) + 1] = <<n, k>>
  OBVIOUS
<1> HIDE DEF app
<1>2. ToSet(app) \subseteq ToSet(seq) \cup {<<n, k>>}
  <2>1. \A i \in DOMAIN app : i \in DOMAIN seq \/ i = Len(seq) + 1
    BY <1>1
  <2> QED
    BY <1>1, <2>1 DEF ToSet
<1>3. ToSet(seq) \cup {<<n, k>>} \subseteq ToSet(app)
  <2>1. Len(seq) + 1 \in DOMAIN app /\ DOMAIN seq \subseteq DOMAIN app
    BY <1>1
  <2> QED
    BY <1>1, <2>1 DEF ToSet
<1>4. ToSet(app) = ToSet(seq) \cup {<<n, k>>}
  BY <1>2, <1>3
<1>5. <<n, k>>[1] = n
  OBVIOUS
<1>6. CountedNames(app) = CountedNames(seq) \cup {n}
  BY <1>4, <1>5, ZenonT(30) DEF CountedNames
<1> QED
  BY <1>1, <1>6 DEF app

LEMMA NothingCounted == ToSet(<<>>) = {} /\ CountedNames(<<>>) = {}
BY DEF CountedNames, ToSet

(* An order of a finite set names all of it.                               *)
LEMMA OrdersNameAll ==
  ASSUME NEW S, IsFiniteSet(S), NEW order \in SetToSeqs(S)
  PROVE  ToSet(order) = S
<1> DEFINE D == 1..Cardinality(S)
<1>1. Cardinality(S) \in Nat
  BY FS_CardinalityType
<1>2. order \in [D -> S] /\ \A i, j \in D : i # j => order[i] # order[j]
  BY DEF SetToSeqs
<1>3. IsFiniteSet(D) /\ Cardinality(D) = Cardinality(S)
  BY <1>1, FS_Interval
<1> QED
  <2>1. order \in Injection(D, S)
    BY <1>2 DEF Injection, IsInjective
  <2>2. order \in Surjection(D, S)
    BY <1>3, <2>1, FS_Injection
  <2> QED
    BY <1>2, <2>2 DEF Surjection, ToSet

LEMMA SmallRemainder ==
  ASSUME NEW a \in Nat, NEW b \in Nat, a < b
  PROVE  a % b = a
OBVIOUS

(* Going round it more than once names nothing else.                       *)
LEMMA RoundsNameTheSame ==
  ASSUME NEW S, NEW seq \in Seq(S), NEW n \in Nat
  PROVE  ToSet(Repeated(seq, n)) = IF n > 0 THEN ToSet(seq) ELSE {}
<1> DEFINE rounds == n * Len(seq)
           R == Repeated(seq, n)
<1>1. Len(seq) \in Nat /\ rounds \in Nat /\ DOMAIN seq = 1..Len(seq)
  OBVIOUS
<1>2. DOMAIN R = 1..rounds /\ \A i \in 1..rounds : R[i] = seq[((i - 1) % Len(seq)) + 1]
  BY DEF Repeated
<1>3. CASE n = 0 \/ Len(seq) = 0
  <2>1. rounds = 0
    BY <1>3, <1>1
  <2>2. 1..rounds = {}
    BY <2>1
  <2> QED
    BY <1>1, <1>2, <1>3, <2>2 DEF ToSet
<1>4. CASE n > 0 /\ Len(seq) > 0
  <2>1. rounds >= Len(seq)
    BY <1>4, <1>1
  <2>2. ASSUME NEW i \in 1..rounds
        PROVE  R[i] \in ToSet(seq)
    <3>1. (i - 1) % Len(seq) \in 0..(Len(seq) - 1)
      BY <1>1, <1>4, RemainderInRange
    <3>2. ((i - 1) % Len(seq)) + 1 \in 1..Len(seq)
      BY <1>1, <3>1
    <3> QED
      BY <1>1, <1>2, <3>2 DEF ToSet
  <2>3. ASSUME NEW i \in 1..Len(seq)
        PROVE  seq[i] \in ToSet(R)
    <3>1. i \in 1..rounds
      BY <1>1, <2>1
    <3>2. (i - 1) % Len(seq) = i - 1
      BY <1>1, SmallRemainder
    <3>3. R[i] = seq[i]
      BY <1>2, <3>1, <3>2
    <3> QED
      BY <1>2, <3>1, <3>3 DEF ToSet
  <2> QED
    BY <1>1, <1>2, <1>4, <2>2, <2>3 DEF ToSet
<1> QED
  BY <1>1, <1>3, <1>4

-----------------------------------------------------------------------------
(* A step of one session leaves what the others hold as it was.            *)
OthersStay(s) ==
  \A t \in Sessions \ {s} :
    /\ pc'[t] = pc[t] /\ cmd'[t] = cmd[t] /\ glb'[t] = glb[t] /\ todo'[t] = todo[t]
    /\ failed'[t] = failed[t] /\ counts'[t] = counts[t] /\ reply'[t] = reply[t]

LEMMA OneSessionMoves ==
  ASSUME RefinementInv, NEW s \in Sessions, Receive(s) \/ SessionStep(s)
  PROVE  /\ OthersStay(s)
         /\ reply' = [t \in Sessions |-> reply'[t]]
<1>1. /\ pc = [t \in Sessions |-> pc[t]] /\ cmd = [t \in Sessions |-> cmd[t]]
      /\ glb = [t \in Sessions |-> glb[t]] /\ todo = [t \in Sessions |-> todo[t]]
      /\ failed = [t \in Sessions |-> failed[t]]
      /\ counts = [t \in Sessions |-> counts[t]]
      /\ reply = [t \in Sessions |-> reply[t]]
  BY DEF RefinementInv, IInv, TypeOK, ShapeInv, SequencesInv
<1>2. /\ pc' = pc \/ \E x : pc' = [pc EXCEPT ![s] = x]
      /\ cmd' = cmd \/ \E x : cmd' = [cmd EXCEPT ![s] = x]
      /\ glb' = glb \/ \E x : glb' = [glb EXCEPT ![s] = x]
      /\ todo' = todo \/ \E x : todo' = [todo EXCEPT ![s] = x]
      /\ failed' = failed \/ \E x : failed' = [failed EXCEPT ![s] = x]
      /\ counts' = counts \/ \E x : counts' = [counts EXCEPT ![s] = x]
      /\ reply' = reply \/ \E x : reply' = [reply EXCEPT ![s] = x]
  <2>1. CASE Receive(s)
    BY <2>1 DEF Receive, Goes
  <2>2. CASE SessionStep(s)
    BY <2>2 DEF SessionStep, AddUnknownAlgo, AddExists, AddBegin, AddDone, DelMissing,
       EraseBegin, EraseDone, SnapMissing, SnapFind, SnapApply, CountsOne, CountsDone,
       ShareLock, VisitReads, VisitClears, VisitDone, SetSOA, SetNS, UnknownCommand,
       Answers, Goes, Counted
  <2> QED
    BY <2>1, <2>2
<1>3. /\ pc'  = [t \in Sessions |-> pc'[t]]
      /\ reply' = [t \in Sessions |-> reply'[t]]
  BY <1>1, <1>2
<1>4. OthersStay(s)
  BY <1>1, <1>2 DEF OthersStay
<1> QED
  BY <1>3, <1>4

(* Nor can it disturb what they rely on: whoever needs the map to stay as  *)
(* it is holds its lock.                                                   *)
LEMMA OthersProgress ==
  ASSUME NEW t \in Sessions, ProgressInv(t),
         pc'[t] = pc[t], cmd'[t] = cmd[t], todo'[t] = todo[t],
         failed'[t] = failed[t], counts'[t] = counts[t],
         pc[t] \in {"erasing", "visiting"} => glbMap' = glbMap
  PROVE  ProgressInv(t)'
<1>1. CASE glbMap' = glbMap
  BY <1>1 DEF ProgressInv, LookingInv, ClearingInv, ReportingInv, LooksByName,
     Registered
<1>2. CASE pc[t] \notin {"erasing", "visiting"}
  BY <1>2 DEF ProgressInv, LookingInv, LooksByName
<1> QED
  BY <1>1, <1>2

LEMMA MapStaysForTheOthers ==
  ASSUME RefinementInv, NEW s \in Sessions, Receive(s) \/ SessionStep(s),
         NEW t \in Sessions \ {s}, pc[t] \in {"erasing", "visiting"}
  PROVE  glbMap' = glbMap
<1>1. pc[s] \notin {"inserting", "erasing"}
  BY WriterIsAlone DEF RefinementInv
<1> QED
  BY <1>1 DEF Receive, SessionStep, AddUnknownAlgo, AddExists, AddBegin, AddDone,
     DelMissing, EraseBegin, EraseDone, SnapMissing, SnapFind, SnapApply, CountsOne,
     CountsDone, ShareLock, VisitReads, VisitClears, VisitDone, SetSOA, SetNS,
     UnknownCommand, Answers, Goes, sharedVars, mapVars

-----------------------------------------------------------------------------
(* What the session that moves relies on afterwards.                       *)

LEMMA ReceiveProgress ==
  ASSUME RefinementInv, NEW s \in Sessions, Receive(s)
  PROVE  ProgressInv(s)' /\ counts' \in [Sessions -> Seq(Names \X Nat)]
<1>1. PICK c \in Commands :
        /\ pc' = [pc EXCEPT ![s] = c.op]
        /\ cmd' = [cmd EXCEPT ![s] = c]
        /\ todo' = [todo EXCEPT ![s] = IF c.op = "COUNTS" THEN c.fqdns ELSE <<>>]
  BY DEF Receive, Goes
<1>2. /\ failed' = [failed EXCEPT ![s] = FALSE]
      /\ counts' = [counts EXCEPT ![s] = <<>>]
  BY DEF Receive
<1>3. c.op \in Ops
  BY CommandsAssumption DEF CommandsAssumption
<1>4. /\ pc'[s] = c.op /\ cmd'[s] = c /\ failed'[s] = FALSE /\ counts'[s] = <<>>
      /\ todo'[s] = IF c.op = "COUNTS" THEN c.fqdns ELSE <<>>
  BY <1>1, <1>2 DEF RefinementInv, IInv, TypeOK, ShapeInv, SequencesInv
<1>5. ProgressInv(s)'
  BY <1>3, <1>4 DEF ProgressInv, LookingInv, LooksByName, Ops
<1>6. counts' \in [Sessions -> Seq(Names \X Nat)]
  BY <1>2, EmptyIsSequence DEF RefinementInv, SequencesInv
<1> QED
  BY <1>5, <1>6

LEMMA CountsOneProgress ==
  ASSUME RefinementInv, NEW s \in Sessions, CountsOne(s)
  PROVE  ProgressInv(s)' /\ counts' \in [Sessions -> Seq(Names \X Nat)]
<1> DEFINE n == Head(todo[s])
<1>1. /\ pc[s] = "COUNTS" /\ todo[s] # <<>>
      /\ todo' = [todo EXCEPT ![s] = Tail(@)]
      /\ UNCHANGED <<pc, cmd, glbMap>>
  BY DEF CountsOne, sharedVars, mapVars
<1>2. \/ n \in Registered /\ counts' = Counted(s, n) /\ failed' = failed
      \/ counts' = counts /\ failed' = [failed EXCEPT ![s] = TRUE]
  BY DEF CountsOne
<1>3. /\ n \in Names /\ n \in ToSet(todo[s])
      /\ ToSet(todo[s]) = {n} \cup ToSet(Tail(todo[s]))
  BY <1>1, HeadAndTail DEF RefinementInv, IInv, ShapeInv
<1>4. LooksByName(s) /\ LookingInv(s)
  BY <1>1 DEF RefinementInv, ProgressInv, LooksByName
<1>5. todo'[s] = Tail(todo[s])
  BY <1>1 DEF RefinementInv, IInv, ShapeInv
<1>6. CASE n \in Registered /\ counts' = Counted(s, n) /\ failed' = failed
  <2>1. nLookups[glbMap[n]] \in Nat /\ counts[s] \in Seq(Names \X Nat)
    BY <1>6 DEF RefinementInv, IInv, TypeOK, SequencesInv, Registered
  <2>2. /\ counts' \in [Sessions -> Seq(Names \X Nat)]
        /\ CountedNames(counts'[s]) = CountedNames(counts[s]) \cup {n}
    BY <1>3, <1>6, <2>1, CountedOneMore DEF Counted, RefinementInv, SequencesInv
  <2>3. LookingInv(s)'
    BY <1>1, <1>3, <1>4, <1>5, <1>6, <2>2 DEF LookingInv
  <2> QED
    BY <1>1, <1>4, <2>2, <2>3 DEF ProgressInv, LooksByName
<1>7. CASE counts' = counts /\ failed' = [failed EXCEPT ![s] = TRUE]
  <2>1. failed'[s]
    BY <1>7 DEF RefinementInv, IInv, TypeOK
  <2>2. LookingInv(s)'
    BY <1>1, <1>3, <1>4, <1>5, <2>1 DEF LookingInv
  <2> QED
    BY <1>1, <1>4, <1>7, <2>2 DEF ProgressInv, LooksByName, RefinementInv, SequencesInv
<1> QED
  BY <1>2, <1>6, <1>7

LEMMA ShareLockProgress ==
  ASSUME RefinementInv, NEW s \in Sessions, ShareLock(s)
  PROVE  ProgressInv(s)' /\ counts' \in [Sessions -> Seq(Names \X Nat)]
<1>1. /\ pc[s] \in {"COUNTS", "CLR_COUNTS", "DEBUG_DOMAINS"}
      /\ pc[s] = "COUNTS" => cmd[s].fqdns = <<>>
      /\ pc' = [pc EXCEPT ![s] = "visiting"]
      /\ UNCHANGED <<glbMap, cmd, failed, counts>>
  BY DEF ShareLock
<1>2. PICK names \in Itineraries(cmd[s]) : todo' = [todo EXCEPT ![s] = names]
  BY DEF ShareLock
<1>3. cmd[s] \in Commands /\ cmd[s].op = pc[s]
  BY <1>1 DEF RefinementInv, IInv, StagesInv, Ops
<1>4. ~failed[s] /\ counts[s] = <<>>
  BY <1>1 DEF RefinementInv, ProgressInv
<1>5. /\ pc'[s] = "visiting" /\ todo'[s] = names
      /\ Registered' = Registered
  BY <1>1, <1>2 DEF RefinementInv, IInv, TypeOK, ShapeInv, Registered
<1>6. IsFiniteSet(Registered)
  BY DEF RefinementInv, IInv, ShapeInv
<1>7. CASE cmd[s].op = "CLR_COUNTS"
  <2>1. ToSet(names) = IF cmd[s].fqdns = <<>> THEN Registered ELSE ToSet(cmd[s].fqdns)
    BY <1>6, <1>7, OrdersNameAll DEF Itineraries
  <2>2. cmd[s].fqdns = <<>> => ToSet(cmd[s].fqdns) = {}
    BY NothingCounted
  <2> QED
    BY <1>1, <1>4, <1>5, <1>7, <2>1, <2>2
       DEF ProgressInv, ClearingInv, LooksByName, RefinementInv, SequencesInv
<1>8. CASE cmd[s].op = "COUNTS"
  <2>1. ToSet(names) = Registered
    BY <1>6, <1>8, OrdersNameAll DEF Itineraries
  <2> QED
    BY <1>1, <1>3, <1>4, <1>5, <1>8, <2>1, NothingCounted
       DEF ProgressInv, ReportingInv, LooksByName, RefinementInv, SequencesInv
<1>9. CASE cmd[s].op = "DEBUG_DOMAINS"
  <2>1. PICK order \in SetToSeqs(Registered) : names = Repeated(order, cmd[s].nLoops)
    BY <1>9 DEF Itineraries
  <2>2. /\ order \in Seq(Registered) /\ ToSet(order) = Registered
        /\ cmd[s].nLoops \in Nat
    BY <1>3, <1>6, <1>9, OrdersAreSequences, OrdersNameAll, CommandsAssumption
       DEF CommandsAssumption
  <2>3. ToSet(names) = IF cmd[s].nLoops > 0 THEN Registered ELSE {}
    BY <2>1, <2>2, RoundsNameTheSame
  <2> QED
    BY <1>1, <1>4, <1>5, <1>9, <2>3, NothingCounted
       DEF ProgressInv, ReportingInv, LooksByName, RefinementInv, SequencesInv
<1> QED
  BY <1>1, <1>3, <1>7, <1>8, <1>9

LEMMA VisitReadsProgress ==
  ASSUME RefinementInv, NEW s \in Sessions, VisitReads(s)
  PROVE  ProgressInv(s)' /\ counts' \in [Sessions -> Seq(Names \X Nat)]
<1> DEFINE n == Head(todo[s])
<1>1. /\ pc[s] = "visiting" /\ cmd[s].op \in {"COUNTS", "DEBUG_DOMAINS"}
      /\ todo[s] # <<>>
      /\ counts' = Counted(s, n)
      /\ todo' = [todo EXCEPT ![s] = Tail(@)]
      /\ UNCHANGED <<pc, cmd, glbMap, failed>>
  BY DEF VisitReads, sharedVars, mapVars
<1>2. /\ n \in Names /\ n \in ToSet(todo[s])
      /\ ToSet(todo[s]) = {n} \cup ToSet(Tail(todo[s]))
      /\ todo'[s] = Tail(todo[s])
  BY <1>1, HeadAndTail DEF RefinementInv, IInv, ShapeInv
<1>3. n \in Registered
  BY <1>1, <1>2 DEF RefinementInv, IInv, IteratorsStayValid
<1>4. nLookups[glbMap[n]] \in Nat /\ counts[s] \in Seq(Names \X Nat)
  BY <1>2, <1>3 DEF RefinementInv, IInv, TypeOK, SequencesInv, Registered
<1>5. /\ counts' \in [Sessions -> Seq(Names \X Nat)]
      /\ CountedNames(counts'[s]) = CountedNames(counts[s]) \cup {n}
  BY <1>1, <1>2, <1>4, CountedOneMore DEF Counted, RefinementInv, SequencesInv
<1>6. ReportingInv(s)
  BY <1>1 DEF RefinementInv, ProgressInv
<1>7. ReportingInv(s)'
  BY <1>1, <1>2, <1>5, <1>6 DEF ReportingInv, Registered
<1> QED
  BY <1>1, <1>5, <1>7 DEF ProgressInv, LooksByName

LEMMA VisitClearsProgress ==
  ASSUME RefinementInv, NEW s \in Sessions, VisitClears(s)
  PROVE  ProgressInv(s)' /\ counts' = counts
<1> DEFINE n == Head(todo[s])
<1>1. /\ pc[s] = "visiting" /\ cmd[s].op = "CLR_COUNTS" /\ todo[s] # <<>>
      /\ todo' = [todo EXCEPT ![s] = Tail(@)]
      /\ UNCHANGED <<pc, cmd, glbMap, counts>>
      /\ \/ n \in Registered /\ failed' = failed
         \/ n \notin Registered /\ failed' = [failed EXCEPT ![s] = TRUE]
  BY DEF VisitClears, mapVars
<1>2. /\ n \in ToSet(todo[s])
      /\ ToSet(todo[s]) = {n} \cup ToSet(Tail(todo[s]))
      /\ todo'[s] = Tail(todo[s])
  BY <1>1, HeadAndTail DEF RefinementInv, IInv, ShapeInv
<1>3. failed'[s] = IF n \in Registered THEN failed[s] ELSE TRUE
  BY <1>1 DEF RefinementInv, IInv, TypeOK
<1>4. ClearingInv(s)
  BY <1>1 DEF RefinementInv, ProgressInv
<1>5. ClearingInv(s)'
  BY <1>1, <1>2, <1>3, <1>4 DEF ClearingInv, Registered
<1> QED
  BY <1>1, <1>5 DEF ProgressInv, LooksByName

LEMMA SessionProgress ==
  ASSUME RefinementInv, NEW s \in Sessions, SessionStep(s)
  PROVE  ProgressInv(s)' /\ counts' \in [Sessions -> Seq(Names \X Nat)]
<1> USE DEF RefinementInv
<1>1. counts \in [Sessions -> Seq(Names \X Nat)] /\ pc \in [Sessions -> SessionPCs]
  BY DEF SequencesInv, IInv, TypeOK
<1>2. CASE AddBegin(s)
  <2>1. /\ pc[s] = "ADD_DOMAIN" /\ pc' = [pc EXCEPT ![s] = "inserting"]
        /\ cmd[s].algo \in GlbTypes /\ UNCHANGED <<cmd, counts>>
    BY <1>2 DEF AddBegin, Goes
  <2> QED
    BY <1>1, <2>1 DEF ProgressInv, LooksByName
<1>3. CASE EraseBegin(s)
  <2>1. /\ \/ pc[s] = "DEL_DOMAIN" /\ cmd[s].fqdn \in Registered
           \/ pc[s] = "CLR_DOMAINS"
        /\ pc' = [pc EXCEPT ![s] = "erasing"]
        /\ UNCHANGED <<cmd, counts, glbMap>>
    BY <1>3 DEF EraseBegin, Goes
  <2>2. pc[s] = cmd[s].op
    BY <2>1 DEF IInv, StagesInv, Ops
  <2> QED
    BY <1>1, <2>1, <2>2 DEF ProgressInv, LooksByName, Registered
<1>4. CASE SnapFind(s)
  <2>1. /\ pc[s] = "SNAPSHOT" /\ pc' = [pc EXCEPT ![s] = "applying"]
        /\ failed' = [failed EXCEPT ![s] = HasBadEntry(cmd[s].entries)]
        /\ UNCHANGED <<cmd, counts>>
    BY <1>4 DEF SnapFind, Goes
  <2>2. failed'[s] = HasBadEntry(cmd[s].entries)
    BY <2>1 DEF IInv, TypeOK
  <2> QED
    BY <1>1, <2>1, <2>2 DEF ProgressInv, LooksByName
<1>5. CASE pc'[s] = "idle" /\ counts' = counts
  BY <1>1, <1>5 DEF ProgressInv, LooksByName
<1>6. CASE VisitClears(s)
  BY <1>1, <1>6, VisitClearsProgress
<1>7. \/ pc'[s] = "idle" /\ counts' = counts
      \/ AddBegin(s) \/ EraseBegin(s) \/ SnapFind(s)
      \/ CountsOne(s) \/ ShareLock(s) \/ VisitReads(s) \/ VisitClears(s)
  BY <1>1 DEF SessionStep, AddUnknownAlgo, AddExists, AddDone, DelMissing, EraseDone,
     SnapMissing, SnapApply, CountsDone, VisitDone, SetSOA, SetNS, UnknownCommand,
     Answers, Goes
<1> QED
  BY <1>2, <1>3, <1>4, <1>5, <1>6, <1>7, CountsOneProgress, ShareLockProgress,
     VisitReadsProgress

LEMMA RefinementInvInit == Init => RefinementInv
<1> SUFFICES ASSUME Init
             PROVE  RefinementInv
  OBVIOUS
<1>1. IInv
  BY InitEstablishes
<1>2. /\ pc = [s \in Sessions |-> "idle"]
      /\ counts = [s \in Sessions |-> <<>>]
      /\ reply = [s \in Sessions |-> NoReply]
  BY DEF Init, SessionInit
<1>3. SequencesInv
  BY <1>2, EmptyIsSequence DEF SequencesInv
<1>4. \A s \in Sessions : ProgressInv(s)
  BY <1>2 DEF ProgressInv, LooksByName
<1> QED
  BY <1>1, <1>3, <1>4 DEF RefinementInv

LEMMA RefinementInvStep == RefinementInv /\ [Next]_vars => RefinementInv'
<1> SUFFICES ASSUME RefinementInv, [Next]_vars
             PROVE  RefinementInv'
  OBVIOUS
<1>1. IInv'
  BY StepPreserves DEF RefinementInv
<1>2. ASSUME NEW s \in Sessions, Receive(s) \/ SessionStep(s)
      PROVE  RefinementInv'
  <2>1. OthersStay(s) /\ reply' = [t \in Sessions |-> reply'[t]]
    BY <1>2, OneSessionMoves
  <2>2. ProgressInv(s)' /\ counts' \in [Sessions -> Seq(Names \X Nat)]
    BY <1>2, ReceiveProgress, SessionProgress
  <2>3. ASSUME NEW t \in Sessions \ {s}
        PROVE  ProgressInv(t)'
    <3>1. pc[t] \in {"erasing", "visiting"} => glbMap' = glbMap
      BY <1>2, MapStaysForTheOthers
    <3> QED
      BY <2>1, <3>1, OthersProgress DEF OthersStay, RefinementInv
  <2> QED
    BY <1>1, <2>1, <2>2, <2>3 DEF RefinementInv, SequencesInv
<1>3. ASSUME UNCHANGED <<glbMap, sessionVars>>
      PROVE  RefinementInv'
  <2>1. \A t \in Sessions : ProgressInv(t)'
    BY <1>3, OthersProgress DEF sessionVars, RefinementInv
  <2> QED
    BY <1>1, <1>3, <2>1 DEF RefinementInv, SequencesInv, sessionVars
<1>4. ASSUME NEW b \in Backends, LookupStart(b) \/ BackendStep(b)
      PROVE  glbMap' = glbMap
  BY <1>4 DEF LookupStart, BackendStep, LookupNS, LookupFind, LookupFindRaces, Finds,
     LookupCrashes, LookupCounts, LookupSelects, GetSOA, GetNS, GetIP, GetEnd, Returns,
     sharedVars, mapVars
<1>5. CASE UNCHANGED vars
  BY <1>3, <1>5 DEF vars, sharedVars, mapVars
<1> QED
  BY <1>2, <1>3, <1>4, <1>5 DEF Next, SessionActs, BackendActs, Finished

-----------------------------------------------------------------------------
(* What the registry sees of a step of one session: that session's own     *)
(* places in the mapped functions, and which containers are in use.        *)

LEMMA MappedMoves ==
  ASSUME RefinementInv, NEW s \in Sessions, OthersStay(s)
  PROVE  /\ RegistryPhase' = [RegistryPhase EXCEPT ![s] = RegistryPhase'[s]]
         /\ RegistryTarget' = [RegistryTarget EXCEPT ![s] = RegistryTarget'[s]]
         /\ RegistrySeen' = [RegistrySeen EXCEPT ![s] = RegistrySeen'[s]]
         /\ RegistryMissed' = [RegistryMissed EXCEPT ![s] = RegistryMissed'[s]]
         /\ RegistryReply' = [RegistryReply EXCEPT ![s] = RegistryReply'[s]]
<1>1. RegistryPhase' = [RegistryPhase EXCEPT ![s] = RegistryPhase'[s]]
  BY DEF OthersStay, RegistryPhase
<1>2. RegistryTarget' = [RegistryTarget EXCEPT ![s] = RegistryTarget'[s]]
  BY DEF OthersStay, RegistryTarget
<1>3. \A t \in Sessions \ {s} : LooksByName(t)' = LooksByName(t)
  BY DEF OthersStay, LooksByName
<1>4. RegistrySeen' = [RegistrySeen EXCEPT ![s] = RegistrySeen'[s]]
  <2>1. \A t \in Sessions \ {s} : RegistrySeen'[t] = RegistrySeen[t]
    BY <1>3 DEF OthersStay, RegistrySeen, CountedNames
  <2> QED
    BY <2>1 DEF RegistrySeen
<1>5. RegistryMissed' = [RegistryMissed EXCEPT ![s] = RegistryMissed'[s]]
  <2>1. \A t \in Sessions \ {s} : RegistryMissed'[t] = RegistryMissed[t]
    BY <1>3 DEF OthersStay, RegistryMissed
  <2> QED
    BY <2>1 DEF RegistryMissed
<1>6. RegistryReply' = [RegistryReply EXCEPT ![s] = RegistryReply'[s]]
  <2>1. \A t \in Sessions \ {s} : RegistryReply'[t] = RegistryReply[t]
    BY DEF OthersStay, RegistryReply
  <2> QED
    BY <2>1 DEF RegistryReply
<1> QED
  BY <1>1, <1>2, <1>4, <1>5, <1>6

LEMMA UsedStays ==
  ASSUME RefinementInv, NEW s \in Sessions, OthersStay(s), cname' = cname,
         pc[s] # "inserting", pc'[s] # "inserting"
  PROVE  RegistryUsed' = RegistryUsed
BY DEF RegistryUsed, OthersStay

(* A step that the registry does not see.                                  *)
LEMMA Unseen ==
  ASSUME RefinementInv, NEW s \in Sessions, OthersStay(s),
         UNCHANGED <<glbMap, ips, cmd, reply>>, RegistryUsed' = RegistryUsed,
         RegistryPhase'[s] = RegistryPhase[s], RegistryTarget'[s] = RegistryTarget[s],
         RegistrySeen'[s] = RegistrySeen[s], RegistryMissed'[s] = RegistryMissed[s]
  PROVE  UNCHANGED Registry!vars
<1>1. RegistryPhase' = RegistryPhase /\ RegistryTarget' = RegistryTarget
  <2>1. /\ RegistryPhase = [t \in Sessions |-> RegistryPhase[t]]
        /\ RegistryTarget = [t \in Sessions |-> RegistryTarget[t]]
    BY DEF RegistryPhase, RegistryTarget
  <2> QED
    BY <2>1, MappedMoves
<1>2. RegistrySeen' = RegistrySeen /\ RegistryMissed' = RegistryMissed
  <2>1. /\ RegistrySeen = [t \in Sessions |-> RegistrySeen[t]]
        /\ RegistryMissed = [t \in Sessions |-> RegistryMissed[t]]
    BY DEF RegistrySeen, RegistryMissed
  <2> QED
    BY <2>1, MappedMoves
<1>3. RegistryReply' = RegistryReply
  BY DEF RegistryReply
<1> QED
  BY <1>1, <1>2, <1>3 DEF Registry!vars

(* An answer is one of the registry, with the same words.                  *)
LEMMA AnswersMap ==
  ASSUME RefinementInv, NEW s \in Sessions, NEW from, from # "idle", NEW status,
         Answers(s, from, status), OthersStay(s)
  PROVE  /\ Registry!Goes(s, IF from = "applying" THEN "found" ELSE "called", "idle")
         /\ Registry!Answers(s, cmd[s].op, status, CountedNames(counts[s]))
         /\ pc[s] = from /\ pc'[s] = "idle"
<1>1. /\ pc[s] = from /\ pc'[s] = "idle" /\ cmd' = cmd
      /\ reply'[s] = [status |-> status, counts |-> counts[s]]
  BY DEF Answers, Goes, RefinementInv, IInv, TypeOK, SequencesInv
<1>2. /\ RegistryPhase[s] = IF from = "applying" THEN "found" ELSE "called"
      /\ RegistryPhase'[s] = "idle" /\ RegistryTarget'[s] = NoGlb
      /\ RegistrySeen'[s] = {} /\ RegistryMissed'[s] = FALSE
      /\ RegistryReply'[s] = [status |-> status, names |-> CountedNames(counts[s])]
  <2>1. ~LooksByName(s)'
    BY <1>1 DEF LooksByName
  <2>2. /\ RegistryPhase[s] = IF from = "applying" THEN "found" ELSE "called"
        /\ RegistryPhase'[s] = "idle" /\ RegistryTarget'[s] = NoGlb
    BY <1>1 DEF RegistryPhase, RegistryTarget
  <2>3. RegistrySeen'[s] = {} /\ RegistryMissed'[s] = FALSE
    BY <2>1 DEF RegistrySeen, RegistryMissed
  <2>4. RegistryReply'[s] = [status |-> status, names |-> CountedNames(counts[s])]
    BY <1>1 DEF RegistryReply
  <2> QED
    BY <2>2, <2>3, <2>4
<1> QED
  BY <1>1, <1>2, MappedMoves DEF Registry!Goes, Registry!Answers

LEMMA RegisteredAlike == Registry!Registered = Registered
BY DEF Registry!Registered, Registered

-----------------------------------------------------------------------------
(* The commands, one by one.                                               *)

LEMMA ReceiveMaps ==
  ASSUME RefinementInv, NEW s \in Sessions, Receive(s)
  PROVE  Registry!Invoke(s)
<1>1. PICK c \in Commands :
        /\ pc[s] = "idle" /\ pc' = [pc EXCEPT ![s] = c.op]
        /\ cmd' = [cmd EXCEPT ![s] = c]
  BY DEF Receive, Goes
<1>2. /\ failed' = [failed EXCEPT ![s] = FALSE]
      /\ counts' = [counts EXCEPT ![s] = <<>>]
      /\ reply' = [reply EXCEPT ![s] = NoReply]
      /\ UNCHANGED <<glbMap, ips, cname>>
  BY DEF Receive, sharedVars, mapVars, glbVars
<1>3. c.op \in Ops
  BY CommandsAssumption DEF CommandsAssumption
<1>4. /\ pc'[s] = c.op /\ pc'[s] \notin {"idle", "applying", "inserting"}
      /\ failed'[s] = FALSE /\ counts'[s] = <<>> /\ reply'[s] = NoReply
  BY <1>1, <1>2, <1>3 DEF RefinementInv, IInv, TypeOK, SequencesInv, Ops
<1>5. OthersStay(s)
  BY OneSessionMoves
<1>6. RegistryUsed' = RegistryUsed
  BY <1>1, <1>2, <1>4, <1>5, UsedStays
<1>7. RegistryPhase[s] = "idle" /\ RegistryPhase'[s] = "called"
  BY <1>1, <1>4 DEF RegistryPhase
<1>8. RegistryReply'[s] = Registry!NoReply
  <2>1. reply'[s].status = "" /\ reply'[s].counts = <<>>
    <3>1. NoReply.status = "" /\ NoReply.counts = <<>>
      BY DEF NoReply
    <3> QED
      BY <1>4, <3>1
  <2>2. CountedNames(reply'[s].counts) = {}
    BY <2>1, NothingCounted
  <2> QED
    BY <2>1, <2>2 DEF RegistryReply, Registry!NoReply
<1>9. RegistryTarget' = RegistryTarget
  <2>1. RegistryTarget[s] = NoGlb /\ RegistryTarget'[s] = NoGlb
    BY <1>1, <1>4 DEF RegistryTarget
  <2>2. RegistryTarget = [t \in Sessions |-> RegistryTarget[t]]
    BY DEF RegistryTarget
  <2>3. RegistryTarget' = [RegistryTarget EXCEPT ![s] = RegistryTarget'[s]]
    BY <1>5, MappedMoves
  <2> QED
    BY <2>1, <2>2, <2>3
<1>10. RegistrySeen' = RegistrySeen
  <2>1. RegistrySeen[s] = {} /\ RegistrySeen'[s] = {}
    BY <1>1, <1>4, NothingCounted DEF RegistrySeen, LooksByName
  <2>2. RegistrySeen = [t \in Sessions |-> RegistrySeen[t]]
    BY DEF RegistrySeen
  <2>3. RegistrySeen' = [RegistrySeen EXCEPT ![s] = RegistrySeen'[s]]
    BY <1>5, MappedMoves
  <2> QED
    BY <2>1, <2>2, <2>3
<1>11. RegistryMissed' = RegistryMissed
  <2>1. RegistryMissed[s] = FALSE /\ RegistryMissed'[s] = FALSE
    BY <1>1, <1>4 DEF RegistryMissed, LooksByName
  <2>2. RegistryMissed = [t \in Sessions |-> RegistryMissed[t]]
    BY DEF RegistryMissed
  <2>3. RegistryMissed' = [RegistryMissed EXCEPT ![s] = RegistryMissed'[s]]
    BY <1>5, MappedMoves
  <2> QED
    BY <2>1, <2>2, <2>3
<1> QED
  BY <1>1, <1>2, <1>5, <1>6, <1>7, <1>8, <1>9, <1>10, <1>11, MappedMoves
     DEF Registry!Invoke, Registry!Goes

(* Answers that change neither the map nor a container.                    *)
LEMMA PlainAnswersMap ==
  ASSUME RefinementInv, NEW s \in Sessions,
         \/ AddUnknownAlgo(s) \/ AddExists(s) \/ DelMissing(s) \/ SnapMissing(s)
         \/ SetSOA(s) \/ SetNS(s) \/ UnknownCommand(s)
  PROVE  \/ Registry!RegisterFails(s) \/ Registry!Unregister(s)
         \/ Registry!ResolveFails(s) \/ Registry!Pass(s)
<1> USE RegisteredAlike
<1>1. OthersStay(s)
  BY OneSessionMoves DEF SessionStep
<1>2. PICK from \in Ops, status \in {"", "PASSED", "FAILED"} : Answers(s, from, status)
  BY DEF AddUnknownAlgo, AddExists, DelMissing, SnapMissing, SetSOA, SetNS,
     UnknownCommand, Ops
<1>3. /\ from \notin {"idle", "applying", "inserting"}
      /\ pc[s] = from /\ pc'[s] = "idle" /\ cmd[s].op = from
  BY <1>1, <1>2, AnswersMap DEF RefinementInv, IInv, StagesInv, Ops
<1>4. /\ Registry!Goes(s, "called", "idle")
      /\ Registry!Answers(s, cmd[s].op, status, CountedNames(counts[s]))
  BY <1>1, <1>2, <1>3, AnswersMap
<1>5. UNCHANGED <<glbMap, ips, cname>>
  BY DEF AddUnknownAlgo, AddExists, DelMissing, SnapMissing, SetSOA, SetNS,
     UnknownCommand, sharedVars, mapVars, glbVars
<1>6. RegistryUsed' = RegistryUsed
  BY <1>1, <1>3, <1>5, UsedStays
<1>7. from # "COUNTS" => CountedNames(counts[s]) = {}
  BY <1>3, NothingCounted DEF RefinementInv, ProgressInv, Ops
<1>8. CASE AddUnknownAlgo(s) \/ AddExists(s)
  <2>1. /\ from = "ADD_DOMAIN" /\ Answers(s, "ADD_DOMAIN", "FAILED")
        /\ cmd[s].fqdn \in Registered \/ cmd[s].algo \notin GlbTypes
    BY <1>3, <1>8 DEF AddUnknownAlgo, AddExists
  <2>2. Registry!Answers(s, "ADD_DOMAIN", "FAILED", {})
    BY <1>1, <1>3, <1>7, <2>1, AnswersMap
  <2> QED
    BY <1>3, <1>4, <1>5, <1>6, <2>1, <2>2 DEF Registry!RegisterFails
<1>9. CASE DelMissing(s)
  <2>1. /\ from = "DEL_DOMAIN" /\ Answers(s, "DEL_DOMAIN", "FAILED")
        /\ cmd[s].fqdn \notin Registered
    BY <1>3, <1>9 DEF DelMissing, Answers, Goes
  <2>2. Registry!Answers(s, "DEL_DOMAIN", "FAILED", {})
    BY <1>1, <1>3, <1>7, <2>1, AnswersMap
  <2>3. cmd[s].fqdn \in Names
    BY <1>3, <2>1, CommandFields DEF RefinementInv
  <2>4. glbMap' = [glbMap EXCEPT ![cmd[s].fqdn] = NoGlb]
    BY <1>5, <2>1, <2>3 DEF Registered, RefinementInv, IInv, TypeOK
  <2> QED
    BY <1>4, <1>5, <1>6, <2>1, <2>2, <2>4 DEF Registry!Unregister, Registry!Passes
<1>10. CASE SnapMissing(s)
  <2>1. /\ from = "SNAPSHOT" /\ Answers(s, "SNAPSHOT", "FAILED")
        /\ cmd[s].fqdn \notin Registered
    BY <1>3, <1>10 DEF SnapMissing
  <2>2. Registry!Answers(s, "SNAPSHOT", "FAILED", {})
    BY <1>1, <1>3, <1>7, <2>1, AnswersMap
  <2> QED
    BY <1>3, <1>4, <1>5, <1>6, <2>1, <2>2 DEF Registry!ResolveFails
<1>11. CASE SetSOA(s) \/ SetNS(s) \/ UnknownCommand(s)
  <2>1. \/ from = "SET_SOA" /\ Answers(s, "SET_SOA", "PASSED")
        \/ from = "SET_NS" /\ Answers(s, "SET_NS", "PASSED")
        \/ from = "UNKNOWN COMMAND" /\ Answers(s, "UNKNOWN COMMAND", "")
    BY <1>3, <1>11 DEF SetSOA, SetNS, UnknownCommand, Answers, Goes
  <2>2. \/ Registry!Answers(s, "SET_SOA", "PASSED", {})
        \/ Registry!Answers(s, "SET_NS", "PASSED", {})
        \/ Registry!Answers(s, "UNKNOWN COMMAND", "", {})
    BY <1>1, <1>3, <1>7, <2>1, AnswersMap
  <2> QED
    BY <1>4, <1>5, <1>6, <2>2 DEF Registry!Pass
<1> QED
  BY <1>8, <1>9, <1>10, <1>11

(* The first half of an insertion or an erasure, taking the shared lock,   *)
(* and the visits under it.                                                *)
LEMMA HiddenStepsMap ==
  ASSUME RefinementInv, NEW s \in Sessions,
         \/ AddBegin(s) \/ EraseBegin(s) \/ ShareLock(s)
         \/ VisitReads(s) \/ VisitClears(s)
  PROVE  UNCHANGED Registry!vars
<1>1. OthersStay(s)
  BY OneSessionMoves DEF SessionStep
<1>2. UNCHANGED <<glbMap, ips, cmd, reply>>
  BY DEF AddBegin, EraseBegin, ShareLock, VisitReads, VisitClears, sharedVars, mapVars,
     glbVars
<1>3. /\ pc[s] \notin {"idle", "applying", "inserting"}
      /\ pc'[s] \notin {"idle", "applying"}
      /\ ~LooksByName(s) /\ ~LooksByName(s)'
  BY <1>2 DEF AddBegin, EraseBegin, ShareLock, VisitReads, VisitClears, Goes,
     LooksByName, RefinementInv, IInv, TypeOK
<1>4. RegistryUsed' = RegistryUsed
  <2>1. CASE AddBegin(s)
    <3>1. pc[s] = "ADD_DOMAIN" /\ pc'[s] = "inserting" /\ glb'[s] = NewGlb
      BY <2>1 DEF AddBegin, Goes, RefinementInv, IInv, TypeOK
    <3>2. NewGlb \in Glbs /\ cname[NewGlb] = NoName
      BY <2>1 DEF AddBegin, NewGlb, Unused
    <3>3. \A g \in Glbs : cname'[g] = IF g = NewGlb THEN cmd[s].fqdn ELSE cname[g]
      BY <2>1 DEF AddBegin, RefinementInv, IInv, TypeOK
    <3>4. cmd[s].fqdn # NoName
      BY <3>1, CommandFields, IdentitiesAssumption DEF RefinementInv
    <3>5. {glb'[t] : t \in {u \in Sessions : pc'[u] = "inserting"}}
            = {glb[t] : t \in {u \in Sessions : pc[u] = "inserting"}} \cup {NewGlb}
      BY <1>1, <3>1 DEF OthersStay
    <3> QED
      BY <3>2, <3>3, <3>4, <3>5 DEF RegistryUsed
  <2>2. CASE ~AddBegin(s)
    <3>1. pc'[s] # "inserting" /\ cname' = cname
      BY <1>3, <2>2 DEF EraseBegin, ShareLock, VisitReads, VisitClears, Goes,
         RefinementInv, IInv, TypeOK, sharedVars, glbVars
    <3> QED
      BY <1>1, <1>3, <3>1, UsedStays
  <2> QED
    BY <2>1, <2>2
<1>5. /\ RegistryPhase'[s] = RegistryPhase[s] /\ RegistryTarget'[s] = RegistryTarget[s]
      /\ RegistrySeen'[s] = RegistrySeen[s] /\ RegistryMissed'[s] = RegistryMissed[s]
  BY <1>3 DEF RegistryPhase, RegistryTarget, RegistrySeen, RegistryMissed
<1> QED
  BY <1>1, <1>2, <1>4, <1>5, Unseen

LEMMA AddDoneMaps ==
  ASSUME RefinementInv, NEW s \in Sessions, AddDone(s)
  PROVE  Registry!Register(s)
<1> USE RegisteredAlike
<1>1. OthersStay(s)
  BY OneSessionMoves DEF SessionStep
<1>2. /\ Answers(s, "inserting", "PASSED") /\ pc[s] = "inserting" /\ pc'[s] = "idle"
      /\ glbMap' = [glbMap EXCEPT ![cmd[s].fqdn] = glb[s]]
      /\ UNCHANGED <<cname, ips, glb>>
  BY <1>1, AnswersMap DEF AddDone, Answers, glbVars
<1>3. /\ cmd[s].op = "ADD_DOMAIN" /\ cmd[s].algo \in GlbTypes /\ counts[s] = <<>>
      /\ cmd[s].fqdn \notin Registered
  BY <1>2 DEF RefinementInv, IInv, StagesInv, FreshInv, ProgressInv
<1>4. /\ Registry!Goes(s, "called", "idle")
      /\ Registry!Answers(s, "ADD_DOMAIN", "PASSED", {})
  BY <1>1, <1>2, <1>3, AnswersMap, NothingCounted
<1>5. glb[s] \in Glbs /\ cname[glb[s]] # NoName
  BY <1>2, CommandFields, IdentitiesAssumption DEF RefinementInv
<1>6. \A t \in Sessions : pc[t] = "inserting" <=> t = s
  BY <1>2, WriterIsAlone DEF RefinementInv
<1>7. \A t \in Sessions : pc'[t] # "inserting"
  BY <1>1, <1>2, <1>6 DEF OthersStay
<1>8. glb[s] \in Glbs \ RegistryUsed /\ RegistryUsed' = RegistryUsed \cup {glb[s]}
  <2>1. RegistryUsed = {g \in Glbs : cname[g] # NoName} \ {glb[s]}
    BY <1>6 DEF RegistryUsed
  <2>2. RegistryUsed' = {g \in Glbs : cname[g] # NoName}
    BY <1>2, <1>7 DEF RegistryUsed
  <2> QED
    BY <1>5, <2>1, <2>2
<1> QED
  BY <1>2, <1>3, <1>4, <1>8 DEF Registry!Register

LEMMA EraseDoneMaps ==
  ASSUME RefinementInv, NEW s \in Sessions, EraseDone(s)
  PROVE  Registry!Unregister(s) \/ Registry!Clear(s)
<1> USE RegisteredAlike
<1>1. OthersStay(s)
  BY OneSessionMoves DEF SessionStep
<1>2. /\ Answers(s, "erasing", "PASSED") /\ pc[s] = "erasing" /\ pc'[s] = "idle"
      /\ glbMap' = [n \in Names |-> IF cmd[s].op = "CLR_DOMAINS" \/ n = cmd[s].fqdn
                                     THEN NoGlb ELSE glbMap[n]]
      /\ UNCHANGED <<cname, ips>>
  BY <1>1, AnswersMap DEF EraseDone, glbVars
<1>3. /\ cmd[s].op \in {"DEL_DOMAIN", "CLR_DOMAINS"} /\ counts[s] = <<>>
      /\ cmd[s].op = "DEL_DOMAIN" => cmd[s].fqdn \in Registered
  BY <1>2 DEF RefinementInv, IInv, StagesInv, ProgressInv
<1>4. /\ Registry!Goes(s, "called", "idle")
      /\ Registry!Answers(s, cmd[s].op, "PASSED", {})
  BY <1>1, <1>2, <1>3, AnswersMap, NothingCounted
<1>5. RegistryUsed' = RegistryUsed
  BY <1>1, <1>2, UsedStays
<1>6. CASE cmd[s].op = "DEL_DOMAIN"
  <2>1. glbMap' = [glbMap EXCEPT ![cmd[s].fqdn] = NoGlb]
    BY <1>2, <1>6 DEF RefinementInv, IInv, TypeOK
  <2> QED
    BY <1>2, <1>3, <1>4, <1>5, <1>6, <2>1 DEF Registry!Unregister, Registry!Passes
<1>7. CASE cmd[s].op = "CLR_DOMAINS"
  <2>1. glbMap' = [n \in Names |-> NoGlb]
    BY <1>2, <1>7
  <2> QED
    BY <1>2, <1>4, <1>5, <1>7, <2>1 DEF Registry!Clear
<1> QED
  BY <1>3, <1>6, <1>7

LEMMA SnapFindMaps ==
  ASSUME RefinementInv, NEW s \in Sessions, SnapFind(s)
  PROVE  Registry!Resolve(s)
<1> USE RegisteredAlike
<1>1. OthersStay(s)
  BY OneSessionMoves DEF SessionStep
<1>2. /\ pc[s] = "SNAPSHOT" /\ pc'[s] = "applying" /\ cmd[s].fqdn \in Registered
      /\ glb'[s] = glbMap[cmd[s].fqdn]
      /\ UNCHANGED <<glbMap, ips, cname, cmd, reply>>
  BY DEF SnapFind, Goes, RefinementInv, IInv, TypeOK, sharedVars, mapVars, glbVars
<1>3. cmd[s].op = "SNAPSHOT"
  BY <1>2 DEF RefinementInv, IInv, StagesInv, Ops
<1>4. RegistryUsed' = RegistryUsed
  BY <1>1, <1>2, UsedStays
<1>5. /\ RegistryPhase[s] = "called" /\ RegistryPhase'[s] = "found"
      /\ RegistryTarget'[s] = glbMap[cmd[s].fqdn]
  BY <1>2 DEF RegistryPhase, RegistryTarget
<1>6. RegistrySeen' = RegistrySeen
  <2>1. RegistrySeen[s] = {} /\ RegistrySeen'[s] = {}
    BY <1>2 DEF RegistrySeen, LooksByName
  <2>2. RegistrySeen = [t \in Sessions |-> RegistrySeen[t]]
    BY DEF RegistrySeen
  <2>3. RegistrySeen' = [RegistrySeen EXCEPT ![s] = RegistrySeen'[s]]
    BY <1>1, MappedMoves
  <2> QED
    BY <2>1, <2>2, <2>3
<1>7. RegistryMissed' = RegistryMissed
  <2>1. RegistryMissed[s] = FALSE /\ RegistryMissed'[s] = FALSE
    BY <1>2 DEF RegistryMissed, LooksByName
  <2>2. RegistryMissed = [t \in Sessions |-> RegistryMissed[t]]
    BY DEF RegistryMissed
  <2>3. RegistryMissed' = [RegistryMissed EXCEPT ![s] = RegistryMissed'[s]]
    BY <1>1, MappedMoves
  <2> QED
    BY <2>1, <2>2, <2>3
<1>8. RegistryReply' = RegistryReply
  BY <1>2 DEF RegistryReply
<1> QED
  BY <1>1, <1>2, <1>3, <1>4, <1>5, <1>6, <1>7, <1>8, MappedMoves
     DEF Registry!Resolve, Registry!Goes

LEMMA SnapApplyMaps ==
  ASSUME RefinementInv, NEW s \in Sessions, SnapApply(s)
  PROVE  Registry!Publish(s)
<1>1. OthersStay(s)
  BY OneSessionMoves DEF SessionStep
<1>2. /\ Answers(s, "applying", Verdict(s)) /\ pc[s] = "applying" /\ pc'[s] = "idle"
      /\ ips' = [ips EXCEPT ![glb[s]] = @ \o Decoded(cmd[s].entries)]
      /\ UNCHANGED <<glbMap, cname>>
  BY <1>1, AnswersMap DEF SnapApply, mapVars
<1>3. /\ cmd[s].op = "SNAPSHOT" /\ counts[s] = <<>>
      /\ failed[s] = HasBadEntry(cmd[s].entries)
  BY <1>2 DEF RefinementInv, IInv, StagesInv, ProgressInv
<1>4. Verdict(s) = Registry!Passes(~HasBadEntry(cmd[s].entries))
  BY <1>3 DEF Verdict, Registry!Passes
<1>5. /\ Registry!Goes(s, "found", "idle")
      /\ Registry!Answers(s, "SNAPSHOT", Verdict(s), {})
  BY <1>1, <1>2, <1>3, AnswersMap, NothingCounted
<1>6. RegistryUsed' = RegistryUsed
  BY <1>1, <1>2, UsedStays
<1>7. RegistryTarget[s] = glb[s]
  BY <1>2 DEF RegistryTarget
<1> QED
  BY <1>2, <1>4, <1>5, <1>6, <1>7 DEF Registry!Publish

LEMMA CountsOneMaps ==
  ASSUME RefinementInv, NEW s \in Sessions, CountsOne(s)
  PROVE  Registry!Look(s)
<1> USE RegisteredAlike
<1> DEFINE n == Head(todo[s])
<1>1. OthersStay(s)
  BY OneSessionMoves DEF SessionStep
<1>2. /\ pc[s] = "COUNTS" /\ todo[s] # <<>>
      /\ UNCHANGED <<glbMap, ips, cname, pc, cmd, glb, reply>>
      /\ \/ n \in Registered /\ counts' = Counted(s, n) /\ failed' = failed
         \/ n \notin Registered /\ counts' = counts
            /\ failed' = [failed EXCEPT ![s] = TRUE]
  BY DEF CountsOne, sharedVars, mapVars, glbVars
<1>3. LooksByName(s) /\ LooksByName(s)' /\ LookingInv(s) /\ cmd[s].op = "COUNTS"
  BY <1>2 DEF RefinementInv, IInv, StagesInv, ProgressInv, LooksByName, Ops
<1>4. n \in Names /\ n \in ToSet(todo[s])
  BY <1>2, HeadAndTail DEF RefinementInv, IInv, ShapeInv
<1>5. PICK i \in DOMAIN cmd[s].fqdns : cmd[s].fqdns[i] = n
  BY <1>3, <1>4 DEF LookingInv, ToSet
<1>6. RegistryUsed' = RegistryUsed
  BY <1>1, <1>2, UsedStays
<1>7. /\ RegistryPhase[s] = "called" /\ RegistryPhase' = RegistryPhase
      /\ RegistryTarget' = RegistryTarget /\ RegistryReply' = RegistryReply
  BY <1>2 DEF RegistryPhase, RegistryTarget, RegistryReply
<1>8. /\ RegistrySeen[s] = CountedNames(counts[s])
      /\ RegistrySeen'[s] = CountedNames(counts'[s])
      /\ RegistrySeen = [t \in Sessions |-> RegistrySeen[t]]
  BY <1>3 DEF RegistrySeen
<1>9. /\ RegistryMissed[s] = failed[s] /\ RegistryMissed'[s] = failed'[s]
      /\ RegistryMissed = [t \in Sessions |-> RegistryMissed[t]]
  <2>1. failed[s] \in BOOLEAN /\ failed'[s] \in BOOLEAN
    BY <1>2 DEF RefinementInv, IInv, TypeOK
  <2>2. RegistryMissed[s] = (LooksByName(s) /\ failed[s])
    BY DEF RegistryMissed
  <2>3. RegistryMissed'[s] = (LooksByName(s)' /\ failed'[s])
    BY DEF RegistryMissed
  <2>4. RegistryMissed = [t \in Sessions |-> RegistryMissed[t]]
    BY DEF RegistryMissed
  <2> QED
    BY <1>3, <2>1, <2>2, <2>3, <2>4
<1>10. CASE n \in Registered /\ counts' = Counted(s, n) /\ failed' = failed
  <2>1. nLookups[glbMap[n]] \in Nat /\ counts[s] \in Seq(Names \X Nat)
    BY <1>10 DEF RefinementInv, IInv, TypeOK, SequencesInv, Registered
  <2>2. CountedNames(counts'[s]) = CountedNames(counts[s]) \cup {n}
    BY <1>4, <1>10, <2>1, CountedOneMore DEF Counted, RefinementInv, SequencesInv
  <2>3. RegistrySeen' = [RegistrySeen EXCEPT ![s] = @ \cup {n}]
    BY <1>1, <1>8, <2>2, MappedMoves
  <2>4. RegistryMissed' = RegistryMissed
    BY <1>1, <1>9, <1>10, MappedMoves
  <2> QED
    BY <1>2, <1>3, <1>5, <1>6, <1>7, <1>10, <2>3, <2>4 DEF Registry!Look
<1>11. CASE n \notin Registered /\ counts' = counts
            /\ failed' = [failed EXCEPT ![s] = TRUE]
  <2>1. failed'[s] = TRUE
    BY <1>11 DEF RefinementInv, IInv, TypeOK
  <2>2. RegistrySeen' = RegistrySeen
    BY <1>1, <1>8, <1>11, MappedMoves
  <2>3. RegistryMissed' = [RegistryMissed EXCEPT ![s] = TRUE]
    BY <1>1, <1>9, <2>1, MappedMoves
  <2> QED
    BY <1>2, <1>3, <1>5, <1>6, <1>7, <1>11, <2>2, <2>3 DEF Registry!Look
<1> QED
  BY <1>2, <1>10, <1>11

LEMMA CountsDoneMaps ==
  ASSUME RefinementInv, NEW s \in Sessions, CountsDone(s)
  PROVE  Registry!ReportLooked(s)
<1>1. OthersStay(s)
  BY OneSessionMoves DEF SessionStep
<1>2. /\ Answers(s, "COUNTS", Verdict(s)) /\ pc[s] = "COUNTS" /\ pc'[s] = "idle"
      /\ cmd[s].op = "COUNTS" /\ cmd[s].fqdns # <<>> /\ todo[s] = <<>>
      /\ UNCHANGED <<glbMap, ips, cname>>
  BY <1>1, AnswersMap DEF CountsDone, sharedVars, mapVars, glbVars
<1>3. LooksByName(s) /\ LookingInv(s)
  BY <1>2 DEF LooksByName, RefinementInv, ProgressInv
<1>4. RegistrySeen[s] = CountedNames(counts[s]) /\ (RegistryMissed[s] <=> failed[s])
  BY <1>3 DEF RegistrySeen, RegistryMissed
<1>5. RegistryMissed[s]
      \/ \A i \in DOMAIN cmd[s].fqdns : cmd[s].fqdns[i] \in RegistrySeen[s]
  BY <1>2, <1>3, <1>4, NothingCounted DEF LookingInv, ToSet
<1>6. Verdict(s) = Registry!Passes(~RegistryMissed[s])
  BY <1>4 DEF Verdict, Registry!Passes
<1>7. /\ Registry!Goes(s, "called", "idle")
      /\ Registry!Answers(s, "COUNTS", Registry!Passes(~RegistryMissed[s]),
                          RegistrySeen[s])
  BY <1>1, <1>2, <1>4, <1>6, AnswersMap
<1>8. RegistryUsed' = RegistryUsed
  BY <1>1, <1>2, UsedStays
<1> QED
  BY <1>2, <1>5, <1>7, <1>8 DEF Registry!ReportLooked

LEMMA VisitDoneMaps ==
  ASSUME RefinementInv, NEW s \in Sessions, VisitDone(s)
  PROVE  Registry!ReportAll(s) \/ Registry!ResetCounts(s)
<1> USE RegisteredAlike
<1> DEFINE status == IF cmd[s].op = "DEBUG_DOMAINS" THEN "" ELSE Verdict(s)
<1>1. OthersStay(s)
  BY OneSessionMoves DEF SessionStep
<1>2. /\ Answers(s, "visiting", status) /\ pc[s] = "visiting" /\ pc'[s] = "idle"
      /\ todo[s] = <<>>
      /\ UNCHANGED <<glbMap, ips, cname>>
  BY <1>1, AnswersMap DEF VisitDone, glbVars
<1>3. /\ cmd[s].op \in {"COUNTS", "CLR_COUNTS", "DEBUG_DOMAINS"}
      /\ IF cmd[s].op = "CLR_COUNTS" THEN ClearingInv(s) ELSE ReportingInv(s)
  BY <1>2 DEF RefinementInv, ProgressInv
<1>4. ToSet(todo[s]) = {}
  BY <1>2, NothingCounted
<1>5. RegistryUsed' = RegistryUsed
  BY <1>1, <1>2, UsedStays
<1>6. /\ Registry!Goes(s, "called", "idle")
      /\ Registry!Answers(s, cmd[s].op, status, CountedNames(counts[s]))
  BY <1>1, <1>2, AnswersMap
<1>7. CASE cmd[s].op = "COUNTS"
  <2>1. ~failed[s] /\ cmd[s].fqdns = <<>> /\ CountedNames(counts[s]) = Registered
    BY <1>3, <1>4, <1>7 DEF ReportingInv
  <2>2. status = "PASSED"
    BY <1>7, <2>1 DEF Verdict
  <2> QED
    BY <1>2, <1>5, <1>6, <1>7, <2>1, <2>2 DEF Registry!ReportAll
<1>8. CASE cmd[s].op = "DEBUG_DOMAINS"
  <2>1. CountedNames(counts[s]) = IF cmd[s].nLoops > 0 THEN Registered ELSE {}
    BY <1>3, <1>4, <1>8 DEF ReportingInv
  <2>2. status = ""
    BY <1>8
  <2>3. Registry!Answers(s, "DEBUG_DOMAINS", "",
                         IF cmd[s].nLoops > 0 THEN Registered ELSE {})
    BY <1>6, <1>8, <2>1, <2>2
  <2> QED
    BY <1>2, <1>5, <1>6, <1>8, <2>3 DEF Registry!ReportAll
<1>9. CASE cmd[s].op = "CLR_COUNTS"
  <2>1. /\ counts[s] = <<>>
        /\ ~failed[s] <=> \A n \in ToSet(cmd[s].fqdns) : n \in Registered
    BY <1>3, <1>4, <1>9 DEF ClearingInv
  <2>2. ~failed[s] <=> \A i \in DOMAIN cmd[s].fqdns : cmd[s].fqdns[i] \in Registered
    BY <2>1 DEF ToSet
  <2>3. status = Registry!Passes(\A i \in DOMAIN cmd[s].fqdns :
                                   cmd[s].fqdns[i] \in Registered)
    BY <1>9, <2>2 DEF Verdict, Registry!Passes
  <2>4. CountedNames(counts[s]) = {}
    BY <2>1, NothingCounted
  <2> QED
    BY <1>2, <1>5, <1>6, <1>9, <2>3, <2>4 DEF Registry!ResetCounts
<1> QED
  BY <1>3, <1>7, <1>8, <1>9

-----------------------------------------------------------------------------
LEMMA StepMaps == RefinementInv /\ [Next]_vars => [Registry!Next]_(Registry!vars)
<1> SUFFICES ASSUME RefinementInv, [Next]_vars
             PROVE  Registry!Next \/ UNCHANGED Registry!vars
  OBVIOUS
<1>1. ASSUME NEW s \in Sessions, Receive(s)
      PROVE  Registry!Next
  BY <1>1, ReceiveMaps DEF Registry!Next
<1>2. ASSUME NEW s \in Sessions, SessionStep(s)
      PROVE  Registry!Next \/ UNCHANGED Registry!vars
  <2>1. CASE \/ AddUnknownAlgo(s) \/ AddExists(s) \/ DelMissing(s) \/ SnapMissing(s)
             \/ SetSOA(s) \/ SetNS(s) \/ UnknownCommand(s)
    BY <2>1, PlainAnswersMap DEF Registry!Next
  <2>2. CASE \/ AddBegin(s) \/ EraseBegin(s) \/ ShareLock(s)
             \/ VisitReads(s) \/ VisitClears(s)
    BY <2>2, HiddenStepsMap
  <2>3. CASE AddDone(s)
    BY <2>3, AddDoneMaps DEF Registry!Next
  <2>4. CASE EraseDone(s)
    BY <2>4, EraseDoneMaps DEF Registry!Next
  <2>5. CASE SnapFind(s)
    BY <2>5, SnapFindMaps DEF Registry!Next
  <2>6. CASE SnapApply(s)
    BY <2>6, SnapApplyMaps DEF Registry!Next
  <2>7. CASE CountsOne(s)
    BY <2>7, CountsOneMaps DEF Registry!Next
  <2>8. CASE CountsDone(s)
    BY <2>8, CountsDoneMaps DEF Registry!Next
  <2>9. CASE VisitDone(s)
    BY <2>9, VisitDoneMaps DEF Registry!Next
  <2> QED
    BY <1>2, <2>1, <2>2, <2>3, <2>4, <2>5, <2>6, <2>7, <2>8, <2>9 DEF SessionStep
<1>3. ASSUME UNCHANGED <<glbMap, cname, ips, sessionVars>>
      PROVE  UNCHANGED Registry!vars
  <2> USE <1>3 DEF sessionVars
  <2>1. RegistryUsed' = RegistryUsed /\ RegistryPhase' = RegistryPhase
    BY DEF RegistryUsed, RegistryPhase
  <2>2. /\ RegistryTarget' = RegistryTarget /\ RegistrySeen' = RegistrySeen
        /\ RegistryMissed' = RegistryMissed /\ RegistryReply' = RegistryReply
    BY DEF RegistryTarget, RegistrySeen, RegistryMissed, RegistryReply, LooksByName
  <2> QED
    BY <2>1, <2>2 DEF Registry!vars
<1>4. ASSUME NEW b \in Backends, LookupStart(b) \/ BackendStep(b)
      PROVE  UNCHANGED <<glbMap, cname, ips>>
  BY <1>4 DEF LookupStart, BackendStep, LookupNS, LookupFind, LookupFindRaces, Finds,
     LookupCrashes, LookupCounts, LookupSelects, GetSOA, GetNS, GetIP, GetEnd, Returns,
     sharedVars, mapVars, glbVars
<1>5. CASE UNCHANGED vars
  BY <1>3, <1>5 DEF vars, sharedVars, mapVars, glbVars
<1> QED
  BY <1>1, <1>2, <1>3, <1>4, <1>5 DEF Next, SessionActs, BackendActs, Finished

LEMMA InitMaps == Init => Registry!Init
<1> SUFFICES ASSUME Init
             PROVE  Registry!Init
  OBVIOUS
<1>1. /\ glbMap = [n \in Names |-> NoGlb] /\ cname = [g \in Glbs |-> NoName]
      /\ ips = [g \in Glbs |-> <<>>]
      /\ pc = [s \in Sessions |-> "idle"] /\ cmd = [s \in Sessions |-> NoCommand]
      /\ reply = [s \in Sessions |-> NoReply]
  BY DEF Init, SharedInit, SessionInit
<1>2. RegistryUsed = {}
  BY <1>1 DEF RegistryUsed
<1>3. /\ RegistryPhase = [s \in Sessions |-> "idle"]
      /\ RegistryTarget = [s \in Sessions |-> NoGlb]
  BY <1>1 DEF RegistryPhase, RegistryTarget
<1>4. /\ RegistrySeen = [s \in Sessions |-> {}]
      /\ RegistryMissed = [s \in Sessions |-> FALSE]
  BY <1>1 DEF RegistrySeen, RegistryMissed, LooksByName
<1>5. RegistryReply = [s \in Sessions |-> Registry!NoReply]
  <2>1. NoReply.status = "" /\ NoReply.counts = <<>>
    BY DEF NoReply
  <2>2. CountedNames(NoReply.counts) = {}
    BY <2>1, NothingCounted
  <2> QED
    BY <1>1, <2>1, <2>2 DEF RegistryReply, Registry!NoReply
<1> QED
  BY <1>1, <1>2, <1>3, <1>4, <1>5 DEF Registry!Init

(* The command sessions keep the promise of GlbRegistry: every command     *)
(* takes effect at one instant, with the reply that instant calls for, for *)
(* any number of sessions, PowerDNS threads, names and commands.           *)
THEOREM SessionsImplementRegistry == Spec => ImplementsRegistry
<1>1. Spec => []RefinementInv
  BY RefinementInvInit, RefinementInvStep, PTL DEF Spec
<1> QED
  BY <1>1, InitMaps, StepMaps, PTL DEF Spec, ImplementsRegistry, Registry!Spec
==============================================================================
