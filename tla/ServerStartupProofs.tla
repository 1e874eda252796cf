------------------------ MODULE ServerStartupProofs ------------------------
(***************************************************************************)
(* For any number of PowerDNS threads, backends built and destroyed, and   *)
(* clients: one listener at most is started, and none of the backends is   *)
(* ready before it.                                                        *)
(***************************************************************************)
EXTENDS ServerStartup, TLAPS

LEMMA InitEstablishes == Init => IInv
<1> SUFFICES ASSUME Init
             PROVE  IInv
  OBVIOUS
<1> USE ThreadsAssumption DEF Init, Starters
<1>1. pc \in [Starters -> {"idle", "off"}]
  OBVIOUS
<1>2. TypeOK
  BY <1>1 DEF TypeOK
<1>3. HolderInv
  BY <1>1 DEF HolderInv
<1>4. ListenerInv
  BY <1>1 DEF ListenerInv
<1>5. OneListener
  BY DEF OneListener
<1> QED
  BY <1>2, <1>3, <1>4, <1>5 DEF IInv

LEMMA StepPreserves == IInv /\ [Next]_vars => IInv'
<1> SUFFICES ASSUME IInv, [Next]_vars
             PROVE  IInv'
  OBVIOUS
<1> USE ThreadsAssumption
    DEF IInv, TypeOK, HolderInv, ListenerInv, OneListener, Starters,
        Goes, Elsewhere, ListenerGoes, Dies
<1>1. ASSUME NEW t \in Starters, EnterGetInstance(t)
      PROVE  IInv'
  <2>1. holder = NoThread /\ t \in Threads
    BY <1>1 DEF EnterGetInstance, MutexFree
  <2>2. \A u \in Threads : pc[u] \notin {"constructing", "constructed", "got"}
    BY <2>1
  <2> QED
    BY <1>1, <2>1, <2>2 DEF EnterGetInstance
<1>2. ASSUME NEW t \in Starters, StartListener(t)
      PROVE  IInv'
  <2>1. CASE t \in Threads
    <3>1. pc[t] = "constructing" /\ holder = t /\ ~instance /\ pc[Main] = "off"
      BY <1>2, <2>1 DEF StartListener
    <3>2. \A u \in Starters : listener[u] = "none"
      BY <3>1
    <3> QED
      BY <1>2, <2>1, <3>1, <3>2 DEF StartListener
  <2>2. CASE t = Main
    <3>1. \A u \in Threads : pc[u] = "off" /\ listener[u] = "none"
      BY <1>2, <2>2 DEF StartListener
    <3> QED
      BY <1>2, <2>2, <3>1 DEF StartListener
  <2> QED
    BY <2>1, <2>2
<1>3. ASSUME NEW t \in Starters, StartThrows(t)
      PROVE  IInv'
  BY <1>3 DEF StartThrows
<1>4. ASSUME NEW t \in Starters, InstanceDone(t)
      PROVE  IInv'
  <2>1. t \in Threads /\ holder = t /\ listener[t] # "none"
    BY <1>4 DEF InstanceDone
  <2> QED
    BY <1>4, <2>1 DEF InstanceDone
<1>5. ASSUME NEW t \in Starters, LeaveGetInstance(t)
      PROVE  IInv'
  BY <1>5 DEF LeaveGetInstance
<1>6. ASSUME NEW t \in Starters, Rebuild(t)
      PROVE  IInv'
  BY <1>6 DEF Rebuild
<1>7. ASSUME NEW t \in Starters, Listens(t)
      PROVE  IInv'
  <2>2. CASE Resolve(t)
    BY <2>2 DEF Resolve
  <2>3. CASE ResolveThrows(t) \/ BindThrows(t)
    <3>1. UNCHANGED <<addressOk, files, pc, holder, instance, listener>>
      BY <2>3 DEF ResolveThrows, BindThrows
    <3>2. up' = FALSE /\ port' \in {"free", "other", "ours"}
      BY <2>3 DEF ResolveThrows, BindThrows
    <3> HIDE DEF Dies, Goes, Elsewhere, ListenerGoes
    <3> QED
      BY <3>1, <3>2
  <2>4. CASE Bind(t)
    BY <2>4 DEF Bind
  <2>5. CASE Accept(t) \/ AcceptThrows(t)
    BY <2>5 DEF Accept, AcceptThrows, Takes
  <2>6. CASE AcceptFails(t)
    BY <2>6 DEF AcceptFails, vars
  <2> QED
    BY <1>7, <2>2, <2>3, <2>4, <2>5, <2>6 DEF Listens
<1>8. CASE \E c \in Clients : ClientConnect(c) \/ ClientWrites(c)
  BY <1>8 DEF ClientConnect, ClientWrites
<1>9. CASE OthersUsePort
  BY <1>9 DEF OthersUsePort
<1>10. CASE FilesComeAndGo
  <2>1. files' \in BOOLEAN
    BY <1>10 DEF FilesComeAndGo
  <2>2. UNCHANGED <<up, addressOk, pc, holder, instance, listener, port>>
    BY <1>10 DEF FilesComeAndGo
  <2> QED
    BY <2>1, <2>2
<1>11. CASE UNCHANGED vars
  BY <1>11 DEF vars
<1> QED
  BY <1>1, <1>2, <1>3, <1>4, <1>5, <1>6, <1>7, <1>8, <1>9, <1>10, <1>11
     DEF Next, Starts, MainSleeps

(* What the mutex and the static instance keep, together.                  *)
THEOREM StartupInvariance == Spec => []IInv
<1>1. Init => IInv
  BY InitEstablishes
<1>2. IInv /\ [Next]_vars => IInv'
  BY StepPreserves
<1> QED
  BY <1>1, <1>2, PTL DEF Spec

(* However many threads ask for the singleton, one listener is started.    *)
THEOREM SingleListener == Spec => []OneListener
<1>1. IInv => OneListener
  BY DEF IInv
<1> QED
  BY <1>1, StartupInvariance, PTL

(* PowerDNS gets no backend before the listener thread exists.             *)
THEOREM ListenerComesFirst == Spec => []BackendsFollowTheListener
<1>1. IInv => BackendsFollowTheListener
  BY DEF IInv, TypeOK, ListenerInv, BackendsFollowTheListener, Starters
<1> QED
  BY <1>1, StartupInvariance, PTL

(* No step of anybody ends the process, or the accept loop, once the port  *)
(* is bound.  A second listener could: this rests on there being one.      *)
THEOREM AcceptLoopStays == Spec => BoundForGood
<1>1. IInv /\ [Next]_vars =>
        [\A t \in Starters :
           listener[t] = "accepting" => up' = up /\ listener'[t] = "accepting"]_vars
  <2> SUFFICES ASSUME IInv, Next, NEW t \in Starters, listener[t] = "accepting"
               PROVE  up' = up /\ listener'[t] = "accepting"
    BY DEF vars
  <2> USE DEF IInv, TypeOK, OneListener, ListenerInv, HolderInv, Starters
  <2>1. \A u \in Starters : u # t => listener[u] = "none"
    OBVIOUS
  <2>2. ASSUME NEW u \in Starters, Starts(u) \/ Rebuild(u)
        PROVE  up' = up /\ listener'[t] = "accepting"
    <3>1. CASE StartListener(u)
      <4>1. u # t
        BY <3>1, ThreadsAssumption DEF StartListener, Goes
      <4> QED
        BY <3>1, <4>1 DEF StartListener, Goes, Elsewhere
    <3> QED
      BY <2>2, <3>1 DEF Starts, EnterGetInstance, StartThrows, InstanceDone,
         LeaveGetInstance, Rebuild, Goes, Elsewhere
  <2>3. ASSUME NEW u \in Starters, Listens(u)
        PROVE  up' = up /\ listener'[t] = "accepting"
    BY <2>1, <2>3 DEF Listens, Resolve, ResolveThrows, Bind, BindThrows,
       Accept, AcceptThrows, AcceptFails, Takes, ListenerGoes, vars
  <2> QED
    BY <2>2, <2>3 DEF Next, ClientConnect, ClientWrites, OthersUsePort,
       FilesComeAndGo, MainSleeps, vars
<1> QED
  BY <1>1, StartupInvariance, PTL DEF Spec, BoundForGood
=============================================================================
