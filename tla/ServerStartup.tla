--------------------------- MODULE ServerStartup ---------------------------
(***************************************************************************)
(* How the command server comes up.  In a PowerDNS process every thread    *)
(* builds a GLBBackend, whose constructor asks ServerSingleton for its one *)
(* instance; building that starts a detached listener thread.  In          *)
(* server_main the main thread starts the listener itself.  The listener   *)
(* binds its port with nothing around it to catch an exception, which      *)
(* therefore ends the process, and then accepts connections for ever.      *)
(* The clients connect as StartUpClient does.  PowerDNS, the other users   *)
(* of the port, and whether descriptors are to be had, are external.       *)
(***************************************************************************)
EXTENDS Sequences

CONSTANTS
  Threads,    \* the threads of PowerDNS that build backends
  Main,       \* the main thread of server_main
  NoThread,   \* nobody holds serverSingletonMutex
  Clients     \* the connections clients open

ASSUME ThreadsAssumption == Main \notin Threads /\ NoThread \notin Threads

VARIABLES
  up,         \* the process runs
  addressOk,  \* the configured address parses
  files,      \* the process can open another descriptor
  pc,         \* per starter: how far it is with its backend or its start
  holder,     \* who holds serverSingletonMutex
  instance,   \* the function's static instance has been constructed
  listener,   \* per starter: the listener thread it has started
  port,       \* who has the port
  conn,       \* per client: its connection
  backlog,    \* the connections waiting to be accepted, oldest first
  connected   \* per client: what StartUpClient::connect returned

vars == <<up, addressOk, files, pc, holder, instance, listener, port, conn,
          backlog, connected>>

Starters == Threads \cup {Main}

Init ==
  /\ up = TRUE /\ addressOk \in BOOLEAN /\ files \in BOOLEAN
  /\ \/ pc = [t \in Starters |-> IF t = Main THEN "off" ELSE "idle"]
     \/ pc = [t \in Starters |-> IF t = Main THEN "idle" ELSE "off"]
  /\ holder = NoThread /\ instance = FALSE
  /\ listener = [t \in Starters |-> "none"]
  /\ port \in {"free", "other"}
  /\ conn = [c \in Clients |-> "none"]
  /\ backlog = <<>>
  /\ connected = [c \in Clients |-> "unknown"]

Goes(t, from, to) == up /\ pc[t] = from /\ pc' = [pc EXCEPT ![t] = to]
Elsewhere == UNCHANGED <<up, addressOk, files, port, conn, backlog, connected>>

-----------------------------------------------------------------------------
(* GLBBackend::GLBBackend and ServerSingleton::getInstance.                *)

(* lock_guard on serverSingletonMutex can be had.                          *)
AnyTime == TRUE
MutexFree == holder = NoThread

EnterGetInstance(t) ==
  /\ t # Main
  /\ MutexFree
  /\ Goes(t, "idle", IF instance THEN "got" ELSE "constructing")
  /\ holder' = t
  /\ UNCHANGED <<instance, listener>> /\ Elsewhere

(* start: the listener thread begins, and is detached.                     *)
StartListener(t) ==
  /\ \/ t # Main /\ Goes(t, "constructing", "constructed")
     \/ t = Main /\ Goes(t, "idle", "ready")
  /\ listener' = [listener EXCEPT ![t] = "resolving"]
  /\ UNCHANGED <<holder, instance>> /\ Elsewhere

(* Mutant: the instance counts as constructed before it is.                *)
StartThrowsMarked(t) ==
  /\ t # Main
  /\ Goes(t, "constructing", "failed")
  /\ holder' = NoThread
  /\ instance' = TRUE
  /\ UNCHANGED listener /\ Elsewhere

(* The thread cannot be created: the exception leaves the constructor, the *)
(* instance stays unconstructed and PowerDNS gets no backend.              *)
StartThrows(t) ==
  /\ t # Main
  /\ Goes(t, "constructing", "failed")
  /\ holder' = NoThread
  /\ UNCHANGED <<instance, listener>> /\ Elsewhere

InstanceDone(t) ==
  /\ Goes(t, "constructed", "got")
  /\ instance' = TRUE
  /\ UNCHANGED <<holder, listener>> /\ Elsewhere

LeaveGetInstance(t) ==
  /\ Goes(t, "got", "ready")
  /\ holder' = NoThread
  /\ UNCHANGED <<instance, listener>> /\ Elsewhere

(* PowerDNS destroys a backend or tries again for one.                     *)
Rebuild(t) ==
  /\ t # Main
  /\ Goes(t, "ready", "idle") \/ Goes(t, "failed", "idle")
  /\ UNCHANGED <<holder, instance, listener>> /\ Elsewhere

-----------------------------------------------------------------------------
(* GLBCommandServer::listener, in the thread t has started.                *)

Dies ==
  /\ up' = FALSE
  /\ port' = IF port = "ours" THEN "free" ELSE port
  /\ conn' = [c \in Clients |->
               IF conn[c] \in {"queued", "served"} THEN "closed" ELSE conn[c]]
  /\ backlog' = <<>>
  /\ UNCHANGED <<addressOk, files, pc, holder, instance, listener, connected>>

ListenerGoes(t, from, to) ==
  /\ up /\ listener[t] = from
  /\ listener' = [listener EXCEPT ![t] = to]
  /\ UNCHANGED <<up, addressOk, files, pc, holder, instance, connected>>

(* The io_service opens descriptors, and the address is parsed.            *)
CanResolve == addressOk /\ files

Resolve(t) ==
  /\ CanResolve /\ ListenerGoes(t, "resolving", "binding")
  /\ UNCHANGED <<port, conn, backlog>>

ResolveThrows(t) == up /\ listener[t] = "resolving" /\ ~CanResolve /\ Dies

(* The acceptor opens its socket, and binds it.                            *)
CanBind == port = "free" /\ files

Bind(t) ==
  /\ CanBind /\ ListenerGoes(t, "binding", "accepting")
  /\ port' = "ours" /\ UNCHANGED <<conn, backlog>>

(* Mutant: a failed bind is caught and given up.                           *)
BindGivesUp(t) ==
  /\ ~CanBind /\ ListenerGoes(t, "binding", "none") /\ UNCHANGED <<port, conn, backlog>>

BindThrows(t) == up /\ listener[t] = "binding" /\ ~CanBind /\ Dies

(* The oldest waiting connection is accepted; the loop goes on.            *)
Takes(t, to, fate) ==
  /\ ListenerGoes(t, "accepting", to)
  /\ files /\ backlog # <<>>
  /\ conn' = [conn EXCEPT ![Head(backlog)] = fate]
  /\ backlog' = Tail(backlog)
  /\ UNCHANGED port

(* The connection is given a thread of its own.                            *)
Accept(t) == Takes(t, "accepting", "served")

(* Mutants of AcceptThrows: nothing catches, or the loop is left.          *)
AcceptEnds(t) == up /\ listener[t] = "accepting" /\ backlog # <<>> /\ Dies
AcceptLeavesLoop(t) == Takes(t, "none", "closed")

(* Once it is accepted remote_endpoint (the client is gone), or creating   *)
(* the session's thread, throws: caught, and the connection is closed with *)
(* its stream.                                                             *)
AcceptThrows(t) == Takes(t, "accepting", "closed")

(* No descriptor for the stream's io_service or for the connection: that   *)
(* throws too, but leaves the connection where it was, and the loop throws *)
(* again and again until there is one.                                     *)
AcceptFails(t) ==
  /\ up /\ listener[t] = "accepting"
  /\ ~files
  /\ UNCHANGED vars

-----------------------------------------------------------------------------
(* StartUpClient::connect, one attempt a call; a client may call it again. *)
(* And the other users of the port.                                        *)

ClientConnect(c) ==
  /\ conn[c] # "queued" /\ connected[c] # "writing"
  /\ conn' = [conn EXCEPT ![c] = IF port = "ours" THEN "queued" ELSE "refused"]
  /\ connected' = [connected EXCEPT ![c] =
                     IF port = "ours" THEN "writing" ELSE "false"]
  /\ backlog' = IF port = "ours" THEN Append(backlog, c) ELSE backlog
  /\ UNCHANGED <<up, addressOk, files, pc, holder, instance, listener, port>>

(* The message and EOT are written and nothing is read: connect returns    *)
(* true whatever has become of the connection.                             *)
ClientWrites(c) ==
  /\ connected[c] = "writing"
  /\ connected' = [connected EXCEPT ![c] = "true"]
  /\ UNCHANGED <<up, addressOk, files, pc, holder, instance, listener, port,
                 conn, backlog>>

(* server_main has nothing more to do: it sleeps, second after second.     *)
MainSleeps == up /\ pc[Main] = "ready" /\ UNCHANGED vars

OthersUsePort ==
  /\ port # "ours"
  /\ port' = IF port = "free" THEN "other" ELSE "free"
  /\ UNCHANGED <<up, addressOk, files, pc, holder, instance, listener, conn,
                 backlog, connected>>

(* Sessions and the rest of the process open descriptors and close them.   *)
FilesComeAndGo ==
  /\ files' = ~files
  /\ UNCHANGED <<up, addressOk, pc, holder, instance, listener, port, conn,
                 backlog, connected>>

-----------------------------------------------------------------------------
Starts(t) ==
  \/ EnterGetInstance(t) \/ StartListener(t) \/ StartThrows(t)
  \/ InstanceDone(t) \/ LeaveGetInstance(t)

Listens(t) ==
  \/ Resolve(t) \/ ResolveThrows(t) \/ Bind(t) \/ BindThrows(t)
  \/ Accept(t) \/ AcceptThrows(t) \/ AcceptFails(t)

Next ==
  \/ \E t \in Starters : Starts(t) \/ Rebuild(t) \/ Listens(t)
  \/ \E c \in Clients : ClientConnect(c) \/ ClientWrites(c)
  \/ MainSleeps \/ OthersUsePort \/ FilesComeAndGo

Spec ==
  /\ Init /\ [][Next]_vars
  /\ \A t \in Starters : WF_vars(Starts(t)) /\ WF_vars(Listens(t))

-----------------------------------------------------------------------------
(* Properties.                                                             *)

TypeOK ==
  /\ up \in BOOLEAN /\ addressOk \in BOOLEAN /\ files \in BOOLEAN /\ instance \in BOOLEAN
  /\ pc \in [Starters -> {"off", "idle", "constructing", "constructed",
                          "got", "ready", "failed"}]
  /\ holder \in Threads \cup {NoThread}
  /\ listener \in [Starters -> {"none", "resolving", "binding", "accepting"}]
  /\ port \in {"free", "other", "ours"}

(* The thread between entering getInstance and leaving it, by return or by *)
(* exception, is the holder of the mutex; of the others none has begun to  *)
(* construct.                                                              *)
HolderInv ==
  \A t \in Threads :
    pc[t] \in {"constructing", "constructed", "got"} <=> holder = t

(* The listener's own state of affairs: it was started by the thread that  *)
(* is constructing the instance, or by the one that has constructed it.    *)
ListenerInv ==
  /\ \A t \in Threads : pc[t] = "constructed" <=>
       (listener[t] # "none" /\ ~instance)
  /\ \A t \in Threads : pc[t] = "constructing" => ~instance
  /\ instance => \E t \in Threads : listener[t] # "none"
  /\ \A t \in Threads : pc[t] \in {"got", "ready"} => instance
  /\ \A t \in Threads : listener[t] # "none" => pc[t] # "off" /\ pc[Main] = "off"
  /\ listener[Main] # "none" <=> pc[Main] = "ready"
  /\ pc[Main] # "off" => \A t \in Threads : pc[t] = "off"
  /\ pc[Main] \in {"off", "idle", "ready"}

(* However many threads build backends at once, and however often, one     *)
(* listener is started: a second would find the port taken and end the     *)
(* process.                                                                *)
OneListener ==
  \A t, u \in Starters : listener[t] # "none" /\ listener[u] # "none" => t = u

IInv == TypeOK /\ HolderInv /\ ListenerInv /\ OneListener

(* A backend is not handed out before the listener thread exists.          *)
BackendsFollowTheListener ==
  \A t \in Starters : pc[t] = "ready" => \E u \in Starters : listener[u] # "none"

(* Once the port is bound no connection can end the process, nor the       *)
(* accept loop.                                                            *)
BoundForGood ==
  [][\A t \in Starters :
       listener[t] = "accepting" => up' = up /\ listener'[t] = "accepting"]_vars

(* A process with a backend comes to listen, or ends: it does not go on    *)
(* answering questions without a command port.                             *)
ListensOrEnds ==
  \A t \in Starters :
    pc[t] = "ready" ~> (~up \/ \E u \in Starters : listener[u] = "accepting")

(* Every connection that reached the port is served or closed, if from     *)
(* some time on there is a descriptor for it: while there is none it stays *)
(* where it is, and the accept loop throws without end.                    *)
ConnectionsAreTaken ==
  <>[]files => \A c \in Clients : conn[c] = "queued" ~> conn[c] \in {"served", "closed"}
=============================================================================
