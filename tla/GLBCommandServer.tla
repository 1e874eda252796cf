-------------------------- MODULE GLBCommandServer --------------------------
(***************************************************************************)
(* The command sessions.  Each connection has a thread that runs the       *)
(* commands of a batch one after the other; an action here is what one     *)
(* command does between two points at which other threads can interfere.   *)
(* Commands have passed cmdMatch, so their arguments are present.          *)
(***************************************************************************)
EXTENDS GlbShared

CONSTANTS
  Commands,     \* the commands sessions may be sent
  MaxCommands   \* bound: commands received over a behaviour

Ops == {"ADD_DOMAIN", "DEL_DOMAIN", "CLR_DOMAINS", "SNAPSHOT", "COUNTS", "CLR_COUNTS",
        "DEBUG_DOMAINS", "SET_SOA", "SET_NS", "UNKNOWN COMMAND"}

ASSUME CommandsAssumption ==
  \A c \in Commands :
    /\ c.op \in Ops
    /\ c.op \in {"ADD_DOMAIN", "DEL_DOMAIN", "SNAPSHOT"} => c.fqdn \in Names
    /\ c.op \in {"COUNTS", "CLR_COUNTS"} => c.fqdns \in Seq(Names)
    /\ c.op = "DEBUG_DOMAINS" => c.nLoops \in Nat

(* What the arguments of SNAPSHOT and SET_NS are made of.                  *)
Entries == [nItems : Nat, ipt : Int, ttl : Int, addr : STRING]

ASSUME ArgumentsAssumption ==
  \A c \in Commands :
    /\ c.op = "SNAPSHOT" => c.entries \in Seq(Entries)
    /\ c.op = "SET_NS" => c.records \in Seq(STRING)

VARIABLES
  pc,        \* per session: where it is
  cmd,       \* per session: the command it runs, or ran last
  glb,       \* per session: the container it has allocated or looked up
  todo,      \* per session: the names it still has to visit
  failed,    \* per session: an argument was bad
  counts,    \* per session: the names visited, with their counts
  reply,     \* per session: what it answered last
  nCommands  \* commands received so far

sessionVars == <<pc, cmd, glb, todo, failed, counts, reply, nCommands>>

NoCommand == [op |-> "NONE"]
NoReply == [status |-> "", counts |-> <<>>]

SessionInit ==
  /\ pc = [s \in Sessions |-> "idle"]
  /\ cmd = [s \in Sessions |-> NoCommand]
  /\ glb = [s \in Sessions |-> NoGlb]
  /\ todo = [s \in Sessions |-> <<>>]
  /\ failed = [s \in Sessions |-> FALSE]
  /\ counts = [s \in Sessions |-> <<>>]
  /\ reply = [s \in Sessions |-> NoReply]
  /\ nCommands = 0

Goes(s, from, to) == pc[s] = from /\ pc' = [pc EXCEPT ![s] = to]

(* The command is over; its reply joins the lines written after OVER.      *)
Answers(s, from, status) ==
  /\ Goes(s, from, "idle")
  /\ reply' = [reply EXCEPT ![s] = [status |-> status, counts |-> counts[s]]]
  /\ UNCHANGED <<cmd, glb, todo, failed, counts, nCommands>>

Verdict(s) == IF failed[s] THEN "FAILED" ELSE "PASSED"

Receive(s) ==
  /\ nCommands < MaxCommands
  /\ nCommands' = nCommands + 1
  /\ \E c \in Commands :
       /\ Goes(s, "idle", c.op)
       /\ cmd' = [cmd EXCEPT ![s] = c]
       /\ todo' = [todo EXCEPT ![s] = IF c.op = "COUNTS" THEN c.fqdns ELSE <<>>]
  /\ glb' = [glb EXCEPT ![s] = NoGlb]
  /\ failed' = [failed EXCEPT ![s] = FALSE]
  /\ counts' = [counts EXCEPT ![s] = <<>>]
  /\ reply' = [reply EXCEPT ![s] = NoReply]
  /\ UNCHANGED sharedVars

-----------------------------------------------------------------------------
(* addDomain.  The hash table is in flux from the insertion's first write  *)
(* to its last, under the exclusive lock throughout.                       *)

AddUnknownAlgo(s) ==
  /\ pc[s] = "ADD_DOMAIN"
  /\ cmd[s].algo \notin GlbTypes
  /\ Answers(s, "ADD_DOMAIN", "FAILED")
  /\ UNCHANGED sharedVars

AddExists(s) ==
  /\ pc[s] = "ADD_DOMAIN"
  /\ cmd[s].algo \in GlbTypes
  /\ CanWrite
  /\ cmd[s].fqdn \in Registered
  /\ Answers(s, "ADD_DOMAIN", "FAILED")
  /\ UNCHANGED sharedVars

AddBegin(s) ==
  /\ Goes(s, "ADD_DOMAIN", "inserting")
  /\ cmd[s].algo \in GlbTypes
  /\ CanWrite
  /\ cmd[s].fqdn \notin Registered
  /\ Unused # {}   \* bound: at most as many domains are added as there are Glbs
  /\ mapWriter' = s
  /\ mapInFlux' = TRUE
  /\ LET new == NewGlb
     IN /\ glb' = [glb EXCEPT ![s] = new]
        /\ cname' = [cname EXCEPT ![new] = cmd[s].fqdn]
        /\ glbType' = [glbType EXCEPT ![new] = cmd[s].algo]
  /\ UNCHANGED <<up, glbMap, mapReaders, ips, nLookups, soaVars,
                 cmd, todo, failed, counts, reply, nCommands>>

AddDone(s) ==
  /\ Answers(s, "inserting", "PASSED")
  /\ glbMap' = [glbMap EXCEPT ![cmd[s].fqdn] = glb[s]]
  /\ mapWriter' = NoThread
  /\ mapInFlux' = FALSE
  /\ UNCHANGED <<up, mapReaders, glbVars, soaVars>>

-----------------------------------------------------------------------------
(* delDomain and clearDomains.                                             *)

DelMissing(s) ==
  /\ CanWrite
  /\ pc[s] = "DEL_DOMAIN"
  /\ cmd[s].fqdn \notin Registered
  /\ Answers(s, "DEL_DOMAIN", "FAILED")
  /\ UNCHANGED sharedVars

EraseBegin(s) ==
  /\ \/ Goes(s, "DEL_DOMAIN", "erasing") /\ cmd[s].fqdn \in Registered
     \/ Goes(s, "CLR_DOMAINS", "erasing")
  /\ CanWrite
  /\ mapWriter' = s
  /\ mapInFlux' = TRUE
  /\ UNCHANGED <<up, glbMap, mapReaders, glbVars, soaVars,
                 cmd, glb, todo, failed, counts, reply, nCommands>>

EraseDone(s) ==
  /\ Answers(s, "erasing", "PASSED")
  /\ glbMap' = [n \in Names |->
                  IF cmd[s].op = "CLR_DOMAINS" \/ n = cmd[s].fqdn
                  THEN NoGlb ELSE glbMap[n]]
  /\ mapWriter' = NoThread
  /\ mapInFlux' = FALSE
  /\ UNCHANGED <<up, mapReaders, glbVars, soaVars>>

-----------------------------------------------------------------------------
(* snapshotDomain.  Bad entries fail the command, but the good ones go in; *)
(* the container is found under the map's lock and written to after it is  *)
(* released, by when it may no longer be registered.                       *)

(* decodeIP: the four fields are present, the ttl is positive, and the     *)
(* type is 4 or 6.                                                         *)
Decodes(e) == e.nItems >= 4 /\ e.ttl > 0 /\ e.ipt \in {4, 6}

HasBadEntry(entries) == \E e \in ToSet(entries) : ~Decodes(e)

IPRecord(e) ==
  [type |-> IF e.ipt = 4 THEN IPv4 ELSE IPv6, addr |-> e.addr, ttl |-> e.ttl]

(* The records of the entries that decode, in the order of the entries.    *)
Decoded(entries) ==
  LET good   == {i \in DOMAIN entries : Decodes(entries[i])}
      nth(k) == CHOOSE i \in good : Cardinality({j \in good : j <= i}) = k
  IN [k \in 1..Cardinality(good) |-> IPRecord(entries[nth(k)])]

SnapMissing(s) ==
  /\ CanRead
  /\ pc[s] = "SNAPSHOT"
  /\ cmd[s].fqdn \notin Registered
  /\ Answers(s, "SNAPSHOT", "FAILED")
  /\ UNCHANGED sharedVars

SnapFind(s) ==
  /\ CanRead
  /\ Goes(s, "SNAPSHOT", "applying")
  /\ cmd[s].fqdn \in Registered
  /\ glb' = [glb EXCEPT ![s] = glbMap[cmd[s].fqdn]]
  /\ failed' = [failed EXCEPT ![s] = HasBadEntry(cmd[s].entries)]
  /\ UNCHANGED <<sharedVars, cmd, todo, counts, reply, nCommands>>

SnapApply(s) ==
  /\ Answers(s, "applying", Verdict(s))
  /\ ips' = [ips EXCEPT ![glb[s]] = @ \o Decoded(cmd[s].entries)]
  /\ UNCHANGED <<up, mapVars, cname, glbType, nLookups, soaVars>>

-----------------------------------------------------------------------------
(* getCounts with names: the lock is taken anew for each.                  *)

Counted(s, n) == [counts EXCEPT ![s] = Append(@, <<n, nLookups[glbMap[n]]>>)]

CountsOne(s) ==
  /\ pc[s] = "COUNTS"
  /\ todo[s] # <<>>
  /\ CanRead
  /\ LET n == Head(todo[s])
     IN IF n \in Registered
        THEN counts' = Counted(s, n) /\ UNCHANGED failed
        ELSE failed' = [failed EXCEPT ![s] = TRUE] /\ UNCHANGED counts
  /\ todo' = [todo EXCEPT ![s] = Tail(@)]
  /\ UNCHANGED <<sharedVars, pc, cmd, glb, reply, nCommands>>

CountsDone(s) ==
  /\ cmd[s].op = "COUNTS" /\ cmd[s].fqdns # <<>>
  /\ todo[s] = <<>>
  /\ Answers(s, "COUNTS", Verdict(s))
  /\ UNCHANGED sharedVars

-----------------------------------------------------------------------------
(* getCounts of all domains, clearCounts and debugDomains hold the map's   *)
(* lock shared while they go from container to container.                  *)

Repeated(seq, n) == [i \in 1..(n * Len(seq)) |-> seq[((i - 1) % Len(seq)) + 1]]

(* The names a command visits: those it was given or, in the order of the  *)
(* hash table, all that are registered; debugDomains may go round again.   *)
Itineraries(c) ==
  CASE c.op = "CLR_COUNTS" /\ c.fqdns # <<>> -> {c.fqdns}
    [] c.op = "DEBUG_DOMAINS" ->
         {Repeated(order, c.nLoops) : order \in SetToSeqs(Registered)}
    [] OTHER -> SetToSeqs(Registered)

ShareLock(s) ==
  /\ \/ pc[s] = "COUNTS" /\ cmd[s].fqdns = <<>>
     \/ pc[s] \in {"CLR_COUNTS", "DEBUG_DOMAINS"}
  /\ CanRead
  /\ mapReaders' = mapReaders \cup {s}
  /\ pc' = [pc EXCEPT ![s] = "visiting"]
  /\ \E names \in Itineraries(cmd[s]) : todo' = [todo EXCEPT ![s] = names]
  /\ UNCHANGED <<up, glbMap, mapWriter, mapInFlux, glbVars, soaVars,
                 cmd, glb, failed, counts, reply, nCommands>>

VisitReads(s) ==
  /\ pc[s] = "visiting"
  /\ cmd[s].op \in {"COUNTS", "DEBUG_DOMAINS"}
  /\ todo[s] # <<>>
  /\ counts' = Counted(s, Head(todo[s]))
  /\ todo' = [todo EXCEPT ![s] = Tail(@)]
  /\ UNCHANGED <<sharedVars, pc, cmd, glb, failed, reply, nCommands>>

VisitClears(s) ==
  /\ pc[s] = "visiting"
  /\ cmd[s].op = "CLR_COUNTS"
  /\ todo[s] # <<>>
  /\ LET n == Head(todo[s])
     IN IF n \in Registered
        THEN nLookups' = [nLookups EXCEPT ![glbMap[n]] = 0] /\ UNCHANGED failed
        ELSE failed' = [failed EXCEPT ![s] = TRUE] /\ UNCHANGED nLookups
  /\ todo' = [todo EXCEPT ![s] = Tail(@)]
  /\ UNCHANGED <<up, mapVars, cname, glbType, ips, soaVars,
                 pc, cmd, glb, counts, reply, nCommands>>

VisitDoneLeaks(s) ==
  /\ todo[s] = <<>>
  /\ Answers(s, "visiting",
             IF cmd[s].op = "DEBUG_DOMAINS" THEN "" ELSE Verdict(s))
  /\ UNCHANGED sharedVars

VisitDone(s) ==
  /\ todo[s] = <<>>
  /\ Answers(s, "visiting",
             IF cmd[s].op = "DEBUG_DOMAINS" THEN "" ELSE Verdict(s))
  /\ mapReaders' = mapReaders \ {s}
  /\ UNCHANGED <<up, glbMap, mapWriter, mapInFlux, glbVars, soaVars>>

-----------------------------------------------------------------------------
(* setSOA and setNS replace a shared pointer under soaMutex.               *)

SetSOA(s) ==
  /\ Answers(s, "SET_SOA", "PASSED")
  /\ globalSOA' = [soa |-> cmd[s].soa, base |-> cmd[s].base]
  /\ UNCHANGED <<up, mapVars, glbVars, globalNsRecords>>

SetNS(s) ==
  /\ Answers(s, "SET_NS", "PASSED")
  /\ globalNsRecords' = cmd[s].records
  /\ UNCHANGED <<up, mapVars, glbVars, globalSOA>>

UnknownCommand(s) ==
  /\ Answers(s, "UNKNOWN COMMAND", "")
  /\ UNCHANGED sharedVars

-----------------------------------------------------------------------------
(* What a session does by itself once it has a command.                    *)
SessionStep(s) ==
  \/ AddUnknownAlgo(s) \/ AddExists(s) \/ AddBegin(s) \/ AddDone(s)
  \/ DelMissing(s) \/ EraseBegin(s) \/ EraseDone(s)
  \/ SnapMissing(s) \/ SnapFind(s) \/ SnapApply(s)
  \/ CountsOne(s) \/ CountsDone(s)
  \/ ShareLock(s) \/ VisitReads(s) \/ VisitClears(s) \/ VisitDone(s)
  \/ SetSOA(s) \/ SetNS(s) \/ UnknownCommand(s)
=============================================================================
