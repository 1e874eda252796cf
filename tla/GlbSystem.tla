----------------------------- MODULE GlbSystem -----------------------------
(***************************************************************************)
(* One process: command sessions and PowerDNS threads interleaved over the *)
(* state they share.  A crash stops them all.                              *)
(***************************************************************************)
EXTENDS GLBCommandServer, GLBBackend

vars == <<sharedVars, sessionVars, backendVars>>

Init == SharedInit /\ SessionInit /\ BackendInit

SessionActs(s) == up /\ SessionStep(s) /\ UNCHANGED backendVars
BackendActs(b) == up /\ BackendStep(b) /\ UNCHANGED sessionVars

(* Every command has been answered and every question's records taken, as  *)
(* far as the bounded workload goes, or the process is gone.               *)
Finished ==
  /\ \/ ~up
     \/ /\ nCommands = MaxCommands /\ nQueries = MaxQueries
        /\ \A s \in Sessions : pc[s] = "idle"
        /\ \A b \in Backends : bpc[b] = "idle"
  /\ UNCHANGED vars

Next ==
  \/ \E s \in Sessions :
       (up /\ Receive(s) /\ UNCHANGED backendVars) \/ SessionActs(s)
  \/ \E b \in Backends :
       (up /\ LookupStart(b) /\ UNCHANGED sessionVars) \/ BackendActs(b)
  \/ Finished

(* Each thread runs as long as it can.                                     *)
Fairness ==
  /\ \A s \in Sessions : WF_vars(SessionActs(s))
  /\ \A b \in Backends : WF_vars(BackendActs(b))

Spec == Init /\ [][Next]_vars /\ Fairness

-----------------------------------------------------------------------------
SessionPCs == {"idle", "inserting", "erasing", "applying", "visiting"} \cup Ops

BackendPCs == {"idle", "NS", "find", "count", "select", "get"}

TypeOK ==
  /\ up \in BOOLEAN
  /\ glbMap \in [Names -> Glbs \cup {NoGlb}]
  /\ mapWriter \in Sessions \cup {NoThread}
  /\ mapReaders \subseteq Sessions
  /\ mapInFlux \in BOOLEAN
  /\ cname \in [Glbs -> Names \cup {NoName}]
  /\ glbType \in [Glbs -> GlbTypes]
  /\ nLookups \in [Glbs -> Nat]
  /\ pc \in [Sessions -> SessionPCs]
  /\ cmd \in [Sessions -> Commands \cup {NoCommand}]
  /\ glb \in [Sessions -> Glbs \cup {NoGlb}]
  /\ failed \in [Sessions -> BOOLEAN]
  /\ bpc \in [Backends -> BackendPCs]
  /\ question \in [Backends -> Questions \cup {NoQuestion}]
  /\ found \in [Backends -> Glbs \cup {NoGlb}]
  /\ sendSOA \in [Backends -> BOOLEAN]
  /\ sendNS \in [Backends -> BOOLEAN]

(* glbMapMutex: a writer is alone with the map, and it is exactly while    *)
(* one is inside that the hash table is in flux (GLBCommandServer.cc's     *)
(* lock_guards and shared_locks).                                          *)
MapLockInv ==
  /\ \A s \in Sessions : pc[s] \in {"inserting", "erasing"} <=> mapWriter = s
  /\ \A s \in Sessions : pc[s] = "visiting" <=> s \in mapReaders
  /\ mapWriter # NoThread => mapReaders = {}
  /\ mapInFlux <=> mapWriter # NoThread

(* The types and the map's lock.                                           *)
SystemInv == TypeOK /\ MapLockInv

(* A command that iterates over glbMap under the shared lock never meets   *)
(* an entry that has been erased since it took the lock: its iterator      *)
(* stays valid to the end (getCounts, clearCounts, debugDomains).          *)
IteratorsStayValid ==
  \A s \in Sessions :
    (pc[s] = "visiting" /\ (cmd[s].op = "CLR_COUNTS" => cmd[s].fqdns = <<>>))
      => ToSet(todo[s]) \subseteq Registered

(* A container is registered under the name it was built with and nowhere  *)
(* else, and a session about to write to one holds the container of the    *)
(* name it was given: records sent for a domain never reach another one,   *)
(* whatever was added, deleted and added again in between.                 *)
ContainersKeepTheirName ==
  /\ \A n \in Registered : cname[glbMap[n]] = n
  /\ \A s \in Sessions : pc[s] \in {"inserting", "applying"}
       => glb[s] # NoGlb /\ cname[glb[s]] = cmd[s].fqdn
  /\ \A b \in Backends : found[b] # NoGlb => cname[found[b]] = Lower(b)

(* Of two sessions adding a name at once, the second never replaces the    *)
(* container of the first; and what a name is given is a container of its  *)
(* own without records and lookups: nothing that was erased, or written to *)
(* by a SNAPSHOT that came too late, ever comes back.                      *)
NeverReplacedNorRevived ==
  [][\A n \in Names :
       LET new == glbMap'[n]
       IN new \notin {glbMap[n], NoGlb} =>
            /\ glbMap[n] = NoGlb
            /\ \A m \in Names : glbMap[m] # new
            /\ ips[new] = <<>> /\ nLookups[new] = 0]_vars

(* The promise to the sessions: the commands implement GlbRegistry.  A     *)
(* container is registered when its insertion ends; until then it is fresh. *)
CountedNames(seq) == {c[1] : c \in ToSet(seq)}

LooksByName(s) == pc[s] = "COUNTS" /\ cmd[s].fqdns # <<>>

RegistryUsed ==
  {g \in Glbs : cname[g] # NoName}
    \ {glb[s] : s \in {t \in Sessions : pc[t] = "inserting"}}
RegistryPhase ==
  [s \in Sessions |-> IF pc[s] = "idle" THEN "idle"
                      ELSE IF pc[s] = "applying" THEN "found" ELSE "called"]
RegistryTarget == [s \in Sessions |-> IF pc[s] = "applying" THEN glb[s] ELSE NoGlb]
RegistrySeen ==
  [s \in Sessions |-> IF LooksByName(s) THEN CountedNames(counts[s]) ELSE {}]
RegistryMissed == [s \in Sessions |-> LooksByName(s) /\ failed[s]]
RegistryReply ==
  [s \in Sessions |-> [status |-> reply[s].status,
                       names  |-> CountedNames(reply[s].counts)]]

Registry == INSTANCE GlbRegistry WITH
  used <- RegistryUsed, contents <- ips, phase <- RegistryPhase,
  target <- RegistryTarget, seen <- RegistrySeen, missed <- RegistryMissed,
  reply <- RegistryReply

(* Each command takes effect at one instant and its reply tells the truth  *)
(* about that instant: of two ADD_DOMAINs of a name one fails, COUNTS      *)
(* names exactly the domains there were (GLBCommandServer.cc).             *)
ImplementsRegistry == Registry!Spec

-----------------------------------------------------------------------------
(* The lists SET_NS has made the global one, and the one at start-up.      *)
NsLists == {<<>>} \cup {c.records : c \in {d \in Commands : d.op = "SET_NS"}}

NsGiven(b) == {i \in DOMAIN answer[b] : answer[b][i].type = "NS"}

(* The NS records given for one question come first in its answer, are an  *)
(* initial part of one list that SET_NS set, and none or all of it by the  *)
(* end, even when SET_NS runs while they are handed out (boosttests.cc     *)
(* test_nsRecords).                                                        *)
NsAnswersComeFromOneList ==
  \A b \in Backends : \E list \in NsLists :
    /\ \E k \in 0..Len(list) : NsGiven(b) = 1..k
    /\ \A i \in NsGiven(b) : answer[b][i].content = list[i]
    /\ bpc[b] = "idle" => NsGiven(b) \in {{}, DOMAIN list}

(* The pairs SET_SOA has made the global ones, and the one at start-up.    *)
SoaPairs == {[soa |-> "", base |-> <<"">>]} \cup
            {[soa |-> c.soa, base |-> c.base] :
               c \in {d \in Commands : d.op = "SET_SOA"}}

(* A question for a name under the base domain that lookup saw is answered *)
(* with the SOA record and the base domain of one and the same SET_SOA,    *)
(* and with one SOA record at most.                                        *)
SoaRecordFitsItsDomain ==
  \A b \in Backends : \A i \in DOMAIN answer[b] :
    LET rr == answer[b][i]
    IN rr.type = "SOA" =>
         /\ \A j \in DOMAIN answer[b] : answer[b][j].type = "SOA" => j = i
         /\ matchesBaseFqdn(Lower(b), rr.qname)
              => [soa |-> rr.content, base |-> rr.qname] \in SoaPairs

(* The addresses the snapshots publish for a name, with the type of record  *)
(* each is published as.                                                   *)
PublishedFor(n) ==
  UNION {{<<IF e.ipt = 4 THEN "A" ELSE "AAAA", e.addr>> :
            e \in {d \in ToSet(c.entries) : Decodes(d)}} :
         c \in {d \in Commands : d.op = "SNAPSHOT" /\ d.fqdn = n}}

(* The types of address a container gives for the question: NONE gives the *)
(* type asked for, RANDOM only IPv4, which is what it gives to a question  *)
(* for IPv6 addresses too.                                                 *)
Serves(b, type) ==
  /\ found[b] # NoGlb
  /\ \/ glbType[found[b]] = "NONE" /\ question[b].type \in {type, "ANY"}
     \/ glbType[found[b]] = "RANDOM" /\ question[b].type \in {"A", "AAAA", "ANY"}
        /\ type = "A"

Offered(b) == {a \in PublishedFor(Lower(b)) : Serves(b, a[1])}

(* Addresses answered for a question were published for that question's    *)
(* name, as records of the type they are given as, and of a type that the  *)
(* container's algorithm selects for what was asked; none is left over     *)
(* from an earlier question of the thread (glbbackend.cc lookup and get).  *)
AddressesBelongToTheQuestion ==
  \A b \in Backends : \A rr \in ToSet(answer[b]) :
    rr.type \in {"A", "AAAA"}
      => rr.qname = question[b].name /\ <<rr.type, rr.content>> \in Offered(b)

-----------------------------------------------------------------------------
(* Every command is answered, unless the process crashes: no two sessions  *)
(* wait for each other's locks.                                            *)
CommandsAreAnswered ==
  \A s \in Sessions : pc[s] # "idle" ~> pc[s] = "idle" \/ ~up

(* get comes to an end for every question that PowerDNS does not abandon   *)
(* (glbbackend.cc:143, "So we don't get stuck in an endless loop").        *)
QuestionsEnd ==
  \A b \in Backends : bpc[b] # "idle" ~> bpc[b] = "idle" \/ ~up

-----------------------------------------------------------------------------
(* What the comment at glbbackend.cc:100 says of lookup, "Lock the glbMap  *)
(* and search for the domain": no search of the map while a writer is in   *)
(* its hash table.                                                         *)
LookupLocksTheMap ==
  [][\A b \in Backends : bpc[b] = "find" /\ bpc'[b] # "find" => ~mapInFlux]_vars
=============================================================================
