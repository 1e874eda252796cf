--------------------------- MODULE GLBCollection ---------------------------
(***************************************************************************)
(* GLBCollection: a map of containers of its own, guarded by the global    *)
(* glbMapMutex.  Each call searches first and then acts on what it found,  *)
(* get by a second search with operator[], which inserts a null pointer    *)
(* for a name that is missing.  size() is not the member the header        *)
(* declares but a free function over the global map, and takes no lock.    *)
(***************************************************************************)
EXTENDS FiniteSets

CONSTANTS
  Threads,    \* the callers
  Names,      \* the names containers are kept under
  Glbs,       \* the containers callers hand to add
  NoGlb,      \* no entry
  Null        \* the entry operator[] makes up

ASSUME GlbsAssumption == NoGlb \notin Glbs /\ Null \notin Glbs /\ Null # NoGlb

VARIABLES
  glbMap,     \* the collection's own map
  global,     \* the names in the global map, guarded by the same mutex
  writer,     \* the holders of glbMapMutex, exclusive
  readers,    \*   and shared
  pc, call,   \* per thread: where it is, and the call it makes
  found,      \* per thread: what its search has found
  result      \* per thread: what its last call gave it

vars == <<glbMap, global, writer, readers, pc, call, found, result>>

Calls == [op : {"add"}, name : Names, glb : Glbs]
           \cup [op : {"remove", "get", "size", "other"}, name : Names]

Init ==
  /\ glbMap = [n \in Names |-> NoGlb] /\ global = {}
  /\ writer = {} /\ readers = {}
  /\ pc = [t \in Threads |-> "idle"]
  /\ call = [t \in Threads |-> CHOOSE c \in Calls : c.op = "size"]
  /\ found = [t \in Threads |-> NoGlb] /\ result = [t \in Threads |-> <<>>]

Goes(t, from, to) == pc[t] = from /\ pc' = [pc EXCEPT ![t] = to]
Ends(t, from, r) ==
  /\ Goes(t, from, "idle") /\ result' = [result EXCEPT ![t] = r]
  /\ writer' = writer \ {t} /\ readers' = readers \ {t}
  /\ found' = [found EXCEPT ![t] = NoGlb]
  /\ UNCHANGED call

(* lock_guard and shared_lock on glbMapMutex can be had.                   *)
AnyTime == TRUE
CanWrite == writer = {} /\ readers = {}
CanRead == writer = {}

Begin(t) ==
  /\ Goes(t, "idle", "called")
  /\ call' \in {[call EXCEPT ![t] = c] : c \in Calls}
  /\ result' = [result EXCEPT ![t] = <<>>]
  /\ UNCHANGED <<glbMap, global, writer, readers, found>>

(* glbMap.find(cname), once the lock of the call is held.                  *)
Find(t) ==
  /\ Goes(t, "called", "found")
  /\ \/ /\ call[t].op \in {"add", "remove"}
        /\ CanWrite /\ writer' = writer \cup {t} /\ UNCHANGED readers
     \/ /\ call[t].op = "get"
        /\ CanRead /\ readers' = readers \cup {t} /\ UNCHANGED writer
  /\ found' = [found EXCEPT ![t] = glbMap[call[t].name]]
  /\ UNCHANGED <<glbMap, global, call, result>>

Add(t) ==
  /\ call[t].op = "add"
  /\ IF found[t] # NoGlb
     THEN Ends(t, "found", <<"GLBExistsException">>) /\ UNCHANGED glbMap
     ELSE /\ Ends(t, "found", <<"done">>)
          /\ glbMap' = [glbMap EXCEPT ![call[t].name] = call[t].glb]
  /\ UNCHANGED global

Remove(t) ==
  /\ call[t].op = "remove"
  /\ IF found[t] = NoGlb
     THEN Ends(t, "found", <<"GLBNotFoundException">>) /\ UNCHANGED glbMap
     ELSE /\ Ends(t, "found", <<"done">>)
          /\ glbMap' = [glbMap EXCEPT ![call[t].name] = NoGlb]
  /\ UNCHANGED global

Get(t) ==
  /\ call[t].op = "get"
  /\ IF found[t] = NoGlb
     THEN Ends(t, "found", <<"GLBNotFoundException">>) /\ UNCHANGED glbMap
     ELSE LET n == call[t].name
              e == IF glbMap[n] = NoGlb THEN Null ELSE glbMap[n]
          IN Ends(t, "found", <<"glb", e>>) /\ glbMap' = [glbMap EXCEPT ![n] = e]
  /\ UNCHANGED global

(* size(): the size of the other map, whoever is changing it.              *)
Size(t) ==
  /\ call[t].op = "size"
  /\ Ends(t, "called", <<"size", Cardinality(global)>>)
  /\ UNCHANGED <<glbMap, global>>

(* The command server changes the global map, under the same mutex.        *)
OtherMap(t) ==
  /\ call[t].op = "other" /\ CanWrite
  /\ Ends(t, "called", <<"done">>)
  /\ global' \in {global \cup {call[t].name}, global \ {call[t].name}}
  /\ UNCHANGED glbMap

Step(t) == Find(t) \/ Add(t) \/ Remove(t) \/ Get(t) \/ Size(t) \/ OtherMap(t)

Next == \E t \in Threads : Begin(t) \/ Step(t)

Spec == Init /\ [][Next]_vars

-----------------------------------------------------------------------------
(* Properties.                                                             *)

TypeOK ==
  /\ glbMap \in [Names -> Glbs \cup {NoGlb}]
  /\ global \subseteq Names
  /\ pc \in [Threads -> {"idle", "called", "found"}]
  /\ call \in [Threads -> Calls]
  /\ writer \subseteq Threads /\ readers \subseteq Threads
  /\ found \in [Threads -> Glbs \cup {NoGlb}]

LockInv ==
  /\ \A t, u \in writer : t = u
  /\ writer # {} => readers = {}
  /\ \A t \in Threads :
       /\ pc[t] = "found" => call[t].op \in {"add", "remove", "get"}
       /\ t \in writer <=> (pc[t] = "found" /\ call[t].op \in {"add", "remove"})
       /\ t \in readers <=> (pc[t] = "found" /\ call[t].op = "get")

(* What a call has found stays true until it has acted on it: this is what *)
(* keeps add from replacing a container and get from handing out, and      *)
(* leaving behind, a null pointer.                                         *)
FoundStaysTrue ==
  \A t \in Threads : pc[t] = "found" => found[t] = glbMap[call[t].name]

IInv == TypeOK /\ LockInv /\ FoundStaysTrue

(* A name is only given a container when it has none, and only loses the   *)
(* one it has: two adds of one name never both succeed.                    *)
NeverReplaced ==
  [][\A n \in Names : glbMap'[n] # glbMap[n] => NoGlb \in {glbMap[n], glbMap'[n]}]_vars

(* get never gives its caller a pointer to nothing.                        *)
NoNullHandedOut == \A t \in Threads : result[t] # <<"glb", Null>>
=============================================================================
