----------------------------- MODULE GlbShared -----------------------------
(***************************************************************************)
(* What the PowerDNS threads and the command sessions of one process       *)
(* share: the map from names to containers with its reader-writer lock,    *)
(* the containers, and the SOA and NS data.  A container's calls are       *)
(* atomic here, which is what GlbContainer shows of them.                  *)
(***************************************************************************)
EXTENDS GlbData

CONSTANTS
  Names,      \* domain names, as sequences of labels
  LowerCase,  \* each name in lower case
  Glbs,       \* the containers a behaviour may allocate
  NoGlb,      \* what find returns for an unregistered name
  Sessions,   \* the threads serving command connections
  NoThread    \* the holder of a free lock

ASSUME LowerCaseAssumption ==
  /\ LowerCase \in [Names -> Names]
  /\ \A n \in Names : LowerCase[LowerCase[n]] = LowerCase[n]

NoName == <<>>     \* the cname of a container not yet allocated

ASSUME IdentitiesAssumption ==
  NoGlb \notin Glbs /\ NoThread \notin Sessions /\ NoName \notin Names

VARIABLES
  up,               \* FALSE once undefined behaviour has crashed the process
  glbMap,           \* per name: its container, or NoGlb
  mapWriter,        \* who holds glbMapMutex exclusively
  mapReaders,       \* who holds it shared, from one step to another
  mapInFlux,        \* the hash table is being modified
  cname, glbType,   \* per container: what its constructor was given
  ips, nLookups,    \* per container: its records and its lookup count
  globalSOA,        \* the SOAContainer: a record and the base domain
  globalNsRecords   \* the list of name servers

mapVars == <<glbMap, mapWriter, mapReaders, mapInFlux>>
glbVars == <<cname, glbType, ips, nLookups>>
soaVars == <<globalSOA, globalNsRecords>>
sharedVars == <<up, mapVars, glbVars, soaVars>>

SharedInit ==
  /\ up = TRUE
  /\ glbMap = [n \in Names |-> NoGlb]
  /\ mapWriter = NoThread
  /\ mapReaders = {}
  /\ mapInFlux = FALSE
  /\ cname = [g \in Glbs |-> NoName]
  /\ glbType = [g \in Glbs |-> "NONE"]
  /\ ips = [g \in Glbs |-> <<>>]
  /\ nLookups = [g \in Glbs |-> 0]
  /\ globalSOA = [soa |-> "", base |-> <<"">>]
  /\ globalNsRecords = <<>>

Registered == {n \in Names : glbMap[n] # NoGlb}

NoMapLock == TRUE

(* shared_lock on glbMapMutex can be had.                                  *)
CanRead == mapWriter = NoThread

(* lock_guard on glbMapMutex that ignores the readers.                     *)
CanWriteBesideReaders == mapWriter = NoThread

(* lock_guard on glbMapMutex can be had.                                   *)
CanWrite == mapWriter = NoThread /\ mapReaders = {}

(* A container whose memory is free for a new one if erasing an entry did  *)
(* free it.                                                                *)
FreedGlb == CHOOSE g \in Glbs : \A n \in Names : glbMap[n] # g

(* new GlbContainer: shared_ptr keeps a container while anyone holds it,   *)
(* and a container once used is never used again.                          *)
Unused == {g \in Glbs : cname[g] = NoName}
NewGlb == CHOOSE g \in Unused : TRUE
=============================================================================
