----------------------------- MODULE GLBBackend -----------------------------
(***************************************************************************)
(* The PowerDNS side: one GLBBackend object per thread.  PowerDNS calls    *)
(* lookup with a question and then get until it returns false, or gives up *)
(* on the rest and asks its next question.                                 *)
(***************************************************************************)
EXTENDS GlbShared

CONSTANTS
  Backends,    \* the PowerDNS threads
  Questions,   \* what may be asked: [name, type]
  MaxQueries,  \* bound: questions asked over a behaviour
  MaxAnswers   \* bound: records get returns for one question

ASSUME QuestionsAssumption == \A q \in Questions : q.name \in Names

VARIABLES
  bpc,         \* per backend: where it is in lookup, or that get is next
  question,    \* per backend: the question, d_ourname and the type
  found,       \* per backend: the container lookup found
  queue,       \* per backend: the member ips, records get has yet to return
  sendSOA, sendNS, soaRecord, baseDomain, nsRecords, nsIterator,
  answer,      \* per backend: what get has returned for the question
  nQueries     \* questions asked so far

soaMembers == <<sendSOA, sendNS, soaRecord, baseDomain, nsRecords, nsIterator>>
backendVars == <<bpc, question, found, queue, soaMembers, answer, nQueries>>

NoQuestion == [name |-> <<"">>, type |-> "NONE"]

BackendInit ==
  /\ bpc = [b \in Backends |-> "idle"]
  /\ question = [b \in Backends |-> NoQuestion]
  /\ found = [b \in Backends |-> NoGlb]
  /\ queue = [b \in Backends |-> <<>>]
  /\ sendSOA = [b \in Backends |-> FALSE]
  /\ sendNS = [b \in Backends |-> FALSE]
  /\ soaRecord = [b \in Backends |-> ""]
  /\ baseDomain = [b \in Backends |-> <<"">>]
  /\ nsRecords = [b \in Backends |-> <<>>]
  /\ nsIterator = [b \in Backends |-> 1]
  /\ answer = [b \in Backends |-> <<>>]
  /\ nQueries = 0

Moves(b, from, to) == bpc[b] = from /\ bpc' = [bpc EXCEPT ![b] = to]

Lower(b) == LowerCase[question[b].name]

-----------------------------------------------------------------------------
(* lookup.  The container's own calls are the only ones that lock.         *)

AsksForAuthority(q) == q.type \in {"SOA", "ANY", "NS"}

(* The member ips is emptied: what get has not returned is dropped.        *)
LeftOver(b) == queue[b]
Cleared(b) == <<>>

(* Up to the first look at the map, but for the NS records.  soaRecord is  *)
(* assigned only when the name matches; otherwise it keeps the value of an *)
(* earlier question.                                                       *)
LookupStart(b) ==
  /\ nQueries < MaxQueries
  /\ nQueries' = nQueries + 1
  /\ bpc[b] \in {"idle", "get"}
  /\ \E q \in Questions :
       LET fqdn == LowerCase[q.name]
           base == IF AsksForAuthority(q) THEN globalSOA.base ELSE <<"">>
           matches == AsksForAuthority(q) /\ matchesBaseFqdn(fqdn, base)
       IN /\ question' = [question EXCEPT ![b] = q]
          /\ baseDomain' = [baseDomain EXCEPT ![b] = base]
          /\ soaRecord' = IF matches
                          THEN [soaRecord EXCEPT ![b] = globalSOA.soa]
                          ELSE soaRecord
          /\ sendSOA' = [sendSOA EXCEPT ![b] = q.type = "SOA"]
          /\ bpc' = [bpc EXCEPT ![b] = IF matches /\ q.type # "SOA"
                                       THEN "NS" ELSE "find"]
  /\ queue' = [queue EXCEPT ![b] = Cleared(b)]
  /\ found' = [found EXCEPT ![b] = NoGlb]
  /\ sendNS' = [sendNS EXCEPT ![b] = FALSE]
  /\ answer' = [answer EXCEPT ![b] = <<>>]
  /\ UNCHANGED <<sharedVars, nsRecords, nsIterator>>

LookupNS(b) ==
  /\ Moves(b, "NS", "find")
  /\ nsRecords' = [nsRecords EXCEPT ![b] = globalNsRecords]
  /\ nsIterator' = [nsIterator EXCEPT ![b] = 1]
  /\ sendNS' = [sendNS EXCEPT ![b] = TRUE]
  /\ UNCHANGED <<sharedVars, question, found, queue, sendSOA, soaRecord,
                 baseDomain, answer, nQueries>>

(* The bits of the record types a question asks for; 0 for a type that     *)
(* lookup leaves without records.                                          *)
Mask(type) ==
  CASE type = "A" -> IPv4 [] type = "AAAA" -> IPv6 [] type = "ANY" -> IPv4 + IPv6
    [] OTHER -> 0

Finds(b, g) ==
  /\ found' = [found EXCEPT ![b] = g]
  /\ Moves(b, "find", IF g # NoGlb /\ Mask(question[b].type) # 0
                      THEN "count" ELSE "get")
  /\ UNCHANGED <<sharedVars, question, queue, soaMembers, answer, nQueries>>

(* boost::shared_lock<boost::shared_mutex > (glbMapMutex) declares a local *)
(* variable named glbMapMutex, a lock of no mutex: find takes no lock.     *)
(* Nothing else of the backend lies between the search and the use of its  *)
(* iterator.  When the entry is erased in between, it may still read as    *)
(* the old container, as a step before the erasure does, or crash, as      *)
(* LookupCrashes does during it; that its memory is another entry's by     *)
(* then is left out.                                                       *)
LookupFind(b) ==
  /\ bpc[b] = "find"
  /\ ~mapInFlux
  /\ Finds(b, glbMap[Lower(b)])

(* A find that meets a writer inside the hash table: it may see the entry  *)
(* as it was before the change, or miss it, or follow a dangling pointer;  *)
(* one that sees the entry after the change is LookupFind after AddDone.   *)
LookupFindRaces(b) ==
  /\ bpc[b] = "find"
  /\ mapInFlux
  /\ \E g \in {glbMap[Lower(b)], NoGlb} : Finds(b, g)

LookupCrashes(b) ==
  /\ mapInFlux
  /\ bpc[b] = "find"
  /\ up' = FALSE
  /\ UNCHANGED <<mapVars, glbVars, soaVars, backendVars>>

(* getIPs, first half: incNLookups.                                        *)
LookupCounts(b) ==
  /\ Moves(b, "count", "select")
  /\ nLookups' = [nLookups EXCEPT ![found[b]] = @ + 1]
  /\ UNCHANGED <<up, mapVars, cname, glbType, ips, soaVars,
                 question, found, queue, soaMembers, answer, nQueries>>

(* getIPs, second half: the selection is pushed onto the member ips.       *)
LookupSelects(b) ==
  /\ Moves(b, "select", "get")
  /\ \E out \in Selections(glbType[found[b]], ips[found[b]],
                           Mask(question[b].type)) :
       queue' = [queue EXCEPT ![b] = @ \o out]
  /\ UNCHANGED <<sharedVars, question, found, soaMembers, answer, nQueries>>

-----------------------------------------------------------------------------
(* get: the SOA record, then the NS records, then the addresses.           *)

ResourceRecord(type, content, qname) ==
  [type |-> type, content |-> content, qname |-> qname]

Returns(b, rr) ==
  /\ bpc[b] = "get"
  /\ Len(answer[b]) < MaxAnswers
  /\ answer' = [answer EXCEPT ![b] = Append(@, rr)]
  /\ UNCHANGED <<sharedVars, bpc, question, found, soaRecord, baseDomain,
                 nsRecords, nQueries>>

NsPending(b) == sendNS[b] /\ nsIterator[b] <= Len(nsRecords[b])

GetSOAForgets(b) ==
  /\ sendSOA[b]
  /\ Returns(b, ResourceRecord("SOA", soaRecord[b], baseDomain[b]))
  /\ UNCHANGED <<queue, sendSOA, sendNS, nsIterator>>

GetSOARereads(b) ==
  /\ sendSOA[b]
  /\ Returns(b, ResourceRecord("SOA", globalSOA.soa, baseDomain[b]))
  /\ sendSOA' = [sendSOA EXCEPT ![b] = FALSE]
  /\ UNCHANGED <<queue, sendNS, nsIterator>>

GetSOA(b) ==
  /\ sendSOA[b]
  /\ Returns(b, ResourceRecord("SOA", soaRecord[b], baseDomain[b]))
  /\ sendSOA' = [sendSOA EXCEPT ![b] = FALSE]
  /\ UNCHANGED <<queue, sendNS, nsIterator>>

(* What the iterator ranges over: the list lookup took hold of, whichever  *)
(* list is the global one by now.                                          *)
LatestNsRecords(b) == globalNsRecords
NsList(b) == nsRecords[b]

GetNS(b) ==
  /\ ~sendSOA[b]
  /\ NsPending(b)
  /\ Returns(b, ResourceRecord("NS", NsList(b)[nsIterator[b]],
                               <<"ns1">> \o baseDomain[b]))
  /\ nsIterator' = [nsIterator EXCEPT ![b] = @ + 1]
  /\ UNCHANGED <<queue, sendSOA, sendNS>>

GetIP(b) ==
  /\ ~sendSOA[b] /\ ~NsPending(b)
  /\ queue[b] # <<>>
  /\ LET ipr == Head(queue[b])
     IN Returns(b, ResourceRecord(IF ipr.type = IPv4 THEN "A" ELSE "AAAA",
                                  ipr.addr, question[b].name))
  /\ queue' = [queue EXCEPT ![b] = Tail(@)]
  /\ sendNS' = [sendNS EXCEPT ![b] = FALSE]
  /\ UNCHANGED <<sendSOA, nsIterator>>

GetEnd(b) ==
  /\ ~sendSOA[b] /\ ~NsPending(b)
  /\ queue[b] = <<>>
  /\ Moves(b, "get", "idle")
  /\ sendNS' = [sendNS EXCEPT ![b] = FALSE]
  /\ UNCHANGED <<sharedVars, question, found, queue, sendSOA, soaRecord,
                 baseDomain, nsRecords, nsIterator, answer, nQueries>>

-----------------------------------------------------------------------------
(* What a backend does by itself once it has a question.                   *)
BackendStep(b) ==
  \/ LookupNS(b) \/ LookupFind(b) \/ LookupFindRaces(b) \/ LookupCrashes(b)
  \/ LookupCounts(b) \/ LookupSelects(b)
  \/ GetSOA(b) \/ GetNS(b) \/ GetIP(b) \/ GetEnd(b)
=============================================================================
