------------------------------ MODULE GlbData ------------------------------
(***************************************************************************)
(* The values the backend and the command server exchange: record types,   *)
(* balancing algorithms, the selection of records that answers a question, *)
(* and the test whether a name lies under the served base domain.          *)
(*                                                                         *)
(* An IPRecord is a record with at least a field "type".  A domain name is *)
(* the sequence of its labels, so the name "" is <<"">>.                   *)
(***************************************************************************)
EXTENDS Integers, SequencesExt

(* IPRecordType: the two types are the two bits of a question's mask.      *)
IPv4 == 1
IPv6 == 2
IPRecordTypes == {IPv4, IPv6}

GlbTypes == {"NONE", "RANDOM", "GEOIP", "WEIGHTED"}

-----------------------------------------------------------------------------
(* type & ipType, for a type that is a single bit.                         *)
AnyWants(type, mask) == mask # 0
NoneWants(type, mask) == (mask \div type) % 2 = 1

(* type & (ipType != 0): the comparison yields 0 or 1, so whatever the     *)
(* question asks for it is bit 0 of the record's type that decides.        *)
RandomWants(type, mask) == mask # 0 /\ type % 2 = 1

(* The records of ips at the positions of I, in position order.            *)
InOrder(ips, I) ==
  {[k \in DOMAIN p |-> ips[p[k]]] :
     p \in {q \in SetToSeqs(I) : \A j, k \in DOMAIN q : j < k => q[j] < q[k]}}

(* The same records in any order random_shuffle can leave them in.         *)
Shuffled(ips, I) == {[k \in DOMAIN p |-> ips[p[k]]] : p \in SetToSeqs(I)}

getIPSNoneAlgo(ips, mask) ==
  InOrder(ips, {i \in DOMAIN ips : NoneWants(ips[i].type, mask)})

getIPSRandomAlgo(ips, mask) ==
  Shuffled(ips, {i \in DOMAIN ips : RandomWants(ips[i].type, mask)})

(* The deques getIPs can hand back: GEOIP and WEIGHTED have no case.       *)
Selections(glbType, ips, mask) ==
  CASE glbType = "NONE"   -> getIPSNoneAlgo(ips, mask)
    [] glbType = "RANDOM" -> getIPSRandomAlgo(ips, mask)
    [] OTHER              -> {<<>>}

-----------------------------------------------------------------------------
(* fqdn ends with "." followed by baseFqdn, or equals it.                  *)
matchesBaseFqdn(fqdn, baseFqdn) ==
  IsStrictSuffix(baseFqdn, fqdn) \/ fqdn = baseFqdn
=============================================================================
