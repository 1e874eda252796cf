---------------------------- MODULE MCGlbSystem ----------------------------
(***************************************************************************)
(* Instances of GlbSystem for TLC.  Two domains under one base domain, one *)
(* of them also asked for in upper case, and one name outside the base.    *)
(***************************************************************************)
EXTENDS GlbSystem

Base  == <<"glb", "org">>
Other == <<"net">>
A     == <<"a", "glb", "org">>
UpA   == <<"A", "glb", "org">>
B     == <<"b", "net">>

MCNames == {A, UpA, B}
MCLowerCase == [n \in MCNames |-> IF n = UpA THEN A ELSE n]

Entry(ipt, addr) == [nItems |-> 4, ipt |-> ipt, ttl |-> 30, addr |-> addr]
BadEntry == [nItems |-> 4, ipt |-> 44, ttl |-> 30, addr |-> "bad"]

Add(n, algo)  == [op |-> "ADD_DOMAIN", fqdn |-> n, algo |-> algo]
Del(n)        == [op |-> "DEL_DOMAIN", fqdn |-> n]
Snap(n, es)   == [op |-> "SNAPSHOT", fqdn |-> n, entries |-> es]
GetCounts(ns) == [op |-> "COUNTS", fqdns |-> ns]
ClrCounts(ns) == [op |-> "CLR_COUNTS", fqdns |-> ns]
SetSoa(r, d)  == [op |-> "SET_SOA", soa |-> r, base |-> d]
SetNs(rs)     == [op |-> "SET_NS", records |-> rs]
ClrDomains    == [op |-> "CLR_DOMAINS"]
Debug(n)      == [op |-> "DEBUG_DOMAINS", nLoops |-> n]
Unknown       == [op |-> "UNKNOWN COMMAND"]

(* Two sessions at the map.                                                *)
MapCommands ==
  {Add(A, "NONE"), Add(A, "SILLY"), Add(B, "RANDOM"), Del(A), ClrDomains,
   Snap(A, <<Entry(4, "a4"), BadEntry>>),
   GetCounts(<<>>), GetCounts(<<A, B>>), ClrCounts(<<>>), ClrCounts(<<B, A>>),
   Debug(2), Unknown}

MapQuestions == {[name |-> UpA, type |-> "A"]}

(* One session feeding what a PowerDNS thread serves.                      *)
ServeCommands ==
  {Add(A, "NONE"), Add(A, "RANDOM"), Snap(A, <<Entry(4, "a4"), Entry(6, "a6")>>),
   SetSoa("soa1", Base), SetSoa("soa2", Other),
   SetNs(<<"n1", "n2">>), SetNs(<<"n3", "n4">>)}

ServeQuestions ==
  {[name |-> UpA, type |-> "ANY"], [name |-> A, type |-> "AAAA"],
   [name |-> B, type |-> "A"], [name |-> A, type |-> "SOA"],
   [name |-> B, type |-> "SOA"], [name |-> B, type |-> "MX"]}
=============================================================================
