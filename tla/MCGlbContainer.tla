--------------------------- MODULE MCGlbContainer ---------------------------
(***************************************************************************)
(* An instance of GlbContainer for TLC: a batch of two records of both     *)
(* types, a batch of one, and questions for each type and for both.        *)
(***************************************************************************)
EXTENDS GlbContainer

R4 == [type |-> IPv4, addr |-> "a"]
R6 == [type |-> IPv6, addr |-> "b"]
S4 == [type |-> IPv4, addr |-> "c"]

MCRecords == {R4, R6, S4}

Request(op, batch, mask) == [op |-> op, batch |-> batch, mask |-> mask]

MCRequests ==
  {Request("setIPs", b, 0) : b \in {<<R4, R6>>, <<S4>>}} \cup
  {Request("getIPs", <<>>, m) : m \in 1..3} \cup
  {Request(op, <<>>, 0) : op \in {"clrNLookups", "getNLookups", "to_string"}}
=============================================================================
