---------------------------- MODULE GlbRegistry ----------------------------
(***************************************************************************)
(* What the command sessions are promised: a registry of domains on which  *)
(* every command takes effect, and decides its reply, at one instant       *)
(* between its receipt and its answer.  Two commands take several:         *)
(* SNAPSHOT finds the container and fills it later, whatever has become of *)
(* the name by then, and COUNTS with names looks at each name by itself.   *)
(***************************************************************************)
EXTENDS Integers, Sequences

CONSTANTS
  Names, Glbs, NoGlb, Sessions, GlbTypes,
  Commands, NoCommand,   \* the commands, and the one a session starts from
  Decoded(_),            \* the records among the entries of a snapshot
  HasBadEntry(_)         \* some entry of a snapshot is none

VARIABLES
  glbMap,    \* per name: its container, or NoGlb
  used,      \* the containers that are or were registered
  contents,  \* per container: the records published in it
  phase,     \* per session: how far its command has got
  cmd,       \* per session: its latest command
  target,    \* per session: the container its SNAPSHOT found
  seen,      \* per session: the names its COUNTS found
  missed,    \* per session: its COUNTS did not find a name
  reply      \* per session: its latest reply, [status, names]

vars == <<glbMap, used, contents, phase, cmd, target, seen, missed, reply>>

Registered == {n \in Names : glbMap[n] # NoGlb}
NoReply == [status |-> "", names |-> {}]

Init ==
  /\ glbMap = [n \in Names |-> NoGlb]
  /\ used = {}
  /\ contents = [g \in Glbs |-> <<>>]
  /\ phase = [s \in Sessions |-> "idle"]
  /\ cmd = [s \in Sessions |-> NoCommand]
  /\ target = [s \in Sessions |-> NoGlb]
  /\ seen = [s \in Sessions |-> {}]
  /\ missed = [s \in Sessions |-> FALSE]
  /\ reply = [s \in Sessions |-> NoReply]

Goes(s, from, to) == phase[s] = from /\ phase' = [phase EXCEPT ![s] = to]

Answers(s, op, status, names) ==
  /\ cmd[s].op = op
  /\ reply' = [reply EXCEPT ![s] = [status |-> status, names |-> names]]
  /\ target' = [target EXCEPT ![s] = NoGlb]
  /\ seen' = [seen EXCEPT ![s] = {}]
  /\ missed' = [missed EXCEPT ![s] = FALSE]
  /\ UNCHANGED cmd

Passes(ok) == IF ok THEN "PASSED" ELSE "FAILED"

Invoke(s) ==
  /\ Goes(s, "idle", "called")
  /\ \E c \in Commands : cmd' = [cmd EXCEPT ![s] = c]
  /\ reply' = [reply EXCEPT ![s] = NoReply]
  /\ UNCHANGED <<glbMap, used, contents, target, seen, missed>>

Register(s) ==
  /\ Goes(s, "called", "idle")
  /\ cmd[s].op = "ADD_DOMAIN"
  /\ cmd[s].fqdn \notin Registered
  /\ cmd[s].algo \in GlbTypes
  /\ Answers(s, "ADD_DOMAIN", "PASSED", {})
  /\ \E g \in Glbs \ used :
       /\ glbMap' = [glbMap EXCEPT ![cmd[s].fqdn] = g]
       /\ used' = used \cup {g}
  /\ UNCHANGED contents

RegisterFails(s) ==
  /\ Goes(s, "called", "idle")
  /\ cmd[s].op = "ADD_DOMAIN"
  /\ cmd[s].fqdn \in Registered \/ cmd[s].algo \notin GlbTypes
  /\ Answers(s, "ADD_DOMAIN", "FAILED", {})
  /\ UNCHANGED <<glbMap, used, contents>>

Unregister(s) ==
  /\ Goes(s, "called", "idle")
  /\ Answers(s, "DEL_DOMAIN", Passes(cmd[s].fqdn \in Registered), {})
  /\ glbMap' = [glbMap EXCEPT ![cmd[s].fqdn] = NoGlb]
  /\ UNCHANGED <<used, contents>>

Clear(s) ==
  /\ Goes(s, "called", "idle")
  /\ Answers(s, "CLR_DOMAINS", "PASSED", {})
  /\ glbMap' = [n \in Names |-> NoGlb]
  /\ UNCHANGED <<used, contents>>

Resolve(s) ==
  /\ Goes(s, "called", "found")
  /\ cmd[s].op = "SNAPSHOT"
  /\ cmd[s].fqdn \in Registered
  /\ target' = [target EXCEPT ![s] = glbMap[cmd[s].fqdn]]
  /\ UNCHANGED <<glbMap, used, contents, cmd, seen, missed, reply>>

ResolveFails(s) ==
  /\ Goes(s, "called", "idle")
  /\ cmd[s].op = "SNAPSHOT"
  /\ cmd[s].fqdn \notin Registered
  /\ Answers(s, "SNAPSHOT", "FAILED", {})
  /\ UNCHANGED <<glbMap, used, contents>>

Publish(s) ==
  /\ Goes(s, "found", "idle")
  /\ Answers(s, "SNAPSHOT", Passes(~HasBadEntry(cmd[s].entries)), {})
  /\ contents' = [contents EXCEPT ![target[s]] = @ \o Decoded(cmd[s].entries)]
  /\ UNCHANGED <<glbMap, used>>

(* COUNTS with names.                                                      *)
Look(s) ==
  /\ phase[s] = "called"
  /\ cmd[s].op = "COUNTS"
  /\ \E i \in DOMAIN cmd[s].fqdns :
       LET n == cmd[s].fqdns[i]
       IN \/ /\ n \in Registered
             /\ seen' = [seen EXCEPT ![s] = @ \cup {n}]
             /\ UNCHANGED missed
          \/ /\ n \notin Registered
             /\ missed' = [missed EXCEPT ![s] = TRUE]
             /\ UNCHANGED seen
  /\ UNCHANGED <<glbMap, used, contents, phase, cmd, target, reply>>

ReportLooked(s) ==
  /\ Goes(s, "called", "idle")
  /\ cmd[s].op = "COUNTS"
  /\ cmd[s].fqdns # <<>>
  /\ missed[s] \/ \A i \in DOMAIN cmd[s].fqdns : cmd[s].fqdns[i] \in seen[s]
  /\ Answers(s, "COUNTS", Passes(~missed[s]), seen[s])
  /\ UNCHANGED <<glbMap, used, contents>>

(* COUNTS and DEBUG_DOMAINS of everything: exactly the names registered at *)
(* one instant; DEBUG_DOMAINS asked for no rounds names none.              *)
ReportAll(s) ==
  /\ Goes(s, "called", "idle")
  /\ \/ /\ Answers(s, "COUNTS", "PASSED", Registered)
        /\ cmd[s].fqdns = <<>>
     \/ /\ cmd[s].op = "DEBUG_DOMAINS"
        /\ Answers(s, "DEBUG_DOMAINS", "",
                   IF cmd[s].nLoops > 0 THEN Registered ELSE {})
  /\ UNCHANGED <<glbMap, used, contents>>

ResetCounts(s) ==
  /\ Goes(s, "called", "idle")
  /\ cmd[s].op = "CLR_COUNTS"
  /\ Answers(s, "CLR_COUNTS",
             Passes(\A i \in DOMAIN cmd[s].fqdns : cmd[s].fqdns[i] \in Registered), {})
  /\ UNCHANGED <<glbMap, used, contents>>

(* Commands that do not touch the registry.                                *)
Pass(s) ==
  /\ Goes(s, "called", "idle")
  /\ \/ Answers(s, "SET_SOA", "PASSED", {})
     \/ Answers(s, "SET_NS", "PASSED", {})
     \/ Answers(s, "UNKNOWN COMMAND", "", {})
  /\ UNCHANGED <<glbMap, used, contents>>

Next ==
  \E s \in Sessions :
    \/ Invoke(s)
    \/ Register(s) \/ RegisterFails(s) \/ Unregister(s) \/ Clear(s)
    \/ Resolve(s) \/ ResolveFails(s) \/ Publish(s)
    \/ Look(s) \/ ReportLooked(s) \/ ReportAll(s) \/ ResetCounts(s) \/ Pass(s)

Spec == Init /\ [][Next]_vars
=============================================================================
