-------------------------- MODULE AtomicContainer --------------------------
(***************************************************************************)
(* What a GlbContainer promises the threads that share it: every call      *)
(* takes effect at one instant between its invocation and its return.  The *)
(* one exception is getIPs, which takes effect at two: it is counted first *)
(* and served later, and other calls may come between the two.             *)
(***************************************************************************)
EXTENDS Naturals, Sequences

CONSTANTS
  Threads,              \* the threads that call the container
  Requests, NoRequest,  \* their calls, and the one they start from
  GlbTypes,             \* the balancing algorithms
  Selections(_, _, _)   \* what an algorithm may serve of a content for a mask

VARIABLES
  glbType,    \* the balancing algorithm, fixed at construction
  contents,   \* the records published so far, in order
  count,      \* the lookups since the last reset
  phase,      \* per thread: how far its call has got
  req,        \* per thread: its latest request
  dq,         \* per thread: the records its latest call gave it
  num         \* per thread: the count its latest call gave it

vars == <<glbType, contents, count, phase, req, dq, num>>

Init ==
  /\ glbType \in GlbTypes
  /\ contents = <<>>
  /\ count = 0
  /\ phase = [t \in Threads |-> "idle"]
  /\ req = [t \in Threads |-> NoRequest]
  /\ dq = [t \in Threads |-> <<>>]
  /\ num = [t \in Threads |-> 0]

Goes(t, from, to) == phase[t] = from /\ phase' = [phase EXCEPT ![t] = to]

Invoke(t) ==
  /\ Goes(t, "idle", "called")
  /\ \E r \in Requests : req' = [req EXCEPT ![t] = r]
  /\ dq' = [dq EXCEPT ![t] = <<>>]
  /\ num' = [num EXCEPT ![t] = 0]
  /\ UNCHANGED <<glbType, contents, count>>

(* A whole batch becomes visible at once, behind what is there.            *)
Publish(t) ==
  /\ Goes(t, "called", "published")
  /\ req[t].op = "setIPs"
  /\ contents' = contents \o req[t].batch
  /\ UNCHANGED <<glbType, count, req, dq, num>>

Return(t) ==
  /\ Goes(t, "published", "idle")
  /\ UNCHANGED <<glbType, contents, count, req, dq, num>>

Count(t) ==
  /\ Goes(t, "called", "counted")
  /\ req[t].op = "getIPs"
  /\ count' = count + 1
  /\ UNCHANGED <<glbType, contents, req, dq, num>>

Serve(t) ==
  /\ Goes(t, "counted", "idle")
  /\ \E out \in Selections(glbType, contents, req[t].mask) :
       dq' = [dq EXCEPT ![t] = out]
  /\ UNCHANGED <<glbType, contents, count, req, num>>

Reset(t) ==
  /\ Goes(t, "called", "idle")
  /\ req[t].op = "clrNLookups"
  /\ count' = 0
  /\ UNCHANGED <<glbType, contents, req, dq, num>>

Report(t) ==
  /\ Goes(t, "called", "idle")
  /\ req[t].op = "getNLookups"
  /\ num' = [num EXCEPT ![t] = count]
  /\ UNCHANGED <<glbType, contents, count, req, dq>>

Describe(t) ==
  /\ Goes(t, "called", "idle")
  /\ req[t].op = "to_string"
  /\ num' = [num EXCEPT ![t] = count]
  /\ dq' = [dq EXCEPT ![t] = contents]
  /\ UNCHANGED <<glbType, contents, count, req>>

Next ==
  \E t \in Threads :
    \/ Invoke(t) \/ Publish(t) \/ Return(t)
    \/ Count(t) \/ Serve(t)
    \/ Reset(t) \/ Report(t) \/ Describe(t)

Spec == Init /\ [][Next]_vars
=============================================================================
