------------------------------ MODULE Replies ------------------------------
(***************************************************************************)
(* The replies, and the memory their documents are kept in.  The pool      *)
(* serves any demands that arrays, strings and the stack can make, not     *)
(* those of one document only, so it is looked at for itself: either a     *)
(* reply is made or the pool is used.                                      *)
(***************************************************************************)
EXTENDS ServerJsonBuilder, MemoryPool

VARIABLE usesPool   \* the pool is used

RepliesInit == usesPool \in BOOLEAN /\ JsonInit /\ PoolInit

RepliesNext ==
  \/ ~usesPool /\ JsonNext /\ UNCHANGED <<usesPool, poolVars>>
  \/ usesPool /\ PoolNext /\ UNCHANGED <<usesPool, jsonVars>>

RepliesSpec == RepliesInit /\ [][RepliesNext]_<<usesPool, jsonVars, poolVars>>
=============================================================================
