----------------------------- MODULE MCReplies -----------------------------
(***************************************************************************)
(* Strings, and memory, with each kind of character, and counts on both    *)
(* sides of every width boundary: int is 3 bits wide here, int64_t 6.  In  *)
(* the pool two arrays, a string and the stack in chunks of at least       *)
(* twelve bytes: blocks grow in place and move, fill a chunk exactly, and  *)
(* need one of their own; string sizes leave padding.                      *)
(***************************************************************************)
EXTENDS Replies

MCStrings == {<<"a", "quote", "backslash">>, <<"NL", "SOH", "u", "NUL", "a">>}
MCGarbage == {<<>>, <<"quote", "NL">>}
MCCounts == {0, 3, 4, 7, 8, 31}
=============================================================================
