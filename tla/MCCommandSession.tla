-------------------------- MODULE MCCommandSession --------------------------
(***************************************************************************)
(* Two batches over two connections: a command of one lacks its argument,  *)
(* the other lists the domains.                                            *)
(***************************************************************************)
EXTENDS CommandSession

MCBatches ==
  <<<<<<"ADD_DOMAIN", "a", "NONE">>, <<"DEL_DOMAIN">>>>,
    <<<<"DEBUG_DOMAINS">>, <<"DEL_DOMAIN", "a">>>>>>
=============================================================================
