---------------------------- MODULE MCEchoClient ----------------------------
(***************************************************************************)
(* Blocks of two bytes, rings of three at first, channels of one: rings    *)
(* grow while they are wrapped, writes are partial, both channels fill.    *)
(***************************************************************************)
EXTENDS EchoClient
=============================================================================
