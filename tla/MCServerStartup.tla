-------------------------- MODULE MCServerStartup --------------------------
(***************************************************************************)
(* Three PowerDNS threads, or server_main, and two clients.                *)
(***************************************************************************)
EXTENDS ServerStartup
=============================================================================
