------------------------------ MODULE MCStartup ------------------------------
(* The instance of MCSockets, from the launch of its modules on.           *)
EXTENDS MCSockets, Startup
=============================================================================
