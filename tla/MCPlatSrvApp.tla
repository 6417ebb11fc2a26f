----------------------------- MODULE MCPlatSrvApp -----------------------------
(* Instance of PlatSrvApp for TLC. *)
EXTENDS PlatSrvApp
=============================================================================
