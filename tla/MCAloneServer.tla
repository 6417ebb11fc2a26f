---------------------------- MODULE MCAloneServer ----------------------------
(* Instance of AloneServer for TLC. *)
EXTENDS AloneServer

MCNames == {"admin", "wotsen", "bob"}
=============================================================================
