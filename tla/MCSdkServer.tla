---------------------------- MODULE MCSdkServer ----------------------------
(* Instance of SdkServer for TLC. *)
EXTENDS SdkServer, TLC

\* The connections are interchangeable: every property treats them alike.
ConnSymmetry == Permutations(Conns)
=============================================================================
