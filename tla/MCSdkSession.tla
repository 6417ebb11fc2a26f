---------------------------- MODULE MCSdkSession ----------------------------
(* Instance of SdkSession for TLC. *)
EXTENDS SdkSession

MCAliveTimes == {0, 1, 3}
=============================================================================
