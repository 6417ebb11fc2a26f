---------------------------- MODULE MCSdkProtocol ----------------------------
(* Instance of SdkProtocol for TLC. *)
EXTENDS SdkProtocol

MCUrls == {"", "/index", "/a.b"}
MCRoutes == {<<"/index", 1>>}
=============================================================================
