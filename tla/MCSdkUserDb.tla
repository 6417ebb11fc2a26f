---------------------------- MODULE MCSdkUserDb ----------------------------
(* Instance of SdkUserDb for TLC. *)
EXTENDS SdkUserDb

MCNames == {"admin", "wotsen", "bob"}
MCPasswords == {"admin"}
MCPerms == {"U_PERMISSION_INVALID", "U_PERMISSION_ADMIN"}
=============================================================================
