----------------------------- MODULE MCSdkUser -----------------------------
(* Instance of SdkUser, and of the table under it, for TLC. *)
EXTENDS SdkUser

MCNames == {"admin", "wotsen", "bob"}
MCPasswords == {"admin", "other"}
MCPerms == {"U_PERMISSION_INVALID", "U_PERMISSION_ADMIN"}
=============================================================================
