-------------------------- MODULE MCSdkUserMidware --------------------------
(* Instance of SdkUserMidware for TLC. *)
EXTENDS SdkUserMidware, TLC

MCNames == {"admin", "bob", "wotsen"}
\* One of them has the nick name that init() gives the administrator.
MCUsers == {"bob", "wotsen"}
MCPasswords == {"admin", "other"}
MCPerms == {"U_PERMISSION_INVALID", "U_PERMISSION_ADMIN"}
\* Lifetimes the server accepts, one too long, and with Half = 4 one that is
\* a negative time_t.
MCWireAlive == {1, 3}
MCWireAliveWide == {1, 6}
MCAliveTimes == {1, -2}

TokenSymmetry == Permutations(Tokens)
=============================================================================
