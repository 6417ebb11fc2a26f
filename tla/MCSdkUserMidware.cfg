\* Two users that log in and register, one of them with the administrator's
\* nick name, with an accepted lifetime and one too long.
SPECIFICATION Spec
CONSTANTS
  Names <- MCNames
  Users <- MCUsers
  Passwords <- MCPasswords
  Perms <- MCPerms
  AdminName = "admin"
  AdminNik = "wotsen"
  AdminPass = "admin"
  Tokens = {t1, t2}
  NoToken = NoToken
  WireAlive <- MCWireAlive
  AliveTimes <- MCAliveTimes
  Half = 4
  MaxAlive = 1
  MaxAge = 2
SYMMETRY TokenSymmetry
INVARIANTS OwnersKnown LoginIsOwn LifetimeBounded
PROPERTIES FailureIsClean AccountsKept ImplementsTokenLease
