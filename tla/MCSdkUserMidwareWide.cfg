\* An alive_time of 2^63 or more.
SPECIFICATION Spec
CONSTANTS
  Names <- MCNames
  Users <- MCUsers
  Passwords <- MCPasswords
  Perms <- MCPerms
  AdminName = "admin"
  AdminNik = "wotsen"
  AdminPass = "admin"
  Tokens = {t1, t2}
  NoToken = NoToken
  WireAlive <- MCWireAliveWide
  AliveTimes <- MCAliveTimes
  Half = 4
  MaxAlive = 1
  MaxAge = 2
SYMMETRY TokenSymmetry
INVARIANTS LifetimeBounded
