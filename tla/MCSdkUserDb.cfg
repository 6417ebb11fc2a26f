\* Any calls of the interface, with names and nick names that cross.
SPECIFICATION DbSpec
CONSTANTS
  Names <- MCNames
  Passwords <- MCPasswords
  Perms <- MCPerms
  AdminName = "admin"
  AdminNik = "wotsen"
  AdminPass = "admin"
INVARIANTS KeysUnique
