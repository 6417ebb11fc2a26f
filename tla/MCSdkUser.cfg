\* A crash between the two statements of init().
SPECIFICATION UserSpec
CONSTANTS
  Names <- MCNames
  Passwords <- MCPasswords
  Perms <- MCPerms
  AdminName = "admin"
  AdminNik = "wotsen"
  AdminPass = "admin"
INVARIANTS AdminPresent
