\* Two users, three tokens: a user can log in again after its session has
\* ended, and the two users' logins, logouts and updates interleave.
SPECIFICATION SessionFairSpec
CONSTANTS
  Users = {u1, u2}
  Tokens = {t1, t2, t3}
  AliveTimes <- MCAliveTimes
  MaxAge = 4
  NoToken = NoToken
INVARIANTS SessionTypeOK SessionsKeyed ExpiresOnTime
PROPERTIES NotEarly EndedStaysEnded ImplementsTokenLease IdleUsersLeave
