----------------------------- MODULE SdkSession -----------------------------
(***************************************************************************)
(* The session table (sdk_session.cpp): a vector of sessions under one     *)
(* mutex, to which requests add and delete, and whose lifetimes a 1 s      *)
(* timer counts down.  Each method holds the mutex throughout: one action. *)
(***************************************************************************)
EXTENDS Integers

CONSTANTS
  Users,        \* user names
  Tokens,       \* what sole::uuid4 may return; a value is returned once
  NoToken,      \* no token
  AliveTimes,   \* the time_t values callers pass as alive_time_, in seconds
  MaxAge        \* bound: older than this, a session's age is not told apart

ASSUME NoTokenAssumption == NoToken \notin Tokens
ASSUME AliveTimesAssumption == AliveTimes \subseteq Int
ASSUME MaxAgeAssumption == MaxAge \in Nat /\ \A a \in AliveTimes : a \in -MaxAge .. MaxAge - 1

VARIABLES
  sessions,     \* sessions_
  issued        \* history: the tokens returned by uuid4 so far

sessionVars == <<sessions, issued>>

(***************************************************************************)
(* age is history: the updates since the user last logged in.              *)
(***************************************************************************)
Session == [user : Users, token : Tokens, alive : AliveTimes, now : -MaxAge .. MaxAge,
            age : 0 .. MaxAge]

\* The table is well formed, and every live token was issued.  (add_session,
\* update)
SessionTypeOK ==
  /\ sessions \subseteq Session
  /\ issued \subseteq Tokens
  /\ {s.token : s \in sessions} \subseteq issued

SessionInit == sessions = {} /\ issued = {}

Live == {s.token : s \in sessions}
HasSession(u) == \E s \in sessions : s.user = u

-----------------------------------------------------------------------------
\* A session at the start of its lifetime.
Started(u, t, a) == [user |-> u, token |-> t, alive |-> a, now |-> a, age |-> 0]

Refresh_NewToken(u, a, t) ==   \* mutant: a second login replaces the token
  \E s \in sessions :
    /\ s.user = u
    /\ t \in Tokens \ issued
    /\ sessions' = (sessions \ {s}) \cup {Started(u, t, a)}
    /\ issued' = issued \cup {t}

Refresh_KeepsNow(u, a, t) ==   \* mutant: now_ is not set again
  \E s \in sessions :
    /\ s.user = u
    /\ t = s.token
    /\ sessions' = (sessions \ {s}) \cup {[s EXCEPT !.alive = a, !.age = 0]}
    /\ UNCHANGED issued

\* The user already has a session: it lives a new lifetime under its token.
Refresh(u, a, t) ==
  \E s \in sessions :
    /\ s.user = u
    /\ t = s.token
    /\ sessions' = (sessions \ {s}) \cup {Started(u, t, a)}
    /\ UNCHANGED issued

Create_Always(u, a, t) ==   \* mutant: without the search for the user
  /\ t \in Tokens \ issued
  /\ sessions' = sessions \cup {Started(u, t, a)}
  /\ issued' = issued \cup {t}

Create_AnyToken(u, a, t) ==   \* mutant: tokens are drawn again
  /\ ~HasSession(u)
  /\ t \in Tokens
  /\ sessions' = sessions \cup {Started(u, t, a)}
  /\ issued' = issued \cup {t}

Create(u, a, t) ==
  /\ ~HasSession(u)
  /\ t \in Tokens \ issued
  /\ sessions' = sessions \cup {Started(u, t, a)}
  /\ issued' = issued \cup {t}

\* add_session, which returns true and the token t.
AddSession(u, a, t) == Refresh(u, a, t) \/ Create(u, a, t)

\* del_session, which returns true whether or not there was one.
DelSession(t) ==
  /\ sessions' = {s \in sessions : s.token # t}
  /\ UNCHANGED issued

\* verify: the code looks at nothing.
VerifyToken(t) == TRUE

-----------------------------------------------------------------------------
Min2(a, b) == IF a < b THEN a ELSE b
Max2(a, b) == IF a < b THEN b ELSE a

Aged(s, now) == [user |-> s.user, token |-> s.token, alive |-> s.alive,
                 now |-> now, age |-> Min2(s.age + 1, MaxAge)]

CountDown_Up(s) == Aged(s, s.now + 1)   \* mutant
CountDown_Twice(s) == Aged(s, IF s.now > 1 THEN s.now - 2 ELSE 0)   \* mutant

\* A negative now_ never comes to 0; below -MaxAge the model stops counting.
CountDown(s) == Aged(s, IF s.now = 0 THEN 0 ELSE Max2(s.now - 1, -MaxAge))

Update_NeverRemoves ==   \* mutant
  /\ sessions' = {CountDown(s) : s \in sessions}
  /\ UNCHANGED issued

\* update, every second: all count down, then those at 0 are removed.
Update ==
  /\ sessions' = {s \in {CountDown(r) : r \in sessions} : s.now # 0}
  /\ UNCHANGED issued

-----------------------------------------------------------------------------
Login(u) == \E a \in AliveTimes, t \in Tokens : AddSession(u, a, t)

SessionNext ==
  \/ \E u \in Users : Login(u)
  \/ \E t \in Tokens : DelSession(t)
  \/ Update

SessionSpec == SessionInit /\ [][SessionNext]_sessionVars

\* The loop's repeating timer calls update for as long as the server runs.
SessionFairSpec == SessionSpec /\ WF_sessionVars(Update)

-----------------------------------------------------------------------------
OneSessionPerUser == \A r, s \in sessions : r.user = s.user => r = s
TokensDistinct == \A r, s \in sessions : r.token = s.token => r = s

\* add_session searches and appends under one lock: however logins, logouts and
\* updates follow each other, a user has one session, and a token names one, so
\* that del_session ends only the one it was given.
SessionsKeyed == OneSessionPerUser /\ TokensDistinct

\* A session asked to live a >= 0 seconds lives at most a updates.  (update)
ExpiresOnTime == \A s \in sessions : s.alive >= 0 => s.age <= s.alive

\* ... and is not removed for its age before its a-th update.  (update)
NotEarly ==
  [][Update => \A s \in sessions :
        s.alive > s.age + 1 => \E r \in sessions' : r.token = s.token]_sessionVars

\* A token that has ended, by logout or by time, stays ended: add_session
\* returns a token already issued only when its session is still there.
EndedStaysEnded == [][\A t \in issued \ Live : t \notin Live']_sessionVars

\* A user who stops logging in has no session after some time.  (runAt, update)
IdleUsersLeave ==
  \A u \in Users : (<>[][~Login(u)]_sessionVars) => []<>(~HasSession(u))

-----------------------------------------------------------------------------
\* The refinement mapping: what a user holds is the token of its session.
HeldBy(u) ==
  IF HasSession(u) THEN (CHOOSE s \in sessions : s.user = u).token ELSE NoToken

Lease == INSTANCE TokenLease WITH
           holds <- [u \in Users |-> HeldBy(u)], used <- issued

\* The table keeps what TokenLease promises.
ImplementsTokenLease == Lease!Spec
=============================================================================
