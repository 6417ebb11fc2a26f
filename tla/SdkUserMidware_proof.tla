------------------------ MODULE SdkUserMidware_proof ------------------------
(***************************************************************************)
(* Proofs about SdkUserDb, SdkSession and the user middleware that extends *)
(* both: the table of users for all names, passwords and permissions, the  *)
(* sessions for all users, tokens and lifetimes, and then the composition, *)
(* in which the invariants of the two tables hold, the tables agree, and   *)
(* the sessions still implement TokenLease although the process may crash  *)
(* and lose them all.                                                      *)
(***************************************************************************)
EXTENDS SdkUserMidware, TLAPS

-----------------------------------------------------------------------------
(* The table of users (SdkUserDb).  KeysUnique is not inductive: INSERT of *)
(* the administrator is made without looking.  It is right because init()  *)
(* fills only the table it has just created, in which nobody has put a     *)
(* row; CreatedIsEmpty says so.                                            *)

CreatedIsEmpty == db = "created" => rows = {}

DbInv == DbTypeOK /\ KeysUnique /\ CreatedIsEmpty

USE AdminAssumption, PermsAssumption

\* A new row has the names it was made with.
LEMMA NewRowFields ==
  ASSUME NEW name \in Names, NEW nik \in Names, NEW pass \in Passwords, NEW perm \in Perms
  PROVE  /\ NewRow(name, nik, pass, perm) \in Row
         /\ NewRow(name, nik, pass, perm).name = name
         /\ NewRow(name, nik, pass, perm).nik = nik
BY DEF NewRow, Row

\* add_user keeps the rows well formed and their keys unique.
LEMMA AddUserKeys ==
  ASSUME DbInv, NEW name \in Names, NEW nik \in Names, NEW pass \in Passwords, NEW perm \in Perms,
         NEW err, AddUser(name, nik, pass, perm, err)
  PROVE  rows' \subseteq Row /\ KeysUnique'
<1>1. CASE rows' = rows
  BY <1>1 DEF DbInv, DbTypeOK, KeysUnique
<1>2. CASE ~UserExist(name, nik) /\ rows' = rows \cup {NewRow(name, nik, pass, perm)}
  <2>1. \A r \in rows : r.name # name /\ r.nik # nik
    BY <1>2 DEF UserExist, ByName, ByNik
  <2> QED
    BY <1>2, <2>1, NewRowFields DEF DbInv, DbTypeOK, KeysUnique
<1> QED
  BY <1>1, <1>2 DEF AddUser

\* So does the mark another program sets.
LEMMA MarkKeys ==
  ASSUME DbInv, NEW r \in rows, NEW valid \in BOOLEAN, NEW black \in BOOLEAN,
         ExternalMark(r, valid, black)
  PROVE  rows' \subseteq Row /\ KeysUnique'
<1>1. r \in Row
  BY DEF DbInv, DbTypeOK
<1>2. /\ Marked(r, valid, black) \in Row
      /\ Marked(r, valid, black).name = r.name /\ Marked(r, valid, black).nik = r.nik
  BY <1>1 DEF Marked, Row
<1>3. rows' = (rows \ {r}) \cup {Marked(r, valid, black)}
  BY DEF ExternalMark
<1> QED
  BY <1>2, <1>3 DEF DbInv, DbTypeOK, KeysUnique

\* At first there is no table.
LEMMA InitDbInv == DbInit => DbInv
BY DEF DbInit, DbInv, DbTypeOK, KeysUnique, CreatedIsEmpty, DbState

\* A step of init() keeps names unique.
LEMMA InitStepDbInv ==
  ASSUME DbInv, DbInitStep
  PROVE  DbInv'
<1>1. ASSUME InsertAdmin PROVE DbInv'
  <2> DEFINE admin == NewRow(AdminName, AdminNik, AdminPass, "U_PERMISSION_ADMIN")
  <2>1. admin \in Row
    BY NewRowFields
  <2>2. rows' = {admin}
    BY <1>1 DEF InsertAdmin, DbInv, CreatedIsEmpty
  <2> HIDE DEF admin
  <2> QED
    BY <1>1, <2>1, <2>2 DEF InsertAdmin, DbInv, DbTypeOK, KeysUnique, CreatedIsEmpty, DbState
<1>2. ASSUME Open \/ OpenFails \/ TableFound \/ CreateTable PROVE DbInv'
  BY <1>2 DEF Open, OpenFails, TableFound, CreateTable, DbInv, DbTypeOK, KeysUnique,
     CreatedIsEmpty, DbState
<1> QED
  BY <1>1, <1>2 DEF DbInitStep

\* A crash leaves the rows there are.
LEMMA CrashDbInv ==
  ASSUME DbInv, Crash
  PROVE  DbInv'
BY DEF Crash, DbInv, DbTypeOK, KeysUnique, CreatedIsEmpty, DbState

\* A mark leaves the names of all rows.
LEMMA MarkDbInv ==
  ASSUME DbInv, Mark
  PROVE  DbInv'
<1>1. PICK r \in rows, valid \in BOOLEAN, black \in BOOLEAN : ExternalMark(r, valid, black)
  BY DEF Mark
<1>2. rows' \subseteq Row /\ KeysUnique'
  BY <1>1, MarkKeys
<1> QED
  BY <1>1, <1>2 DEF ExternalMark, DbInv, DbTypeOK, CreatedIsEmpty, DbState

\* A call of add_user, from whatever the callers make of it.
LEMMA AddUserDbInv ==
  ASSUME DbInv, db = "ready", db' = db, table' = table,
         NEW name \in Names, NEW nik \in Names, NEW pass \in Passwords, NEW perm \in Perms,
         NEW err, AddUser(name, nik, pass, perm, err)
  PROVE  DbInv'
<1>1. rows' \subseteq Row /\ KeysUnique'
  BY AddUserKeys
<1>2. table
  BY DEF DbInv, DbTypeOK
<1> QED
  BY <1>1, <1>2 DEF DbInv, DbTypeOK, CreatedIsEmpty, DbState
\* A deletion leaves some of the rows.
LEMMA DelUserDbInv ==
  ASSUME DbInv, db' = db, table' = table,
         NEW name \in Names, NEW nik \in Names, NEW err, DelUser(name, nik, err)
  PROVE  DbInv'
<1>1. rows' \subseteq rows
  BY DEF DelUser
<1> QED
  BY <1>1 DEF DbInv, DbTypeOK, KeysUnique, CreatedIsEmpty

\* Every step of the user table keeps its invariant.
LEMMA NextDbInv == DbInv /\ [DbNext]_dbVars => DbInv'
<1> SUFFICES ASSUME DbInv, [DbNext]_dbVars PROVE DbInv'
  OBVIOUS
<1>1. CASE DbInitStep
  BY <1>1, InitStepDbInv
<1>2. CASE Crash
  BY <1>2, CrashDbInv
<1>3. CASE DbCall
  <2>1. db = "ready" /\ db' = db /\ table' = table
    BY <1>3 DEF DbCall
  <2>2. PICK name \in Names, nik \in Names, err \in Errors :
          \/ \E pass \in Passwords, perm \in Perms : AddUser(name, nik, pass, perm, err)
          \/ DelUser(name, nik, err)
    BY <1>3 DEF DbCall
  <2> QED
    BY <2>1, <2>2, AddUserDbInv, DelUserDbInv
<1>4. CASE Mark
  BY <1>4, MarkDbInv
<1>5. CASE UNCHANGED dbVars
  BY <1>5 DEF dbVars, DbInv, DbTypeOK, KeysUnique, CreatedIsEmpty
<1> QED
  BY <1>1, <1>2, <1>3, <1>4, <1>5 DEF DbNext

-----------------------------------------------------------------------------
\* Under any calls, marks and crashes the table keeps its type, and no two
\* rows share a name or a nick name.
THEOREM TableKeysUnique == DbSpec => [](DbTypeOK /\ KeysUnique)
<1>1. DbInv => DbTypeOK /\ KeysUnique
  BY DEF DbInv
<1> QED
  BY <1>1, InitDbInv, NextDbInv, PTL DEF DbSpec

-----------------------------------------------------------------------------
(* The sessions (SdkSession).  ExpiresOnTime alone is not inductive:       *)
(* nothing in it says that now_ runs with the age.  Aging does: while      *)
(* neither has met its bound, the age and what is left of the lifetime add *)
(* up to the lifetime.                                                     *)

Aging == \A s \in sessions : s.alive >= 0 => s.now >= 0 /\ s.age + s.now = s.alive

SInv ==
  /\ SessionTypeOK
  /\ OneSessionPerUser
  /\ TokensDistinct
  /\ Aging

USE AliveTimesAssumption, MaxAgeAssumption

\* Which fields a count down changes, and to what.
LEMMA CountDownFields ==
  ASSUME NEW s \in Session
  PROVE  /\ CountDown(s) \in Session
         /\ CountDown(s).user = s.user
         /\ CountDown(s).token = s.token
         /\ CountDown(s).alive = s.alive
         /\ CountDown(s).now = IF s.now = 0 THEN 0 ELSE Max2(s.now - 1, -MaxAge)
         /\ CountDown(s).age = Min2(s.age + 1, MaxAge)
BY DEF CountDown, Aged, Session, Min2, Max2

\* The sessions after an update come from sessions before it.
LEMMA UpdateOrigin ==
  ASSUME SInv, Update, NEW s \in sessions'
  PROVE  \E r \in sessions : r \in Session /\ s = CountDown(r) /\ s.now # 0
BY DEF SInv, SessionTypeOK, Update

\* At first there are no sessions.
LEMMA InitSInv == SessionInit => SInv
BY DEF SessionInit, SInv, SessionTypeOK, OneSessionPerUser, TokensDistinct, Aging

\* A login of a user who has a session renews it.
LEMMA RefreshSInv ==
  ASSUME SInv, NEW u \in Users, NEW a \in AliveTimes, NEW t \in Tokens, Refresh(u, a, t)
  PROVE  SInv'
<1>1. PICK s \in sessions :
        /\ s.user = u /\ t = s.token
        /\ sessions' = (sessions \ {s}) \cup {Started(u, t, a)}
        /\ issued' = issued
  BY DEF Refresh
<1> DEFINE n == Started(u, t, a)
<1>2. s \in Session /\ sessions \subseteq Session
  BY DEF SInv, SessionTypeOK
<1>3. n \in Session /\ n.user = s.user /\ n.token = s.token /\ n.alive = a /\ n.now = a /\ n.age = 0
  BY <1>1, <1>2 DEF Session, Started
<1>4. sessions' = (sessions \ {s}) \cup {n}
  BY <1>1
<1> HIDE DEF n
<1>5. SessionTypeOK'
  BY <1>1, <1>2, <1>3, <1>4 DEF SInv, SessionTypeOK
<1>6. OneSessionPerUser' /\ TokensDistinct'
  BY <1>3, <1>4 DEF SInv, OneSessionPerUser, TokensDistinct
<1>7. Aging'
  BY <1>3, <1>4 DEF SInv, Aging
<1> QED
  BY <1>5, <1>6, <1>7 DEF SInv

\* A login of a user who has none gets a new token.
LEMMA CreateSInv ==
  ASSUME SInv, NEW u \in Users, NEW a \in AliveTimes, NEW t \in Tokens, Create(u, a, t)
  PROVE  SInv'
<1> DEFINE n == Started(u, t, a)
<1>1. sessions' = sessions \cup {n} /\ issued' = issued \cup {t} /\ t \notin issued
  BY DEF Create
<1>2. n \in Session /\ n.user = u /\ n.token = t /\ n.alive = a /\ n.now = a /\ n.age = 0
  BY DEF Session, Started
<1>3. \A s \in sessions : s.user # u /\ s.token # t
  BY <1>1 DEF Create, HasSession, SInv, SessionTypeOK
<1> HIDE DEF n
<1>4. SessionTypeOK'
  BY <1>1, <1>2 DEF SInv, SessionTypeOK
<1>5. OneSessionPerUser' /\ TokensDistinct'
  BY <1>1, <1>2, <1>3 DEF SInv, OneSessionPerUser, TokensDistinct
<1>6. Aging'
  BY <1>1, <1>2 DEF SInv, Aging
<1> QED
  BY <1>4, <1>5, <1>6 DEF SInv

\* A logout takes one session away.
LEMMA DelSInv ==
  ASSUME SInv, NEW t \in Tokens, DelSession(t)
  PROVE  SInv'
BY DEF SInv, SessionTypeOK, OneSessionPerUser, TokensDistinct, Aging, DelSession

\* The timer ages all sessions and ends those whose time is over.
LEMMA UpdateSInv ==
  ASSUME SInv, Update
  PROVE  SInv'
<1>1. SessionTypeOK'
  <2>1. sessions' \subseteq Session
    BY UpdateOrigin, CountDownFields
  <2>2. ASSUME NEW s \in sessions' PROVE s.token \in issued'
    <3>1. PICK r \in sessions : r \in Session /\ s = CountDown(r)
      BY <2>2, UpdateOrigin
    <3> QED
      BY <3>1, CountDownFields DEF SInv, SessionTypeOK, Update
  <2> QED
    BY <2>1, <2>2 DEF SInv, SessionTypeOK, Update
<1>2. OneSessionPerUser' /\ TokensDistinct'
  <2> SUFFICES ASSUME NEW x \in sessions', NEW y \in sessions', x.user = y.user \/ x.token = y.token
               PROVE  x = y
    BY DEF OneSessionPerUser, TokensDistinct
  <2>1. PICK r \in sessions : r \in Session /\ x = CountDown(r)
    BY UpdateOrigin
  <2>2. PICK s \in sessions : s \in Session /\ y = CountDown(s)
    BY UpdateOrigin
  <2>3. r.user = s.user \/ r.token = s.token
    BY <2>1, <2>2, CountDownFields
  <2>4. r = s
    BY <2>3 DEF SInv, OneSessionPerUser, TokensDistinct
  <2> QED
    BY <2>1, <2>2, <2>4
<1>3. Aging'
  <2> SUFFICES ASSUME NEW s \in sessions', s.alive >= 0
               PROVE  s.now >= 0 /\ s.age + s.now = s.alive
    BY DEF Aging
  <2>1. PICK r \in sessions : r \in Session /\ s = CountDown(r) /\ s.now # 0
    BY UpdateOrigin
  <2>2. /\ s.alive = r.alive
        /\ s.now = IF r.now = 0 THEN 0 ELSE Max2(r.now - 1, -MaxAge)
        /\ s.age = Min2(r.age + 1, MaxAge)
    BY <2>1, CountDownFields
  <2>3. r.now >= 0 /\ r.age + r.now = r.alive
    BY <2>2 DEF SInv, Aging
  <2>4. r.alive \in AliveTimes /\ r.now \in Int /\ r.age \in Int
    BY <2>1 DEF Session
  <2> QED
    BY <2>1, <2>2, <2>3, <2>4 DEF Min2, Max2
<1> QED
  BY <1>1, <1>2, <1>3 DEF SInv

\* Every step of the session table keeps its invariant.
LEMMA NextSInv == SInv /\ [SessionNext]_sessionVars => SInv'
<1> SUFFICES ASSUME SInv, [SessionNext]_sessionVars PROVE SInv'
  OBVIOUS
<1>1. ASSUME NEW u \in Users, Login(u) PROVE SInv'
  BY <1>1, RefreshSInv, CreateSInv DEF Login, AddSession
<1>2. ASSUME NEW t \in Tokens, DelSession(t) PROVE SInv'
  BY <1>2, DelSInv
<1>3. CASE Update
  BY <1>3, UpdateSInv
<1>4. CASE UNCHANGED sessionVars
  BY <1>4 DEF SInv, SessionTypeOK, OneSessionPerUser, TokensDistinct, Aging, sessionVars
<1> QED
  BY <1>1, <1>2, <1>3, <1>4 DEF SessionNext

\* So it always holds.
LEMMA SessionInvariance == SessionSpec => []SInv
BY InitSInv, NextSInv, PTL DEF SessionSpec

-----------------------------------------------------------------------------
(* The results.                                                            *)

\* The table has its type, and every live token was issued by it.
THEOREM SessionTypeCorrect == SessionSpec => []SessionTypeOK
<1>1. SInv => SessionTypeOK
  BY DEF SInv
<1> QED
  BY <1>1, SessionInvariance, PTL

\* However requests and updates interleave, a user has one session and a
\* token names one session.
THEOREM SessionsAreKeyed == SessionSpec => []SessionsKeyed
<1>1. SInv => SessionsKeyed
  BY DEF SInv, SessionsKeyed
<1> QED
  BY <1>1, SessionInvariance, PTL

\* A lifetime that is not negative is kept to the second.
THEOREM SessionsExpire == SessionSpec => []ExpiresOnTime
<1>1. SInv => ExpiresOnTime
  <2> SUFFICES ASSUME SInv, NEW s \in sessions, s.alive >= 0 PROVE s.age <= s.alive
    BY DEF ExpiresOnTime
  <2>1. s.alive \in Int /\ s.now \in Int /\ s.age \in Int
    BY DEF SInv, SessionTypeOK, Session
  <2> QED
    BY <2>1 DEF SInv, Aging
<1> QED
  BY <1>1, SessionInvariance, PTL

\* An update removes no session before it has lived its lifetime: every lifetime
\* is given in full.  (update)
THEOREM NoneEndsEarly == SessionSpec => NotEarly
<1> DEFINE Stays == Update => \A s \in sessions :
                      s.alive > s.age + 1 => \E r \in sessions' : r.token = s.token
<1>1. ASSUME SInv PROVE Stays
  <2> SUFFICES ASSUME Update, NEW s \in sessions, s.alive > s.age + 1
               PROVE  \E r \in sessions' : r.token = s.token
    OBVIOUS
  <2>1. s \in Session /\ s.alive \in Int /\ s.now \in Int /\ s.age \in Nat
    BY <1>1 DEF SInv, SessionTypeOK, Session
  <2>2. s.age + s.now = s.alive
    BY <1>1, <2>1 DEF SInv, Aging
  <2>3. CountDown(s).token = s.token /\ CountDown(s).now # 0
    BY <2>1, <2>2, CountDownFields DEF Max2
  <2>4. CountDown(s) \in sessions'
    BY <2>3 DEF Update
  <2> QED
    BY <2>3, <2>4
<1> QED
  BY <1>1, SessionInvariance, PTL DEF NotEarly, SessionSpec

\* A token that has ended never becomes live again.
THEOREM TokensEndForGood == SessionSpec => EndedStaysEnded
<1> DEFINE Ended == \A t \in issued \ Live : t \notin Live'
<1>1. ASSUME SInv, SessionNext PROVE Ended
  <2> SUFFICES ASSUME NEW t \in issued, t \notin Live, NEW x \in sessions', x.token = t
               PROVE  FALSE
    BY DEF Live
  <2>1. ASSUME NEW u \in Users, NEW a \in AliveTimes, NEW w \in Tokens, Refresh(u, a, w) PROVE FALSE
    <3>1. PICK s \in sessions :
            w = s.token /\ sessions' = (sessions \ {s}) \cup {Started(u, w, a)}
      BY <2>1 DEF Refresh
    <3>2. Started(u, w, a).token = w
      BY DEF Started
    <3> QED
      BY <3>1, <3>2 DEF Live
  <2>2. ASSUME NEW u \in Users, NEW a \in AliveTimes, NEW w \in Tokens, Create(u, a, w) PROVE FALSE
    BY <2>2 DEF Create, Started, Live
  <2>3. ASSUME NEW w \in Tokens, DelSession(w) PROVE FALSE
    BY <2>3 DEF DelSession, Live
  <2>4. ASSUME Update PROVE FALSE
    BY <1>1, <2>4, UpdateOrigin, CountDownFields DEF Live
  <2> QED
    BY <1>1, <2>1, <2>2, <2>3, <2>4 DEF SessionNext, Login, AddSession
<1>2. SInv /\ [SessionNext]_sessionVars => [Ended]_sessionVars
  BY <1>1
<1> QED
  BY <1>2, SessionInvariance, PTL DEF SessionSpec, EndedStaysEnded
-----------------------------------------------------------------------------
(* The refinement of TokenLease.                                           *)

\* What the mapping says of a user with a session, before and after a step.
LEMMA HeldToken ==
  /\ SInv => \A s \in sessions : HeldBy(s.user) = s.token
  /\ SInv' => \A s \in sessions' : HeldBy(s.user)' = s.token
<1>1. ASSUME SInv, NEW s \in sessions PROVE HeldBy(s.user) = s.token
  <2> DEFINE c == CHOOSE r \in sessions : r.user = s.user
  <2>1. c \in sessions /\ c.user = s.user
    OBVIOUS
  <2>2. c = s
    BY <1>1, <2>1 DEF SInv, OneSessionPerUser
  <2> QED
    BY <2>2 DEF HeldBy, HasSession
<1>2. ASSUME SInv', NEW s \in sessions' PROVE HeldBy(s.user)' = s.token
  <2> DEFINE c == CHOOSE r \in sessions' : r.user = s.user
  <2>1. c \in sessions' /\ c.user = s.user
    OBVIOUS
  <2>2. c = s
    BY <1>2, <2>1 DEF SInv, OneSessionPerUser
  <2> QED
    BY <2>2 DEF HeldBy, HasSession
<1> QED
  BY <1>1, <1>2

\* A step that only drops sessions, or changes them but for user and token.
LEMMA KeepingStep ==
  ASSUME SInv, SInv', issued' = issued,
         \A x \in sessions' : \E s \in sessions : s.user = x.user /\ s.token = x.token
  PROVE  \E ended \in SUBSET Users : Lease!Finish(ended)
<1> DEFINE ended == {v \in Users : ~HasSession(v)'}
<1>1. ASSUME NEW v \in Users
      PROVE  HeldBy(v)' = IF v \in ended THEN NoToken ELSE HeldBy(v)
  <2>1. CASE v \in ended
    BY <2>1 DEF HeldBy
  <2>2. CASE v \notin ended
    <3>1. PICK x \in sessions' : x.user = v
      BY <2>2 DEF HasSession
    <3>2. PICK s \in sessions : s.user = v /\ s.token = x.token
      BY <3>1
    <3>3. HeldBy(v)' = x.token /\ HeldBy(v) = s.token
      BY <3>1, <3>2, HeldToken
    <3> QED
      BY <2>2, <3>2, <3>3
  <2> QED
    BY <2>1, <2>2
<1>2. Lease!Finish(ended)
  BY <1>1 DEF Lease!Finish
<1> QED
  BY <1>2

\* A login of a user without a session is a grant.
LEMMA CreateStep ==
  ASSUME SInv, SInv', NEW u \in Users, NEW a \in AliveTimes, NEW t \in Tokens, Create(u, a, t)
  PROVE  Lease!Grant(u, t)
<1>1. sessions' = sessions \cup {Started(u, t, a)}
  BY DEF Create
<1>2. Started(u, t, a).user = u /\ Started(u, t, a).token = t
  BY DEF Started
<1>3. HeldBy(u) = NoToken
  BY DEF Create, HeldBy
<1>4. ASSUME NEW v \in Users PROVE HeldBy(v)' = IF v = u THEN t ELSE HeldBy(v)
  <2>1. CASE v = u
    BY <1>1, <1>2, <2>1, HeldToken
  <2>2. CASE v # u /\ HasSession(v)
    <3>1. PICK s \in sessions : s.user = v
      BY <2>2 DEF HasSession
    <3> QED
      BY <1>1, <2>2, <3>1, HeldToken
  <2>3. CASE v # u /\ ~HasSession(v)
    <3>1. ~HasSession(v)'
      BY <1>1, <1>2, <2>3 DEF HasSession
    <3> QED
      BY <2>3, <3>1 DEF HeldBy
  <2> QED
    BY <2>1, <2>2, <2>3
<1> DEFINE h == [w \in Users |-> HeldBy(w)]
<1>5. h' = [h EXCEPT ![u] = t]
  BY <1>4
<1> QED
  BY <1>3, <1>5 DEF Lease!Grant, Create

\* Every step of the session table is one of TokenLease, or a stutter.
LEMMA StepRefines ==
  ASSUME SInv, SInv', [SessionNext]_sessionVars
  PROVE  [Lease!Next]_(Lease!vars)
<1>1. ASSUME NEW u \in Users, NEW a \in AliveTimes, NEW t \in Tokens, Refresh(u, a, t)
      PROVE  Lease!Next
  <2>1. PICK s \in sessions :
          s.user = u /\ t = s.token /\ sessions' = (sessions \ {s}) \cup {Started(u, t, a)}
    BY <1>1 DEF Refresh
  <2>2. Started(u, t, a).user = u /\ Started(u, t, a).token = t
    BY DEF Started
  <2>3. \A x \in sessions' : \E r \in sessions : r.user = x.user /\ r.token = x.token
    BY <2>1, <2>2
  <2>4. issued' = issued
    BY <1>1 DEF Refresh
  <2> QED
    BY <2>3, <2>4, KeepingStep DEF Lease!Next
<1>2. ASSUME NEW u \in Users, NEW a \in AliveTimes, NEW t \in Tokens, Create(u, a, t)
      PROVE  Lease!Next
  BY <1>2, CreateStep DEF Lease!Next
<1>3. ASSUME NEW t \in Tokens, DelSession(t) PROVE Lease!Next
  BY <1>3, KeepingStep DEF DelSession, Lease!Next
<1>4. ASSUME Update PROVE Lease!Next
  <2>1. \A x \in sessions' : \E s \in sessions : s.user = x.user /\ s.token = x.token
    BY <1>4, UpdateOrigin, CountDownFields
  <2> QED
    BY <1>4, <2>1, KeepingStep DEF Update, Lease!Next
<1>5. CASE UNCHANGED sessionVars
  BY <1>5 DEF sessionVars, Lease!vars, HeldBy, HasSession
<1> QED
  BY <1>1, <1>2, <1>3, <1>4, <1>5 DEF SessionNext, Login, AddSession

\* Every behaviour of the table is one TokenLease allows.
THEOREM RefinesTokenLease == SessionSpec => ImplementsTokenLease
<1>1. SessionInit => Lease!Init
  BY DEF SessionInit, Lease!Init, HeldBy, HasSession
<1>2. SInv /\ SInv' /\ [SessionNext]_sessionVars => [Lease!Next]_(Lease!vars)
  BY StepRefines
<1> QED
  BY <1>1, <1>2, SessionInvariance, PTL DEF SessionSpec, ImplementsTokenLease, Lease!Spec

-----------------------------------------------------------------------------
(* The middleware (SdkUserMidware).                                        *)

\* No request asks for a lifetime that becomes negative.
WireNonNegative == \A v \in WireAlive : v < Half

\* What _login_proc lets through: the lifetimes of the sessions there are.
KnownLifetimes ==
  \A s \in sessions : s.alive <= MaxAlive /\ (WireNonNegative => s.alive >= 0)

MInv == DbInv /\ SInv /\ OwnersKnown /\ KnownLifetimes

USE UsersAssumption, WireAssumption

\* At first both tables are empty.
LEMMA InitMInv == Init => MInv
<1> SUFFICES ASSUME Init PROVE MInv
  OBVIOUS
<1>1. DbInv /\ SInv
  BY InitDbInv, InitSInv DEF Init, UserInit
<1> QED
  BY <1>1 DEF Init, SessionInit, MInv, OwnersKnown, KnownLifetimes

\* Rows change, sessions do not, and no name disappears.
LEMMA RowsStep ==
  ASSUME MInv, DbInv', UNCHANGED sessionVars, \A name : QueryOk(name) => QueryOk(name)'
  PROVE  MInv'
<1>1. SInv'
  BY DEF MInv, SInv, SessionTypeOK, OneSessionPerUser, TokensDistinct, Aging, sessionVars
<1>2. OwnersKnown' /\ KnownLifetimes'
  BY DEF MInv, OwnersKnown, KnownLifetimes, sessionVars
<1> QED
  BY <1>1, <1>2 DEF MInv

\* Sessions change, rows do not: every session has the user and the lifetime
\* of one there was.
LEMMA SessionsStep ==
  ASSUME MInv, SInv', UNCHANGED dbVars,
         \A x \in sessions' : \E s \in sessions : s.user = x.user /\ s.alive = x.alive
  PROVE  MInv'
<1>1. DbInv'
  BY DEF MInv, DbInv, DbTypeOK, KeysUnique, CreatedIsEmpty, dbVars
<1>2. OwnersKnown' /\ KnownLifetimes'
  BY DEF MInv, OwnersKnown, KnownLifetimes, dbVars, QueryOk, ByName
<1> QED
  BY <1>1, <1>2 DEF MInv

\* The conversion lets no lifetime above the limit into the table.
LEMMA AcceptedLifetime ==
  ASSUME NEW v \in WireAlive, ~TooLong(v)
  PROVE  /\ ToTimeT(v) \in AliveTimes /\ ToTimeT(v) <= MaxAlive
         /\ WireNonNegative => ToTimeT(v) >= 0
<1>1. v \in Int /\ ToTimeT(v) \in Int
  BY DEF ToTimeT
<1>2. ToTimeT(v) <= MaxAlive
  BY <1>1 DEF TooLong
<1> QED
  BY <1>1, <1>2, AcceptedAliveAssumption DEF ToTimeT, WireNonNegative

\* A login keeps the invariants of both tables and their agreement.
LEMMA LoginMInv ==
  ASSUME MInv, NEW user \in Users, NEW pass \in Passwords, NEW v \in WireAlive,
         LoginProc(user, pass, v)
  PROVE  MInv'
<1>1. CASE LoginAccepted(user, pass, v)
  <2>1. PICK t \in Tokens : AddSession(user, ToTimeT(v), t)
    BY <1>1 DEF LoginAccepted
  <2> DEFINE n == Started(user, t, ToTimeT(v))
  <2>2. ToTimeT(v) \in AliveTimes /\ ToTimeT(v) <= MaxAlive /\ (WireNonNegative => ToTimeT(v) >= 0)
    BY <1>1, AcceptedLifetime DEF LoginAccepted
  <2>3. SInv'
    BY <2>1, <2>2, RefreshSInv, CreateSInv DEF AddSession, MInv
  <2>4. sessions' \subseteq sessions \cup {n}
    BY <2>1 DEF AddSession, Refresh, Create
  <2>5. n.user = user /\ n.alive = ToTimeT(v)
    BY DEF Started
  <2>6. QueryOk(user)
    BY <1>1 DEF LoginAccepted, SdkUserVerify
  <2>7. rows' = rows /\ DbInv'
    BY DEF LoginProc, MInv, DbInv, DbTypeOK, KeysUnique, CreatedIsEmpty, dbVars
  <2> HIDE DEF n
  <2>8. OwnersKnown'
    BY <2>4, <2>5, <2>6, <2>7 DEF MInv, OwnersKnown, QueryOk, ByName
  <2>9. KnownLifetimes'
    BY <2>2, <2>4, <2>5 DEF MInv, KnownLifetimes
  <2> QED
    BY <2>3, <2>7, <2>8, <2>9 DEF MInv
<1>2. CASE \E code \in Codes : LoginRefused(user, pass, v, code)
  BY <1>2 DEF LoginRefused, LoginProc, MInv, DbInv, DbTypeOK, KeysUnique, CreatedIsEmpty, SInv,
     SessionTypeOK, OneSessionPerUser, TokensDistinct, Aging, OwnersKnown, KnownLifetimes, QueryOk,
     ByName, dbVars, sessionVars
<1> QED
  BY <1>1, <1>2 DEF LoginProc

\* So does a registration,
LEMMA RegisterMInv ==
  ASSUME MInv, NEW user \in Users, NEW pass \in Passwords, NEW perm \in Perms,
         RegisterProc(user, pass, perm)
  PROVE  MInv'
<1>1. db = "ready" /\ table' = table /\ db' = db /\ UNCHANGED sessionVars
  BY DEF RegisterProc
<1>2. CASE rows' = rows
  <2>1. DbInv'
    BY <1>1, <1>2 DEF MInv, DbInv, DbTypeOK, KeysUnique, CreatedIsEmpty
  <2> QED
    BY <1>1, <1>2, <2>1, RowsStep DEF QueryOk, ByName
<1>3. ASSUME NEW err, AddUser(user, user, pass, perm, err) PROVE MInv'
  <2>1. DbInv'
    BY <1>1, <1>3, AddUserDbInv DEF MInv
  <2>2. rows \subseteq rows'
    BY <1>3 DEF AddUser
  <2> QED
    BY <1>1, <2>1, <2>2, RowsStep DEF QueryOk, ByName
<1> QED
  BY <1>2, <1>3 DEF RegisterProc, SdkUserAdd

\* a logout,
LEMMA LogoutMInv ==
  ASSUME MInv, NEW t \in Tokens, LogoutProc(t)
  PROVE  MInv'
<1>1. SInv'
  BY DelSInv DEF LogoutProc, MInv
<1> QED
  BY <1>1, SessionsStep DEF LogoutProc, DelSession

\* the timer,
LEMMA TickMInv ==
  ASSUME MInv, Tick
  PROVE  MInv'
<1>1. SInv'
  BY UpdateSInv DEF Tick, MInv
<1>2. \A x \in sessions' : \E s \in sessions : s.user = x.user /\ s.alive = x.alive
  BY UpdateOrigin, CountDownFields DEF Tick, MInv
<1> QED
  BY <1>1, <1>2, SessionsStep DEF Tick

\* a step of the user table,
LEMMA DbStepMInv ==
  ASSUME MInv, DbStep
  PROVE  MInv'
<1>1. CASE DbInitStep
  <2>1. DbInv'
    BY <1>1, InitStepDbInv DEF MInv
  <2>2. rows \subseteq rows'
    BY <1>1 DEF DbInitStep, Open, OpenFails, TableFound, CreateTable, InsertAdmin
  <2> QED
    BY <2>1, <2>2, RowsStep DEF DbStep, QueryOk, ByName
<1>2. CASE Mark
  <2>1. DbInv'
    BY <1>2, MarkDbInv DEF MInv
  <2>2. PICK r \in rows, valid \in BOOLEAN, black \in BOOLEAN : ExternalMark(r, valid, black)
    BY <1>2 DEF Mark
  <2>3. rows' = (rows \ {r}) \cup {Marked(r, valid, black)} /\ Marked(r, valid, black).name = r.name
    BY <2>2 DEF ExternalMark, Marked
  <2>4. \A name : QueryOk(name) => QueryOk(name)'
    BY <2>3 DEF QueryOk, ByName
  <2> QED
    BY <2>1, <2>4, RowsStep DEF DbStep
<1> QED
  BY <1>1, <1>2 DEF DbStep

\* and a restart, which loses the sessions.
LEMMA RestartMInv ==
  ASSUME MInv, Restart
  PROVE  MInv'
<1>1. DbInv'
  BY CrashDbInv DEF Restart, MInv
<1>2. SInv'
  BY DEF Restart, MInv, SInv, SessionTypeOK, OneSessionPerUser, TokensDistinct, Aging
<1>3. OwnersKnown' /\ KnownLifetimes'
  BY DEF Restart, OwnersKnown, KnownLifetimes
<1> QED
  BY <1>1, <1>2, <1>3 DEF MInv

\* So does every step.
LEMMA NextMInv == MInv /\ [Next]_vars => MInv'
<1> SUFFICES ASSUME MInv, [Next]_vars PROVE MInv'
  OBVIOUS
<1> DEFINE Idle == UNCHANGED <<dbVars, sessionVars>>
<1>1. ASSUME Idle PROVE MInv'
  BY <1>1 DEF MInv, DbInv, DbTypeOK, KeysUnique, CreatedIsEmpty, SInv, SessionTypeOK,
     OneSessionPerUser, TokensDistinct, Aging, OwnersKnown, KnownLifetimes, QueryOk, ByName,
     dbVars, sessionVars
<1>2. CASE Request
  <2>1. ASSUME NEW user \in Users, NEW pass \in Passwords, NEW v \in WireAlive,
               LoginProc(user, pass, v)
        PROVE  MInv'
    BY <2>1, LoginMInv
  <2>2. ASSUME NEW user \in Users, NEW pass \in Passwords, NEW perm \in Perms,
               RegisterProc(user, pass, perm)
        PROVE  MInv'
    BY <2>2, RegisterMInv
  <2>3. ASSUME NEW t \in Tokens, LogoutProc(t) PROVE MInv'
    BY <2>3, LogoutMInv
  <2>4. ASSUME NEW t \in Tokens, VerifyProc(t) PROVE MInv'
    BY <1>1, <2>4 DEF VerifyProc
  <2>5. CASE UnknownProc
    BY <1>1, <2>5 DEF UnknownProc
  <2> QED
    BY <1>2, <2>1, <2>2, <2>3, <2>4, <2>5 DEF Request
<1>3. CASE Tick
  BY <1>3, TickMInv
<1>4. CASE DbStep
  BY <1>4, DbStepMInv
<1>5. CASE Restart
  BY <1>5, RestartMInv
<1>6. CASE UNCHANGED vars
  BY <1>1, <1>6 DEF vars
<1> QED
  BY <1>2, <1>3, <1>4, <1>5, <1>6 DEF Next

\* It always holds.
LEMMA MidwareInvariance == Spec => []MInv
BY InitMInv, NextMInv, PTL DEF Spec

-----------------------------------------------------------------------------
(* The results.                                                            *)

\* Crashes, registrations and marks notwithstanding, both tables keep their
\* keys, and every session has its user in the user table.
THEOREM TablesAgree == Spec => [](KeysUnique /\ SessionsKeyed /\ OwnersKnown)
<1>1. MInv => KeysUnique /\ SessionsKeyed /\ OwnersKnown
  BY DEF MInv, DbInv, SInv, SessionsKeyed
<1> QED
  BY <1>1, MidwareInvariance, PTL

\* While no request asks for a lifetime of 2^63 or more, seven days after the
\* last login is the end of every session.
THEOREM SevenDays == WireNonNegative => (Spec => []LifetimeBounded)
<1> SUFFICES ASSUME WireNonNegative PROVE Spec => []LifetimeBounded
  OBVIOUS
<1>1. MInv => LifetimeBounded
  <2> SUFFICES ASSUME MInv, NEW s \in sessions PROVE s.age <= MaxAlive
    BY DEF LifetimeBounded
  <2>1. s.alive \in Int /\ s.now \in Int /\ s.age \in Int
    BY AliveTimesAssumption, MaxAgeAssumption DEF MInv, SInv, SessionTypeOK, Session
  <2>2. s.alive <= MaxAlive /\ s.alive >= 0
    BY DEF MInv, KnownLifetimes
  <2>3. s.now >= 0 /\ s.age + s.now = s.alive
    BY <2>2 DEF MInv, SInv, Aging
  <2> QED
    BY <2>1, <2>2, <2>3
<1> QED
  BY <1>1, MidwareInvariance, PTL

\* Whatever the requests, ticks and crashes, clients see tokens as TokenLease
\* describes them.
THEOREM MidwareRefinesTokenLease == Spec => ImplementsTokenLease
<1>1. Init => Lease!Init
  BY DEF Init, SessionInit, Lease!Init, HeldBy, HasSession
<1>2. ASSUME MInv, MInv', [Next]_vars PROVE [Lease!Next]_(Lease!vars)
  <2> SInv /\ SInv'
    BY <1>2 DEF MInv
  <2>1. ASSUME [SessionNext]_sessionVars PROVE [Lease!Next]_(Lease!vars)
    BY <2>1, StepRefines
  <2>2. CASE Restart
    BY <2>2, KeepingStep DEF Restart, Lease!Next
  <2>3. ASSUME NEW user \in Users, NEW pass \in Passwords, NEW v \in WireAlive,
               LoginProc(user, pass, v)
        PROVE  [SessionNext]_sessionVars
    BY <2>3, AcceptedLifetime DEF LoginProc, LoginAccepted, LoginRefused, SessionNext, Login
  <2>4. ASSUME NEW t \in Tokens, LogoutProc(t) PROVE [SessionNext]_sessionVars
    BY <2>4 DEF LogoutProc, SessionNext
  <2>5. CASE Tick
    BY <2>1, <2>5 DEF Tick, SessionNext
  <2>6. CASE Request
    <3>1. [SessionNext]_sessionVars
      BY <2>3, <2>4, <2>6 DEF Request, RegisterProc, VerifyProc, UnknownProc
    <3> QED
      BY <2>1, <3>1
  <2>7. CASE DbStep \/ UNCHANGED vars
    BY <2>1, <2>7 DEF DbStep, vars
  <2> QED
    BY <1>2, <2>2, <2>5, <2>6, <2>7 DEF Next
<1> QED
  BY <1>1, <1>2, MidwareInvariance, PTL DEF Spec, ImplementsTokenLease, Lease!Spec

-----------------------------------------------------------------------------
(* What a response says.                                                   *)

\* A session is there under the token add_session has returned.
LEMMA AddedIsThere ==
  ASSUME NEW user, NEW a, NEW t, AddSession(user, a, t)
  PROVE  \E s \in sessions' : s.user = user /\ s.token = t
<1>1. Started(user, t, a).user = user /\ Started(user, t, a).token = t
  BY DEF Started
<1> QED
  BY <1>1 DEF AddSession, Refresh, Create

\* sdk_user_verify says R_CODE_OK of a row that passes all its checks.
LEMMA VerifiedRow ==
  ASSUME NEW user, NEW pass, SdkUserVerify(user, pass) = "R_CODE_OK"
  PROVE  \E r \in ByName(user) :
           r.pass = pass /\ r.valid /\ ~r.black /\ r.perm # "U_PERMISSION_INVALID"
<1>1. QueryOk(user) /\ VerifyRow(Query(user), pass) = "R_CODE_OK"
  BY DEF SdkUserVerify
<1>2. Query(user) \in ByName(user)
  BY <1>1 DEF QueryOk, Query
<1> QED
  BY <1>1, <1>2 DEF VerifyRow

\* Only an accepted login is answered as one.
LEMMA NextLoginIsOwn ==
  ASSUME LoginIsOwn, [Next]_vars PROVE LoginIsOwn'
<1>1. ASSUME NEW user \in Users, NEW pass \in Passwords, NEW v \in WireAlive,
             LoginProc(user, pass, v)
      PROVE  LoginIsOwn'
  <2>1. CASE LoginAccepted(user, pass, v)
    <3>1. PICK t \in Tokens :
            /\ AddSession(user, ToTimeT(v), t)
            /\ answer' = [call |-> "login", name |-> user, code |-> "R_CODE_OK",
                          pass |-> pass, token |-> t]
      BY <2>1 DEF LoginAccepted
    <3>2. answer'.name = user /\ answer'.pass = pass /\ answer'.token = t
      BY <3>1
    <3>3. \E s \in sessions' : s.user = user /\ s.token = t
      BY <3>1, AddedIsThere
    <3>4. \E r \in ByName(user) :
            r.pass = pass /\ r.valid /\ ~r.black /\ r.perm # "U_PERMISSION_INVALID"
      BY <2>1, VerifiedRow DEF LoginAccepted
    <3>5. rows' = rows
      BY <1>1 DEF LoginProc, dbVars
    <3> QED
      BY <3>2, <3>3, <3>4, <3>5 DEF LoginIsOwn, ByName
  <2>2. CASE \E code \in Codes : LoginRefused(user, pass, v, code)
    BY <2>2 DEF LoginRefused, LoginIsOwn
  <2> QED
    BY <1>1, <2>1, <2>2 DEF LoginProc
<1>2. ASSUME answer'.call # "login" PROVE LoginIsOwn'
  BY <1>2 DEF LoginIsOwn
<1>3. ASSUME NEW user, NEW pass, NEW perm, RegisterProc(user, pass, perm) PROVE LoginIsOwn'
  BY <1>2, <1>3 DEF RegisterProc
<1>4. ASSUME NEW t, LogoutProc(t) \/ VerifyProc(t) PROVE LoginIsOwn'
  BY <1>2, <1>4 DEF LogoutProc, VerifyProc
<1>5. CASE UnknownProc \/ Tick \/ DbStep \/ Restart
  BY <1>2, <1>5 DEF UnknownProc, Tick, DbStep, Restart, NoAnswer
<1>6. CASE UNCHANGED vars
  BY <1>6 DEF vars, dbVars, sessionVars, LoginIsOwn, ByName
<1> QED
  BY <1>1, <1>3, <1>4, <1>5, <1>6 DEF Next, Request

\* Whoever is told that the login succeeded has given the password of a user in
\* good standing, and holds a live token of that user.  (_login_proc,
\* sdk_user_verify, add_session)
THEOREM LoginsAreOwn == Spec => []LoginIsOwn
<1>1. Init => LoginIsOwn
  BY DEF Init, UserInit, NoAnswer, LoginIsOwn
<1> QED
  BY <1>1, NextLoginIsOwn, PTL DEF Spec

\* Whatever is answered with another code than R_CODE_OK has changed neither
\* table.  (the early returns of the handlers, add_user after user_exist)
THEOREM FailuresAreClean == Spec => FailureIsClean
<1> DEFINE Clean == answer' # NoAnswer /\ answer'.code # "R_CODE_OK" => UNCHANGED <<rows, sessions>>
<1>1. ASSUME [Next]_vars PROVE [Clean]_vars
  <2>1. ASSUME NEW user \in Users, NEW pass \in Passwords, NEW v \in WireAlive,
               LoginProc(user, pass, v)
        PROVE  Clean
    BY <2>1 DEF LoginProc, LoginAccepted, LoginRefused, dbVars, sessionVars
  <2>2. ASSUME NEW user \in Users, NEW pass \in Passwords, NEW perm \in Perms,
               RegisterProc(user, pass, perm)
        PROVE  Clean
    <3>1. UNCHANGED sessions
      BY <2>2 DEF RegisterProc, sessionVars
    <3>2. PICK code \in Codes :
            /\ \/ SdkUserExist(user) /\ code = "R_CODE_USER_EXIST" /\ UNCHANGED rows
               \/ ~SdkUserExist(user) /\ SdkUserAdd(user, pass, perm, code)
            /\ answer' = [call |-> "register", name |-> user, pass |-> pass, perm |-> perm,
                          code |-> code]
      BY <2>2 DEF RegisterProc
    <3>3. code # "R_CODE_OK" => UNCHANGED rows
      BY <3>2 DEF SdkUserAdd, AddUser
    <3> QED
      BY <3>1, <3>2, <3>3
  <2>3. ASSUME NEW t \in Tokens, LogoutProc(t) \/ VerifyProc(t) PROVE Clean
    BY <2>3 DEF LogoutProc, VerifyProc, dbVars, sessionVars
  <2>4. CASE UnknownProc
    BY <2>4 DEF UnknownProc, dbVars, sessionVars
  <2>5. CASE Tick \/ DbStep \/ Restart
    BY <2>5 DEF Tick, DbStep, Restart
  <2> QED
    BY <1>1, <2>1, <2>2, <2>3, <2>4, <2>5 DEF Next, Request
<1> QED
  BY <1>1, PTL DEF Spec, FailureIsClean

\* Nothing that follows a registration, another one of the name, a crash or the
\* mark of another program, changes the password or the permission of a user.
\* (sdk_user_add, add_user, init)
THEOREM AccountsAreKept == Spec => AccountsKept
<1> DEFINE Kept == \A r \in rows : \E q \in rows' : q.name = r.name /\ q.pass = r.pass /\ q.perm = r.perm
<1>1. ASSUME [Next]_vars PROVE [Kept]_vars
  <2>1. ASSUME rows \subseteq rows' PROVE Kept
    BY <2>1
  <2>2. ASSUME NEW user \in Users, NEW pass \in Passwords, NEW v \in WireAlive,
               LoginProc(user, pass, v)
        PROVE  Kept
    BY <2>1, <2>2 DEF LoginProc, dbVars
  <2>3. ASSUME NEW user \in Users, NEW pass \in Passwords, NEW perm \in Perms,
               RegisterProc(user, pass, perm)
        PROVE  Kept
    BY <2>1, <2>3 DEF RegisterProc, SdkUserAdd, AddUser
  <2>4. ASSUME NEW t \in Tokens, LogoutProc(t) \/ VerifyProc(t) PROVE Kept
    BY <2>1, <2>4 DEF LogoutProc, VerifyProc, dbVars
  <2>5. CASE UnknownProc \/ Tick \/ Restart \/ DbInitStep
    BY <2>1, <2>5 DEF UnknownProc, Tick, Restart, Crash, dbVars, DbInitStep, Open, OpenFails,
                      TableFound, CreateTable, InsertAdmin
  <2>6. CASE Mark
    <3>1. PICK r \in rows, valid \in BOOLEAN, black \in BOOLEAN : ExternalMark(r, valid, black)
      BY <2>6 DEF Mark
    <3>2. /\ rows' = (rows \ {r}) \cup {Marked(r, valid, black)}
          /\ Marked(r, valid, black).name = r.name
          /\ Marked(r, valid, black).pass = r.pass /\ Marked(r, valid, black).perm = r.perm
      BY <3>1 DEF ExternalMark, Marked
    <3> QED
      BY <3>2
  <2> QED
    BY <1>1, <2>2, <2>3, <2>4, <2>5, <2>6 DEF Next, Request, DbStep
<1> QED
  BY <1>1, PTL DEF Spec, AccountsKept
=============================================================================
