--------------------------- MODULE SdkUserMidware ---------------------------
(***************************************************************************)
(* The user middleware (sdk_user_midware.cpp): it serves the login,        *)
(* logout, verification and registration that every request starts with,   *)
(* from the user table and the session table, which it creates on the      *)
(* first request.  A request is served by the event-loop thread in one go, *)
(* as is the timer's update; the process may crash between any two steps,  *)
(* also those of the table's init(), and then loses the sessions only.     *)
(*                                                                         *)
(* answer is the response to the request just served.                      *)
(***************************************************************************)
EXTENDS SdkUser, SdkSession

CONSTANTS
  WireAlive,   \* values of the uint64 field alive_time of requests
  Half,        \* 2^63: a uint64 of Half or more is a negative time_t
  MaxAlive     \* max_alive_time, seven days

ASSUME UsersAssumption == Users \subseteq Names
ASSUME WireAssumption ==
  /\ Half \in Nat /\ MaxAlive \in Nat
  /\ MaxAlive < Half /\ MaxAlive < MaxAge
  /\ WireAlive \subseteq 0 .. 2 * Half - 1

\* session.alive_time_ = user_info.alive_time()
ToTimeT(v) == IF v < Half THEN v ELSE v - 2 * Half

ASSUME AcceptedAliveAssumption ==
  \A v \in WireAlive : ToTimeT(v) <= MaxAlive => ToTimeT(v) \in AliveTimes

vars == <<dbVars, sessionVars, answer>>

Init == UserInit /\ SessionInit

\* sdk_user_init has run: the middleware has its three objects.
Initialised == db \in {"ready", "broken"}

-----------------------------------------------------------------------------
(* The handlers.  A failed open leaves no database handle: a handler that  *)
(* needs it then ends the process, which Restart covers.                   *)

TooLong_None(v) == FALSE              \* mutant

\* if (max_alive_time < session.alive_time_)
TooLong(v) == ToTimeT(v) > MaxAlive

LoginRefused_AddsFirst(user, pass, v, code) ==   \* mutant: the lifetime is checked last
  /\ SdkUserVerify(user, pass) = "R_CODE_OK"
  /\ TooLong(v)
  /\ code = "R_CODE_USER_ALIVE_TIME_TOOLONG"
  /\ answer' = [call |-> "login", name |-> user, code |-> code]
  /\ \E t \in Tokens : AddSession(user, ToTimeT(v), t)

LoginRefused(user, pass, v, code) ==
  /\ code = LET checked == SdkUserVerify(user, pass)
            IN  IF checked # "R_CODE_OK" \/ ~TooLong(v) THEN checked
                ELSE "R_CODE_USER_ALIVE_TIME_TOOLONG"
  /\ code # "R_CODE_OK"
  /\ answer' = [call |-> "login", name |-> user, code |-> code]
  /\ UNCHANGED sessionVars

LoginAccepted_AnyPass(user, pass, v) ==   \* mutant: the user need only exist
  /\ SdkUserExist(user)
  /\ ~TooLong(v)
  /\ \E t \in Tokens :
       /\ AddSession(user, ToTimeT(v), t)
       /\ answer' = [call |-> "login", name |-> user, code |-> "R_CODE_OK",
                     pass |-> pass, token |-> t]

LoginAccepted_Unchecked(user, pass, v) ==   \* mutant: without sdk_user_verify
  /\ ~TooLong(v)
  /\ \E t \in Tokens :
       /\ AddSession(user, ToTimeT(v), t)
       /\ answer' = [call |-> "login", name |-> user, code |-> "R_CODE_OK",
                     pass |-> pass, token |-> t]

LoginAccepted(user, pass, v) ==
  /\ SdkUserVerify(user, pass) = "R_CODE_OK"
  /\ ~TooLong(v)
  /\ \E t \in Tokens :
       /\ AddSession(user, ToTimeT(v), t)
       /\ answer' = [call |-> "login", name |-> user, code |-> "R_CODE_OK",
                     pass |-> pass, token |-> t]

\* _login_proc
LoginProc(user, pass, v) ==
  /\ db = "ready"
  /\ LoginAccepted(user, pass, v) \/ \E code \in Codes : LoginRefused(user, pass, v, code)
  /\ UNCHANGED dbVars

\* _logout_proc: the token decides, whoever sends it.
LogoutProc(t) ==
  /\ Initialised
  /\ DelSession(t)
  /\ answer' = [call |-> "logout", token |-> t, code |-> "R_CODE_OK"]
  /\ UNCHANGED dbVars

\* _verify_proc
VerifyProc(t) ==
  /\ Initialised
  /\ answer' = [call |-> "verify", token |-> t,
                code |-> IF VerifyToken(t) THEN "R_CODE_OK" ELSE "R_CODE_ERROR"]
  /\ UNCHANGED <<dbVars, sessionVars>>

RegisterProc_Overwrites(user, pass, perm) ==   \* mutant: registering again is an update
  /\ db = "ready"
  /\ rows' = (rows \ ByName(user)) \cup {NewRow(user, user, pass, perm)}
  /\ answer' = [call |-> "register", name |-> user, pass |-> pass, perm |-> perm,
                code |-> "R_CODE_OK"]
  /\ UNCHANGED <<table, db, sessionVars>>

\* _user_register_proc
RegisterProc(user, pass, perm) ==
  /\ db = "ready"
  /\ \E code \in Codes :
       /\ \/ SdkUserExist(user) /\ code = "R_CODE_USER_EXIST" /\ UNCHANGED rows
          \/ ~SdkUserExist(user) /\ SdkUserAdd(user, pass, perm, code)
       /\ answer' = [call |-> "register", name |-> user, pass |-> pass, perm |-> perm, code |-> code]
  /\ UNCHANGED <<table, db, sessionVars>>

\* A user_type no handler is listed for: _find_user_proc returns nullptr.
UnknownProc ==
  /\ Initialised
  /\ answer' = [call |-> "unknown", code |-> "R_CODE_ERROR"]
  /\ UNCHANGED <<dbVars, sessionVars>>

\* sdk_user_midware: what it returns, and the content result, is answer.code.
Request ==
  \/ \E user \in Users, pass \in Passwords :
       \/ \E v \in WireAlive : LoginProc(user, pass, v)
       \/ \E perm \in Perms : RegisterProc(user, pass, perm)
  \/ \E t \in Tokens : LogoutProc(t) \/ VerifyProc(t)
  \/ UnknownProc

-----------------------------------------------------------------------------
Tick ==
  /\ Initialised
  /\ Update
  /\ answer' = NoAnswer
  /\ UNCHANGED dbVars

\* sdk_user_init, in the first request, and what other programs do to the table.
DbStep ==
  /\ DbInitStep \/ Mark
  /\ answer' = NoAnswer
  /\ UNCHANGED sessionVars

Restart ==
  /\ Crash
  /\ sessions' = {}
  /\ answer' = NoAnswer
  /\ UNCHANGED issued

Next == Request \/ Tick \/ DbStep \/ Restart

Spec == Init /\ [][Next]_vars

-----------------------------------------------------------------------------
\* Every session belongs to a user of the table, whatever crashes and marks
\* happen between the login and now.  (_login_proc)
OwnersKnown == \A s \in sessions : QueryOk(s.user)

\* A login that is answered R_CODE_OK was given that user's password, by a user
\* with a permission, valid and not black, and its token is live and the user's
\* own.  (_login_proc, sdk_user_verify, add_session)
LoginIsOwn ==
  answer.call = "login" /\ answer.code = "R_CODE_OK" =>
    /\ \E s \in sessions : s.user = answer.name /\ s.token = answer.token
    /\ \E r \in ByName(answer.name) :
         r.pass = answer.pass /\ r.valid /\ ~r.black /\ r.perm # "U_PERMISSION_INVALID"

\* A request answered with anything but R_CODE_OK changed neither table.
\* (the early returns of the handlers, add_user after user_exist)
FailureIsClean ==
  [][answer' # NoAnswer /\ answer'.code # "R_CODE_OK" => UNCHANGED <<rows, sessions>>]_vars

\* An account, once registered, keeps its password and permission over
\* everything that follows, later registrations and crashes included.
\* (sdk_user_add, add_user, init)
AccountsKept ==
  [][\A r \in rows : \E q \in rows' :
       q.name = r.name /\ q.pass = r.pass /\ q.perm = r.perm]_vars

\* sdk_user_midware.cpp:60 "最长存活时间，7天": a session outlives its last login
\* by seven days at most.  (_login_proc, update)
LifetimeBounded == \A s \in sessions : s.age <= MaxAlive
=============================================================================
