------------------------------- MODULE SdkUser -------------------------------
(***************************************************************************)
(* The user operations on top of the table (sdk_user.cpp).  Each of them   *)
(* makes its queries and changes from the event-loop thread, in one go.    *)
(* answer is what the last call returned.                                  *)
(***************************************************************************)
EXTENDS SdkUserDb

VARIABLE answer

userVars == <<dbVars, answer>>

\* The codes of ContentResultE.
Codes == {"R_CODE_OK", "R_CODE_ERROR", "R_CODE_USER_EXIST", "R_CODE_USER_NOT_EXIST",
          "R_CODE_USER_IN_BLACK_LIST", "R_CODE_USER_NO_PERMISSION", "R_CODE_USER_PASS_ERROR",
          "R_CODE_USER_ALIVE_TIME_TOOLONG"}

VerifyRow_SkipsBlack(r, password) ==   \* mutant
  IF r.perm = "U_PERMISSION_INVALID" THEN "R_CODE_USER_NO_PERMISSION"
  ELSE IF password # r.pass THEN "R_CODE_USER_PASS_ERROR"
  ELSE IF ~r.valid THEN "R_CODE_USER_NOT_EXIST"
  ELSE "R_CODE_OK"

\* The checks of sdk_user_verify on the row found, in their order.
VerifyRow(r, password) ==
  IF r.perm = "U_PERMISSION_INVALID" THEN "R_CODE_USER_NO_PERMISSION"
  ELSE IF password # r.pass THEN "R_CODE_USER_PASS_ERROR"
  ELSE IF ~r.valid THEN "R_CODE_USER_NOT_EXIST"
  ELSE IF r.black THEN "R_CODE_USER_IN_BLACK_LIST"
  ELSE "R_CODE_OK"

SdkUserVerify(name, password) ==
  IF QueryOk(name) THEN VerifyRow(Query(name), password) ELSE "R_CODE_USER_NOT_EXIST"

SdkUserExist(name) == QueryOk(name)

\* sdk_user_add: the nick name is the name.  A refusal by add_user for any
\* reason is R_CODE_ERROR.
SdkUserAdd(name, pass, perm, code) ==
  \/ /\ QueryOk(name)
     /\ code = "R_CODE_USER_EXIST"
     /\ UNCHANGED rows
  \/ /\ ~QueryOk(name)
     /\ \E err \in Errors :
          /\ AddUser(name, name, pass, perm, err)
          /\ code = IF err = "e_sdk_user_db_ok" THEN "R_CODE_OK" ELSE "R_CODE_ERROR"

\* sdk_user_del: having found the user, the code calls add_user.
SdkUserDel(name, pass, perm, code) ==
  \/ /\ ~QueryOk(name)
     /\ code = "R_CODE_USER_NOT_EXIST"
     /\ UNCHANGED rows
  \/ /\ QueryOk(name)
     /\ \E err \in Errors :
          /\ AddUser(name, name, pass, perm, err)
          /\ code = IF err = "e_sdk_user_db_ok" THEN "R_CODE_OK" ELSE "R_CODE_ERROR"

\* sdk_user_permission: the test is inverted, so that an unknown user's
\* permission is read from a SdkDbUser nobody filled in.
SdkUserPermission(name, perm) ==
  IF QueryOk(name) THEN perm = "U_PERMISSION_INVALID" ELSE perm \in Perms

-----------------------------------------------------------------------------
NoAnswer == [call |-> "none"]

UserInit == DbInit /\ answer = NoAnswer

Answers(call, name, code) == answer' = [call |-> call, name |-> name, code |-> code]

UserCall(name) ==
  /\ db = "ready"
  /\ \E pass \in Passwords, perm \in Perms, code \in Codes :
       \/ /\ code = SdkUserVerify(name, pass)
          /\ answer' = [call |-> "verify", name |-> name, pass |-> pass, code |-> code]
          /\ UNCHANGED rows
       \/ SdkUserAdd(name, pass, perm, code) /\ Answers("add", name, code)
       \/ SdkUserDel(name, pass, perm, code) /\ Answers("del", name, code)
       \/ /\ SdkUserPermission(name, perm)
          /\ answer' = [call |-> "permission", name |-> name, perm |-> perm]
          /\ UNCHANGED rows
  /\ UNCHANGED <<table, db>>

UserDbStep == (DbInitStep \/ Crash \/ Mark) /\ answer' = NoAnswer

UserNext == UserDbStep \/ \E name \in Names : UserCall(name)

UserSpec == UserInit /\ [][UserNext]_userVars

-----------------------------------------------------------------------------
\* sdk_user.cpp:106 "管理员就一个": there is one administrator, so the table
\* that init() has prepared holds it; sdk_user_manage.cpp:35 asks for it there.
AdminPresent == db = "ready" => QueryOk(AdminName)
=============================================================================
