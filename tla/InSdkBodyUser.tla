----------------------------- MODULE InSdkBodyUser -----------------------------
(***************************************************************************)
(* The messages of in_sdk_body_user.proto, users and their sessions, as    *)
(* in_sdk_body_user.pb has them.  The operators are those of InSdkHeader.  *)
(***************************************************************************)
EXTENDS ProtoWire

UserBaseInfo ==
  [user_name : STRING, user_pass : STRING, permission : Nat, email : STRING, phone : STRING]
NewUserBaseInfo ==
  [user_name |-> "", user_pass |-> "", permission |-> 0, email |-> "", phone |-> ""]
UserBaseInfoFields == <<"user_name", "user_pass", "permission", "email", "phone">>
ParseUserBaseInfo(m, fields) == TakeScalars(m, fields, UserBaseInfoFields)
SerializeUserBaseInfo(m) ==
  PutScalar(1, m.user_name, "") \o PutScalar(2, m.user_pass, "")
  \o PutScalar(3, m.permission, 0) \o PutScalar(4, m.email, "") \o PutScalar(5, m.phone, "")
MergeUserBaseInfo(to, from) == MergeScalars(to, from, NewUserBaseInfo)

UserAllInfo ==
  [user_base_info : Pointer(UserBaseInfo), in_blacklist : BOOLEAN, valid : BOOLEAN]
NewUserAllInfo == [user_base_info |-> << >>, in_blacklist |-> FALSE, valid |-> FALSE]
UserAllInfoFields == <<"user_base_info", "in_blacklist", "valid">>

TakeUserAllInfo(m, field) ==
  IF field.number = 1
  THEN [m EXCEPT !.user_base_info = TakeMessage(@, field, ParseUserBaseInfo, NewUserBaseInfo)]
  ELSE TakeScalar(m, field, UserAllInfoFields)

ParseUserAllInfo(m, fields) == TakeFields(TakeUserAllInfo, m, fields)
SerializeUserAllInfo(m) ==
  PutMessage(1, m.user_base_info, SerializeUserBaseInfo)
  \o PutScalar(2, m.in_blacklist, FALSE) \o PutScalar(3, m.valid, FALSE)
NulInUserAllInfo(fields) == << >> \in Values(fields, 1)
MergeUserAllInfo(to, from) ==
  [MergeScalars(to, from, NewUserAllInfo) EXCEPT
     !.user_base_info =
        MergeMessage(to.user_base_info, from.user_base_info, MergeUserBaseInfo, NewUserBaseInfo)]

UserList == [user_info : Seq(UserAllInfo)]
NewUserList == [user_info |-> << >>]

TakeUserList_Last(m, field) ==   \* mutant: an element takes the place of those before
  IF field.number = 1 THEN [m EXCEPT !.user_info = <<ParseUserAllInfo(NewUserAllInfo, field.value)>>]
  ELSE m

TakeUserList(m, field) ==
  IF field.number = 1
  THEN [m EXCEPT !.user_info = TakeRepeated(@, field, ParseUserAllInfo, NewUserAllInfo)] ELSE m

ParseUserList(m, fields) == TakeFields(TakeUserList, m, fields)
SerializeUserList(m) == PutRepeated(1, m.user_info, SerializeUserAllInfo)
NulInUserList(fields) == \E row \in Values(fields, 1) : row = << >> \/ NulInUserAllInfo(row)
MergeUserList(to, from) == [user_info |-> to.user_info \o from.user_info]

UserSessionMsg ==
  [user_type : Nat, user : Pointer(UserBaseInfo), token : STRING, alive_time : Nat]
NewUserSessionMsg == [user_type |-> 0, user |-> << >>, token |-> "", alive_time |-> 0]
UserSessionMsgFields == <<"user_type", "user", "token", "alive_time">>

TakeUserSessionMsg(m, field) ==
  IF field.number = 2
  THEN [m EXCEPT !.user = TakeMessage(@, field, ParseUserBaseInfo, NewUserBaseInfo)]
  ELSE TakeScalar(m, field, UserSessionMsgFields)

ParseUserSessionMsg(m, fields) == TakeFields(TakeUserSessionMsg, m, fields)
SerializeUserSessionMsg(m) ==
  PutScalar(1, m.user_type, 0) \o PutMessage(2, m.user, SerializeUserBaseInfo)
  \o PutScalar(3, m.token, "") \o PutScalar(4, m.alive_time, 0)
NulInUserSessionMsg(fields) == << >> \in Values(fields, 2)
MergeUserSessionMsg(to, from) ==
  [MergeScalars(to, from, NewUserSessionMsg) EXCEPT
     !.user = MergeMessage(to.user, from.user, MergeUserBaseInfo, NewUserBaseInfo)]
=============================================================================
