--------------------------------- MODULE InSdk ---------------------------------
(***************************************************************************)
(* The messages of in_sdk_body.proto and in_sdk.proto, a whole request or  *)
(* response, as in_sdk_body.pb and in_sdk.pb have them.  The operators are *)
(* those of InSdkHeader.                                                   *)
(***************************************************************************)
EXTENDS InSdkHeader, InSdkFooter, InSdkBodyUser, InSdkBodyAppmodule

\* Nobody knows of a literal that it is a string.
ASSUME NewTexts == {""} \subseteq STRING

\* Of the two lists at most one is set: _oneof_case_ says which.
Content ==
  {c \in [magic : Nat, app_module_list : Pointer(AppModuleCoutInfoList),
          user_list : Pointer(UserList)] :
     c.app_module_list = << >> \/ c.user_list = << >>}

NewContent == [magic |-> 0, app_module_list |-> << >>, user_list |-> << >>]

TakeContent_Both(m, field) ==   \* mutant: clear_ContentOneof() forgotten
  CASE field.number = 1 -> [m EXCEPT !.magic = field.value]
    [] field.number = 2 ->
         [m EXCEPT !.app_module_list =
            TakeMessage(@, field, ParseAppModuleCoutInfoList, NewAppModuleCoutInfoList)]
    [] field.number = 3 ->
         [m EXCEPT !.user_list = TakeMessage(@, field, ParseUserList, NewUserList)]
    [] OTHER -> m

\* _internal_mutable_app_module_list() clears a user_list, and the reverse.
TakeContent(m, field) ==
  CASE field.number = 1 -> [m EXCEPT !.magic = field.value]
    [] field.number = 2 ->
         [m EXCEPT !.user_list = << >>, !.app_module_list =
            TakeMessage(@, field, ParseAppModuleCoutInfoList, NewAppModuleCoutInfoList)]
    [] field.number = 3 ->
         [m EXCEPT !.app_module_list = << >>,
                   !.user_list = TakeMessage(@, field, ParseUserList, NewUserList)]
    [] OTHER -> m

ParseContent(m, fields) == TakeFields(TakeContent, m, fields)

SerializeContent(m) ==
  PutScalar(1, m.magic, 0)
  \o PutMessage(2, m.app_module_list, SerializeAppModuleCoutInfoList)
  \o PutMessage(3, m.user_list, SerializeUserList)

NulInContent(fields) ==
  \/ \E value \in Values(fields, 2) : value = << >> \/ NulInAppModuleCoutInfoList(value)
  \/ \E value \in Values(fields, 3) : value = << >> \/ NulInUserList(value)

MergeContent(to, from) ==
  LET keepsModules == from.user_list = << >>
      keepsUsers == from.app_module_list = << >>
  IN  [magic |-> MergeScalar(to.magic, from.magic, 0),
       app_module_list |->
         IF keepsModules
         THEN MergeMessage(to.app_module_list, from.app_module_list,
                           MergeAppModuleCoutInfoList, NewAppModuleCoutInfoList)
         ELSE << >>,
       user_list |->
         IF keepsUsers THEN MergeMessage(to.user_list, from.user_list, MergeUserList, NewUserList)
         ELSE << >>]

-----------------------------------------------------------------------------
Body ==
  [user_session : Pointer(UserSessionMsg), url : STRING, method : Nat, content : Pointer(Content)]

NewBody == [user_session |-> << >>, url |-> "", method |-> 0, content |-> << >>]

\* Number 4 is not used.
TakeBody(m, field) ==
  CASE field.number = 1 ->
         [m EXCEPT !.user_session =
            TakeMessage(@, field, ParseUserSessionMsg, NewUserSessionMsg)]
    [] field.number = 2 -> [m EXCEPT !.url = field.value]
    [] field.number = 3 -> [m EXCEPT !.method = field.value]
    [] field.number = 5 -> [m EXCEPT !.content = TakeMessage(@, field, ParseContent, NewContent)]
    [] OTHER -> m

ParseBody(m, fields) == TakeFields(TakeBody, m, fields)

SerializeBody(m) ==
  PutMessage(1, m.user_session, SerializeUserSessionMsg) \o PutScalar(2, m.url, "")
  \o PutScalar(3, m.method, 0) \o PutMessage(5, m.content, SerializeContent)

NulInBody(fields) ==
  \/ \E value \in Values(fields, 1) : value = << >> \/ NulInUserSessionMsg(value)
  \/ \E value \in Values(fields, 5) : value = << >> \/ NulInContent(value)

MergeBody_Replaces(to, from) ==   \* mutant: a sub-message replaces the one there
  [MergeScalars(to, from, NewBody) EXCEPT
     !.user_session = IF from.user_session = << >> THEN to.user_session ELSE from.user_session,
     !.content = IF from.content = << >> THEN to.content ELSE from.content]

MergeBody(to, from) ==
  [MergeScalars(to, from, NewBody) EXCEPT
     !.user_session = MergeMessage(to.user_session, from.user_session,
                                   MergeUserSessionMsg, NewUserSessionMsg),
     !.content = MergeMessage(to.content, from.content, MergeContent, NewContent)]

-----------------------------------------------------------------------------
Sdk == [header : Pointer(Header), body : Pointer(Body), footer : Pointer(Footer)]

NewSdk == [header |-> << >>, body |-> << >>, footer |-> << >>]

TakeSdk(m, field) ==
  CASE field.number = 1 -> [m EXCEPT !.header = TakeMessage(@, field, ParseHeader, NewHeader)]
    [] field.number = 2 -> [m EXCEPT !.body = TakeMessage(@, field, ParseBody, NewBody)]
    [] field.number = 3 -> [m EXCEPT !.footer = TakeMessage(@, field, ParseFooter, NewFooter)]
    [] OTHER -> m

ParseSdk(m, fields) == TakeFields(TakeSdk, m, fields)

SerializeSdk(m) ==
  PutMessage(1, m.header, SerializeHeader) \o PutMessage(2, m.body, SerializeBody)
  \o PutMessage(3, m.footer, SerializeFooter)

NulInSdk(fields) ==
  \/ \E value \in Values(fields, 1) : value = << >> \/ NulInHeader(value)
  \/ \E value \in Values(fields, 2) : value = << >> \/ NulInBody(value)
  \/ \E value \in Values(fields, 3) : value = << >> \/ NulInFooter(value)

MergeSdk(to, from) ==
  [header |-> MergeMessage(to.header, from.header, MergeHeader, NewHeader),
   body |-> MergeMessage(to.body, from.body, MergeBody, NewBody),
   footer |-> MergeMessage(to.footer, from.footer, MergeFooter, NewFooter)]
=============================================================================
