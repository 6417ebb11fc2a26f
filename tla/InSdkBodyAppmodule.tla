-------------------------- MODULE InSdkBodyAppmodule --------------------------
(***************************************************************************)
(* The messages of in_sdk_body_appmodule.proto, the list of application    *)
(* modules, as in_sdk_body_appmodule.pb has them.  The operators are those *)
(* of InSdkHeader.                                                         *)
(***************************************************************************)
EXTENDS ProtoWire

AppModuleBaseInfo ==
  [name : STRING, type : Nat, identifier : Nat, enable : BOOLEAN, state : Nat, permission : Nat]
NewAppModuleBaseInfo ==
  [name |-> "", type |-> 0, identifier |-> 0, enable |-> FALSE, state |-> 0, permission |-> 0]
AppModuleBaseInfoFields == <<"name", "type", "identifier", "enable", "state", "permission">>
ParseAppModuleBaseInfo(m, fields) == TakeScalars(m, fields, AppModuleBaseInfoFields)
SerializeAppModuleBaseInfo(m) ==
  PutScalar(1, m.name, "") \o PutScalar(2, m.type, 0) \o PutScalar(3, m.identifier, 0)
  \o PutScalar(4, m.enable, FALSE) \o PutScalar(5, m.state, 0) \o PutScalar(6, m.permission, 0)
MergeAppModuleBaseInfo(to, from) == MergeScalars(to, from, NewAppModuleBaseInfo)

AppModuleCoutInfo == [id : Nat, run_state : Nat, base_info : Pointer(AppModuleBaseInfo)]
NewAppModuleCoutInfo == [id |-> 0, run_state |-> 0, base_info |-> << >>]
AppModuleCoutInfoFields == <<"id", "run_state", "base_info">>

TakeAppModuleCoutInfo(m, field) ==
  IF field.number = 3
  THEN [m EXCEPT !.base_info =
          TakeMessage(@, field, ParseAppModuleBaseInfo, NewAppModuleBaseInfo)]
  ELSE TakeScalar(m, field, AppModuleCoutInfoFields)

ParseAppModuleCoutInfo(m, fields) == TakeFields(TakeAppModuleCoutInfo, m, fields)
SerializeAppModuleCoutInfo(m) ==
  PutScalar(1, m.id, 0) \o PutScalar(2, m.run_state, 0)
  \o PutMessage(3, m.base_info, SerializeAppModuleBaseInfo)
NulInAppModuleCoutInfo(fields) == << >> \in Values(fields, 3)
MergeAppModuleCoutInfo(to, from) ==
  [MergeScalars(to, from, NewAppModuleCoutInfo) EXCEPT
     !.base_info =
        MergeMessage(to.base_info, from.base_info, MergeAppModuleBaseInfo, NewAppModuleBaseInfo)]

AppModuleCoutInfoList == [app_modules : Seq(AppModuleCoutInfo)]
NewAppModuleCoutInfoList == [app_modules |-> << >>]

TakeAppModuleCoutInfoList(m, field) ==
  IF field.number = 1
  THEN [m EXCEPT !.app_modules =
          TakeRepeated(@, field, ParseAppModuleCoutInfo, NewAppModuleCoutInfo)]
  ELSE m

ParseAppModuleCoutInfoList(m, fields) == TakeFields(TakeAppModuleCoutInfoList, m, fields)
SerializeAppModuleCoutInfoList(m) == PutRepeated(1, m.app_modules, SerializeAppModuleCoutInfo)
NulInAppModuleCoutInfoList(fields) ==
  \E row \in Values(fields, 1) : row = << >> \/ NulInAppModuleCoutInfo(row)
MergeAppModuleCoutInfoList(to, from) == [app_modules |-> to.app_modules \o from.app_modules]
=============================================================================
