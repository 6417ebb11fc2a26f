---------------------------- MODULE MCSdkExchange ----------------------------
(* Instance of SdkExchange for TLC. *)
EXTENDS SdkExchange

Index == <<"/", "index">>
Index2 == <<"/", "index", "2">>

\* The router of sdk_router.cpp, one that comes in its way, and a tree whose
\* inner nodes support no method.
MCDeclared ==
  <<Node(Index2, "index2", {GET}, << >>),
    Node(Index, "other", {POST}, <<Node(<<"2">>, "second", {GET}, << >>)>>),
    Node(<<"/">>, NoFun, {},
         <<Node(<<"index">>, NoFun, {}, <<Node(<<"2">>, "deep", {POST}, << >>)>>)>>)>>

MCQueries == {<< >>, <<"/">>, Index, Index2, Index2 \o <<"2">>}

MCPath == [url \in {"", "/index2", "/a.b"} |->
             CASE url = "" -> << >> [] url = "/index2" -> Index2 [] OTHER -> <<"/a.b">>]

\* A client logs in, changes users, changes a module, asks for a path nobody
\* may, sends an empty body, and a list with an empty row.
User == [NewUserBaseInfo EXCEPT !.user_name = "user", !.user_pass = "pass", !.permission = 3]
Login ==
  [NewBody EXCEPT !.url = "/index2", !.method = GET,
     !.user_session = <<[NewUserSessionMsg EXCEPT !.user = <<User>>, !.alive_time = 1]>>]
Users ==
  [NewBody EXCEPT !.url = "/index2", !.method = PUT,
     !.user_session = <<[NewUserSessionMsg EXCEPT !.user_type = 2, !.token = "t"]>>,
     !.content = <<[NewContent EXCEPT !.magic = 7, !.user_list =
       <<[user_info |-> <<[user_base_info |-> <<User>>, in_blacklist |-> TRUE, valid |-> FALSE],
                          [NewUserAllInfo EXCEPT !.valid = TRUE]>>]>>]>>]
Modules ==
  [NewBody EXCEPT !.method = POST, !.url = "/index2",
     !.user_session = <<[NewUserSessionMsg EXCEPT !.user_type = 2]>>,
     !.content = <<[NewContent EXCEPT !.app_module_list =
       <<[app_modules |-> <<[id |-> 1, run_state |-> 2, base_info |->
            <<[NewAppModuleBaseInfo EXCEPT !.name = "sdk net", !.enable = TRUE]>>]>>]>>]>>]
Forbidden ==
  [NewBody EXCEPT !.url = "/a.b", !.method = 16, !.content = <<[NewContent EXCEPT !.magic = 9]>>,
     !.user_session = <<[NewUserSessionMsg EXCEPT !.user_type = 4, !.token = "t"]>>]

NoUser ==
  [Users EXCEPT !.content = <<[NewContent EXCEPT !.user_list = <<[user_info |-> <<NewUserAllInfo>>]>>]>>]

MCRequests ==
  {[body |-> body, synced |-> TRUE] : body \in {Login, Users, Modules, Forbidden, NewBody, NoUser}}
  \cup {[body |-> Login, synced |-> FALSE]}

\* One that is not enabled, the program's own, and its name a second time.
MCMidwares ==
  <<[name |-> "visitors", enable |-> FALSE], [name |-> UserMidware, enable |-> TRUE],
    [name |-> UserMidware, enable |-> FALSE]>>
=============================================================================
