----------------------------- MODULE SdkExchange -----------------------------
(***************************************************************************)
(* A connection with its messages written out: what the client serialises, *)
(* onRead parses (InSdk), sdk_protocol_do checks field by field, the       *)
(* middleware list and the routing tree (SdkRouter) decide on, and the     *)
(* server serialises again.  It implements SdkProtocol, which knows of a   *)
(* message only who sent it and what it asks.                              *)
(***************************************************************************)
EXTENDS SdkRouter, InSdk

CONSTANTS
  Requests,      \* what clients send: a body, and whether the clock is right
  Path,          \* url -> its pieces, as SdkRouter has them
  IllegalUrls,   \* those with a character is_sdk_url_valid forbids
  Midwares,      \* what register_sdk_midwares registers, one after the other
  MaxSent        \* bound: requests a client sends on the connection

VARIABLES
  client, conn, \* as in SdkProtocol
  midwares,      \* midwares_ of the manager
  toRegister,    \* what the main thread has still to register
  wire,          \* the fields sent and not read yet
  asked,         \* history: the messages sent
  answers,       \* the answers sent, as they are on the wire
  ran            \* history: for each answer, whether the handler was called

connVars == <<client, conn, midwares, toRegister, wire, asked, answers, ran>>
vars == <<registered, connVars>>

PUT == 4
DELETE == 8
SdkMagic == 28036591
SdkCurVersion == 20191110
Ipv4 == 1
Tcp == 1
Error == 1
UserMidware == "sdk user midware"

Midware == [name : STRING, enable : BOOLEAN]

ASSUME ExchangeAssumption ==
  /\ Requests \subseteq [body : Body, synced : BOOLEAN]
  /\ \A request \in Requests : request.body.url \in DOMAIN Path
  /\ \A url \in DOMAIN Path : Path[url] \in Seq(STRING)
  /\ Midwares \in Seq(Midware)

\* Of its name the first one registered counts, and that is enabled.
\* (register_sdk_midwares)
ASSUME MidwaresAssumption ==
  \A i \in DOMAIN Midwares :
    Midwares[i].name = UserMidware =>
      \E j \in 1 .. i : Midwares[j] = [name |-> UserMidware, enable |-> TRUE]

\* The texts are strings, which no prover knows of a literal.
ASSUME ExchangeTexts ==
  {"client", "server", "ok", "error", "t", "url not find", UserMidware} \subseteq STRING

\* sdk_interface of the connection, and the time.
Interface == [ip_version |-> Ipv4, trans_protocol |-> Tcp, src_ip |-> "client", src_port |-> 2,
              des_ip |-> "server", des_port |-> 1]
Now == 1

Init ==
  /\ RouterInit
  /\ client \in {"waits", "streams"}
  /\ conn = "open"
  /\ midwares = << >>
  /\ toRegister = Midwares
  /\ wire = << >>
  /\ asked = << >>
  /\ answers = << >>
  /\ ran = << >>

\* main runs after the static initialisers.
Running == Len(registered) = Len(Declared)

-----------------------------------------------------------------------------
(* The client: fills in the whole header; its clock may be ahead.          *)

Message(pack, request) ==
  [NewSdk EXCEPT
     !.header = <<[msg_magic |-> SdkMagic, version |-> SdkCurVersion, pack_id |-> pack,
                   time |-> <<[in_time |-> IF request.synced THEN Now ELSE Now + 1, out_time |-> 0]>>,
                   data_dir |-> 0,
                   host |-> <<[ip_version |-> Ipv4, port |-> 2, ip |-> "client"]>>,
                   dest |-> <<[ip_version |-> Ipv4, port |-> 1, ip |-> "server"]>>,
                   trans_proto |-> Tcp]>>,
     !.body = <<request.body>>]

Send(request) ==
  LET message == Message(Len(asked) + 1, request)
  IN  /\ Running
      /\ conn = "open"
      /\ Len(asked) < MaxSent
      /\ client = "waits" => wire = << >>
      /\ asked' = Append(asked, message)
      /\ wire' = wire \o SerializeSdk(message)
      /\ UNCHANGED <<registered, client, conn, midwares, toRegister, answers, ran>>

-----------------------------------------------------------------------------
(* The middleware list.                                                    *)

IsMidwareExist(name) == \E i \in DOMAIN midwares : midwares[i].name = name

RegisterMidware(mid) ==
  midwares' = IF IsMidwareExist(mid.name) THEN midwares ELSE Append(midwares, mid)

\* register_sdk_midwares, by the main thread while requests are served.
RegisterSdkMidwares ==
  /\ Running
  /\ toRegister # << >>
  /\ RegisterMidware(Head(toRegister))
  /\ toRegister' = Tail(toRegister)
  /\ UNCHANGED <<registered, client, conn, wire, asked, answers, ran>>

SdkSetResult(status, code, m) ==
  LET footer == Deref(m.footer, NewFooter)
      result == Deref(footer.result, NewResult)
  IN  [m EXCEPT !.footer = <<[footer EXCEPT !.result =
         <<[result EXCEPT !.sdk_result = <<[status_code |-> status, code |-> code]>>]>>]>>]

SdkContentSetResult(status, code, m) ==
  LET footer == Deref(m.footer, NewFooter)
      result == Deref(footer.result, NewResult)
  IN  [m EXCEPT !.footer = <<[footer EXCEPT !.result =
         <<[result EXCEPT !.content_result = <<[status_code |-> status, code |-> code]>>]>>]>>]

\* What the user middleware may make of a request; SdkUserMidware says when.
Accepts(session) ==
  CASE session.user_type \in {0, 3} -> BOOLEAN
    [] session.user_type \in {1, 2} -> {TRUE}
    [] OTHER -> {FALSE}

\* sdk_user_midware: what it answers to a type it knows, and the result.
SdkUserMidware(session, accepted, m) ==
  LET body == Deref(m.body, NewBody)
      res == Deref(body.user_session, NewUserSessionMsg)
      login == session.user_type = 0 /\ accepted
      answered == [body EXCEPT !.user_session = <<IF login THEN [res EXCEPT !.token = "t"] ELSE res>>]
  IN  SdkContentSetResult(IF accepted THEN 0 ELSE 1, IF accepted THEN "ok" ELSE "error",
        IF session.user_type \in 0 .. 3 THEN [m EXCEPT !.body = <<answered>>] ELSE m)

\* A middleware without a function accepts and does nothing.
Operate(mid, session, accepted, m) ==
  IF mid.name = UserMidware THEN SdkUserMidware(session, accepted, m) ELSE m

Failing(accepted) ==
  {i \in DOMAIN midwares : midwares[i].enable /\ midwares[i].name = UserMidware /\ ~accepted}

\* What the first i middlewares have made of m, those of them that are enabled.
Operated(session, accepted, m) ==
  LET after[i \in 0 .. Len(midwares)] ==
        IF i = 0 THEN m
        ELSE IF midwares[i].enable THEN Operate(midwares[i], session, accepted, after[i - 1])
        ELSE after[i - 1]
  IN  after

SdkMidwareFunction_GoesOn(session, accepted, m) ==   \* mutant: a failure is not returned
  Operated(session, accepted, m)[Len(midwares)]

\* sdk_midware_function: those that are enabled, up to the first that fails.
SdkMidwareFunction(session, accepted, m) ==
  LET failing == Failing(accepted)
      last == IF failing = {} THEN Len(midwares) ELSE Min(failing)
      after == Operated(session, accepted, m)[last]
  IN  IF failing = {} THEN after ELSE SdkSetResult(Error, midwares[last].name, after)

-----------------------------------------------------------------------------
(* sdk_protocol_do.                                                        *)

SdkHeaderCheck(header) ==
  LET host == Deref(header.host, NewHost)
      dest == Deref(header.dest, NewHost)
  IN  /\ header.msg_magic = SdkMagic
      /\ header.version = SdkCurVersion
      /\ header.trans_proto = Interface.trans_protocol
      /\ host.ip_version = Interface.ip_version
      /\ host.ip = Interface.src_ip /\ host.port = Interface.src_port
      /\ dest.ip = Interface.des_ip /\ dest.port = Interface.des_port
      /\ Now >= Deref(header.time, NewDataTime).in_time
      /\ header.data_dir = 0

IsSupportSdkMethod(method) == method \in {GET, PUT, POST, DELETE}

\* sdk_router_distribution finds a handler.
Found(body) ==
  /\ IsSupportSdkMethod(body.method)
  /\ body.url \notin IllegalUrls
  /\ SdkRouterLookup(registered, Path[body.url], body.method) # NoFun

\* sdk_body_do and the result of the request; the handlers all return true.
SdkBodyDo(body, m) ==
  IF body.method > DELETE THEN m
  ELSE IF Found(body) THEN SdkSetResult(0, "ok", m) ELSE SdkSetResult(Error, "url not find", m)

SdkPackResMsgHeader(request, m) ==
  [m EXCEPT !.header =
     <<[msg_magic |-> SdkMagic, version |-> SdkCurVersion,
        pack_id |-> Deref(request.header, NewHeader).pack_id,
        time |-> <<[in_time |-> 0, out_time |-> Now]>>, data_dir |-> 1,
        host |-> <<[ip_version |-> Interface.ip_version, port |-> Interface.des_port,
                    ip |-> Interface.des_ip]>>,
        dest |-> <<[ip_version |-> Interface.ip_version, port |-> Interface.src_port,
                    ip |-> Interface.src_ip]>>,
        trans_proto |-> Interface.trans_protocol]>>]

Refuses(accepted) == Failing(accepted) # {}

SdkProtocolDo(request, accepted) ==
  LET body == Deref(request.body, NewBody)
      session == Deref(body.user_session, NewUserSessionMsg)
      echo == [NewSdk EXCEPT !.body = <<[NewBody EXCEPT !.url = body.url, !.method = body.method]>>]
      passed == SdkMidwareFunction(session, accepted, echo)
      done == IF Refuses(accepted) THEN passed ELSE SdkBodyDo(body, passed)
  IN  IF SdkHeaderCheck(Deref(request.header, NewHeader))
      THEN SdkPackResMsgHeader(request, done) ELSE NewSdk

Ran(request, accepted) ==
  LET body == Deref(request.body, NewBody)
  IN  ~Refuses(accepted) /\ body.method <= DELETE /\ Found(body)

\* sdk_msg_decode parses std::string(input.data()), what is before the first
\* NUL; a NUL is the length of an empty part, and its tag alone does not parse.
\* Nothing, or the message.
SdkMsgDecode(fields) == IF NulInSdk(fields) THEN << >> ELSE <<ParseSdk(NewSdk, fields)>>

\* onRead: decode, process, and send unless there is nothing to send.
OnRead(n) ==
  LET decoded == SdkMsgDecode(SubSeq(wire, 1, n))
      request == decoded[1]
      session == Deref(Deref(request.body, NewBody).user_session, NewUserSessionMsg)
  IN  /\ conn = "open"
      /\ decoded # << >>
      /\ client = "waits" => n = Len(wire)
      /\ wire' = SubSeq(wire, n + 1, Len(wire))
      /\ \E accepted \in Accepts(session) :
           LET out == SerializeSdk(SdkProtocolDo(request, accepted))
           IN  IF out = << >> THEN UNCHANGED <<answers, ran>>
               ELSE answers' = Append(answers, out) /\ ran' = Append(ran, Ran(request, accepted))
      /\ UNCHANGED <<registered, client, conn, midwares, toRegister, asked>>

\* onRead with bytes that do not parse, as in SdkProtocol: they end within a
\* field, or a NUL is among them.
OnReadBroken ==
  /\ conn = "open"
  /\ wire # << >>
  /\ conn' = "closed"
  /\ wire' = << >>
  /\ UNCHANGED <<registered, client, midwares, toRegister, asked, answers, ran>>

Next ==
  \/ StaticInit /\ UNCHANGED connVars
  \/ \E request \in Requests : Send(request)
  \/ RegisterSdkMidwares
  \/ \E n \in 1 .. Len(wire) : OnRead(n)
  \/ OnReadBroken

Spec == Init /\ [][Next]_vars
-----------------------------------------------------------------------------
Decoded(from, to) == ParseSdk(NewSdk, SubSeq(wire, from, to))

\* Whatever is read is a message of the generated types, also when parts of
\* several have been merged, and "每条消息最多只有一个字段被赋值": of the lists
\* of a content at most one is set (in_sdk_body.proto:23).  (_InternalParse)
ExchangeTypeOK ==
  /\ midwares \in Seq(Midware)
  /\ \A i \in DOMAIN asked : asked[i] \in Sdk
  /\ \A n \in DOMAIN wire : Decoded(1, n) \in Sdk

\* The lists in the contents of the bodies among these fields, by their numbers.
Lists(from, to) ==
  {list \in {2, 3} :
     \E i \in from .. to :
       /\ wire[i].number = 2
       /\ \E j \in DOMAIN wire[i].value :
            /\ wire[i].value[j].number = 5
            /\ \E k \in DOMAIN wire[i].value[j].value : wire[i].value[j].value[k].number = list}

\* Reading more at once is merging: where a read is cut in two, the parts,
\* parsed alone, merge to what the whole is parsed to.  Only a list that the
\* first part has, and that the second takes away and sets again, would be
\* merged with the new one.  (_InternalParse and MergeFrom of all messages)
ReadIsMerge ==
  \A n \in DOMAIN wire, k \in 0 .. Len(wire) :
    k <= n /\ (Lists(1, k) = {} \/ Lists(k + 1, n) # {2, 3}) =>
      Decoded(1, n) = MergeSdk(Decoded(1, k), Decoded(k + 1, n))

\* A part that is set and holds nothing, the body itself included.
HoldsEmptyPart(body) ==
  \/ body = NewBody
  \/ \E session \in ToSet(body.user_session) :
       session = NewUserSessionMsg \/ session.user = <<NewUserBaseInfo>>
  \/ \E content \in ToSet(body.content) :
       \/ content = NewContent
       \/ \E list \in ToSet(content.app_module_list) :
            \/ list = NewAppModuleCoutInfoList
            \/ \E row \in ToSet(list.app_modules) :
                 row = NewAppModuleCoutInfo \/ row.base_info = <<NewAppModuleBaseInfo>>
       \/ \E list \in ToSet(content.user_list) :
            \/ list = NewUserList
            \/ \E row \in ToSet(list.user_info) :
                 row = NewUserAllInfo \/ row.user_base_info = <<NewUserBaseInfo>>

\* A whole message of a client that waits is decoded to what the client put
\* into it, lists included, unless some part of its body is set and empty: then
\* it is not decoded at all.  (Serialize, sdk_msg_decode, _InternalParse)
WaitingIsDecoded ==
  client = "waits" /\ wire # << >> =>
    SdkMsgDecode(wire) = IF HoldsEmptyPart(Last(asked).body[1]) THEN << >> ELSE <<Last(asked)>>

-----------------------------------------------------------------------------
(* SdkProtocol, of which this is an implementation.                        *)

Asked(message) ==
  LET body == Deref(message.body, NewBody)
  IN  [session |-> Deref(body.user_session, NewUserSessionMsg).user_type,
       url |-> body.url, method |-> body.method,
       synced |-> Deref(Deref(message.header, NewHeader).time, NewDataTime).in_time <= Now]

\* The requests that the fields on the wire belong to.
Wire ==
  [i \in DOMAIN wire |->
     [kind |-> IF wire[i].number = 1 THEN "header" ELSE "body",
      pack |-> (2 * Len(asked) - Len(wire) + i + 1) \div 2]]

\* An answer as the client decodes it.
Reply(i) ==
  LET m == ParseSdk(NewSdk, answers[i])
      body == Deref(m.body, NewBody)
      result == Deref(Deref(m.footer, NewFooter).result, NewResult)
  IN  [pack |-> Deref(m.header, NewHeader).pack_id, url |-> body.url, method |-> body.method,
       sdk |-> IF result.sdk_result = << >> THEN "unset"
               ELSE IF result.sdk_result[1].status_code = 0 THEN "OK" ELSE "ERROR",
       content |-> IF result.content_result = << >> THEN "unset"
                   ELSE IF result.content_result[1].status_code = 0
                        THEN "R_CODE_OK" ELSE "R_CODE_ERROR",
       ran |-> ran[i]]

Bodies == {Asked(Message(1, request)) : request \in Requests}
Sessions == {body.session : body \in Bodies}
Urls == DOMAIN Path
UsedMethods == {body.method : body \in Bodies}

\* What some router has, or the root alone, wherever it stands among the others.
Routes ==
  {route \in Urls \X UsedMethods :
     \E routers \in {<< >>} \cup {<<router>> : router \in Routers} :
       SdkRouterLookup(routers, Path[route[1]], route[2]) # NoFun}

Protocol == INSTANCE SdkProtocol WITH
  Methods <- UsedMethods,
  registered <- IsMidwareExist(UserMidware),
  wire <- Wire, asked <- [p \in DOMAIN asked |-> Asked(asked[p])],
  replies <- [i \in DOMAIN answers |-> Reply(i)]

\* Whatever routers and middlewares are registered, the latter while requests
\* are served, parsing, the header check field by field, the tree, the list and
\* serialising again do to a client what SdkProtocol says, reads cut anywhere
\* included.
ImplementsSdkProtocol == Protocol!Spec
=============================================================================
