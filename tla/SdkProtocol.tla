----------------------------- MODULE SdkProtocol -----------------------------
(***************************************************************************)
(* The requests of one TCP connection: onRead in sdk_network.cpp decodes   *)
(* what has arrived as one message, sdk_protocol_do checks its header,     *)
(* passes it to the middleware and to the router, and packs the answer.    *)
(*                                                                         *)
(* The stream has no framing.  A message is two fields, header and body,   *)
(* and the bytes of one read may be any prefix of what the client sent:    *)
(* protobuf merges the fields it finds, so that several messages, or parts *)
(* of two, become one request.  A prefix that ends inside a field does not *)
(* parse.                                                                  *)
(***************************************************************************)
EXTENDS Naturals, SequencesExt

CONSTANTS
  Sessions,     \* values of user_type; 0 (U_LOGIN) is not transmitted
  Urls, Methods,
  Routes,       \* the <<url, method>> some handler is registered for
  IllegalUrls,  \* those with a character is_sdk_url_valid forbids
  MaxSent       \* bound: requests a client sends on the connection

\* The default of a string, which is not transmitted.
NoUrl == ""

ASSUME NumbersAssumption ==
  Sessions \subseteq Nat /\ Methods \subseteq Nat /\ MaxSent \in Nat
ASSUME RoutesAssumption ==
  Routes \subseteq Urls \X Methods /\ IllegalUrls \subseteq Urls /\ NoUrl \notin IllegalUrls

VARIABLES
  client,       \* "waits": it sends a message whole, and no other until that has
                \* been read; "streams": the network may cut and join its messages
  registered,   \* has the main thread come to register_sdk_midwares
  conn,         \* the connection, "open" or "closed"
  wire,         \* the fields sent and not read yet
  asked,        \* history: the requests, numbered by their pack_id
  replies       \* the answers, in the order they are sent

vars == <<client, registered, conn, wire, asked, replies>>

GET == 1
POST == 2
PUT == 4
DELETE == 8

\* synced: the client's clock is not ahead of the server's.
Request == [session : Sessions, url : Urls, method : Methods, synced : BOOLEAN]

HeaderField(p) == [kind |-> "header", pack |-> p]
BodyField(p) == [kind |-> "body", pack |-> p]
Fields == {HeaderField(p) : p \in 1 .. MaxSent} \cup {BodyField(p) : p \in 1 .. MaxSent}

\* The answer; ran is history: the handler of the route was called.
Reply == [pack : 1 .. MaxSent, url : Urls \cup {NoUrl}, method : Methods \cup {0},
          sdk : {"unset", "OK", "ERROR"},
          content : {"unset", "R_CODE_OK", "R_CODE_ERROR"}, ran : BOOLEAN]

ProtocolTypeOK ==
  /\ client \in {"waits", "streams"}
  /\ registered \in BOOLEAN
  /\ conn \in {"open", "closed"}
  /\ wire \in Seq(Fields)
  /\ asked \in Seq(Request) /\ Len(asked) <= MaxSent
  /\ replies \in Seq(Reply)

Init ==
  /\ client \in {"waits", "streams"}
  /\ registered = FALSE
  /\ conn = "open"
  /\ wire = << >>
  /\ asked = << >>
  /\ replies = << >>

-----------------------------------------------------------------------------
(* Decoding: sdk_msg_decode, ParseFromString.                              *)

\* Of the values of a field that is not repeated the last one counts; the
\* default is not transmitted, and so replaces nothing.
LastSet(values, default) ==
  LET set == {i \in DOMAIN values : values[i] # default}
  IN  IF set = {} THEN default ELSE values[Max(set)]

\* pack_id; 0 when there is no header.
Pack(fields) ==
  LastSet([i \in DOMAIN fields |-> IF fields[i].kind = "header" THEN fields[i].pack ELSE 0], 0)

IsBody(f) == f.kind = "body"
Url(fields) ==
  LastSet([i \in DOMAIN fields |-> IF IsBody(fields[i]) THEN asked[fields[i].pack].url ELSE NoUrl], NoUrl)
Method(fields) ==
  LastSet([i \in DOMAIN fields |-> IF IsBody(fields[i]) THEN asked[fields[i].pack].method ELSE 0], 0)
Session(fields) ==
  LastSet([i \in DOMAIN fields |-> IF IsBody(fields[i]) THEN asked[fields[i].pack].session ELSE 0], 0)

-----------------------------------------------------------------------------
(* Processing: sdk_protocol_do.                                            *)

\* sdk_header_check.  Without a header the magic number is wrong; clients
\* fill in the rest correctly, but their clock may be ahead.
HeaderCheck(pack) == pack # 0 /\ asked[pack].synced

\* What the user middleware may make of a request; SdkUserMidware says when.
Accepts(session) ==
  CASE session \in {0, 3} -> BOOLEAN    \* U_LOGIN, U_REGISTER
    [] session \in {1, 2} -> {TRUE}     \* U_LOGOUT, U_VERI
    [] OTHER -> {FALSE}

IsSupportSdkMethod(method) == method \in {GET, PUT, POST, DELETE}

\* sdk_router_distribution, which calls the handler; the handlers there are
\* all return true.
Routed(url, method) ==
  IF IsSupportSdkMethod(method) /\ url \notin IllegalUrls /\ <<url, method>> \in Routes
  THEN [ran |-> TRUE, sdk |-> "OK"] ELSE [ran |-> FALSE, sdk |-> "ERROR"]

\* sdk_body_do.
BodyDo(url, method) ==
  IF method > DELETE THEN [ran |-> FALSE, sdk |-> "unset"] ELSE Routed(url, method)

ContentResult(accepted) ==
  IF ~registered THEN "unset" ELSE IF accepted THEN "R_CODE_OK" ELSE "R_CODE_ERROR"

Processed_AlsoRefused(url, method, accepted) == BodyDo(url, method)   \* mutant

\* sdk_midware_function, and the router unless the middleware refused.
Processed(url, method, accepted) ==
  IF registered /\ ~accepted THEN [ran |-> FALSE, sdk |-> "ERROR"] ELSE BodyDo(url, method)

Answer_NoPackId(fields, accepted) ==   \* mutant: pack_id counts the answers
  LET done == Processed(Url(fields), Method(fields), accepted)
  IN  [pack |-> Len(replies) + 1, url |-> Url(fields), method |-> Method(fields),
       sdk |-> done.sdk, content |-> ContentResult(accepted), ran |-> done.ran]

Answer(fields, accepted) ==
  LET done == Processed(Url(fields), Method(fields), accepted)
  IN  [pack |-> Pack(fields), url |-> Url(fields), method |-> Method(fields),
       sdk |-> done.sdk, content |-> ContentResult(accepted), ran |-> done.ran]

SdkProtocolDo_Silent(fields) ==   \* mutant: a refused request gets no answer
  \/ /\ HeaderCheck(Pack(fields))
     /\ TRUE \in Accepts(Session(fields))
     /\ replies' = Append(replies, Answer(fields, TRUE))
  \/ UNCHANGED replies

SdkProtocolDo(fields) ==
  \/ /\ HeaderCheck(Pack(fields))
     /\ \E accepted \in Accepts(Session(fields)) :
          replies' = Append(replies, Answer(fields, accepted))
  \/ /\ ~HeaderCheck(Pack(fields))
     /\ UNCHANGED replies   \* an empty response is not sent

-----------------------------------------------------------------------------
(* The connection.                                                         *)

Send(request) ==
  /\ conn = "open"
  /\ Len(asked) < MaxSent
  /\ client = "waits" => wire = << >>
  /\ wire' = wire \o <<HeaderField(Len(asked) + 1), BodyField(Len(asked) + 1)>>
  /\ asked' = Append(asked, request)
  /\ UNCHANGED <<client, registered, conn, replies>>

OnRead_NotConsumed(n) ==   \* mutant: without input.consume
  /\ conn = "open"
  /\ client = "waits" => n = Len(wire)
  /\ SdkProtocolDo(SubSeq(wire, 1, n))
  /\ \/ UNCHANGED wire
     \/ wire' = SubSeq(wire, n + 1, Len(wire))
  /\ UNCHANGED <<client, registered, conn, asked>>

\* onRead with the first n fields in the buffer; all of it is consumed.
OnRead(n) ==
  /\ conn = "open"
  /\ client = "waits" => n = Len(wire)
  /\ wire' = SubSeq(wire, n + 1, Len(wire))
  /\ SdkProtocolDo(SubSeq(wire, 1, n))
  /\ UNCHANGED <<client, registered, conn, asked>>

\* onRead with bytes that do not parse: con->close().  The buffer ends inside
\* a field, or std::string(input.data()), which runs to the first NUL, has cut
\* the message short or has added the memory behind it.  That a message with a
\* NUL never comes through whole is in SdkExchange; here it may.
OnReadBroken ==
  /\ conn = "open"
  /\ wire # << >>
  /\ conn' = "closed"
  /\ wire' = << >>
  /\ UNCHANGED <<client, registered, asked, replies>>

\* The main thread, after the module manager has started the server.
RegisterSdkMidwares ==
  /\ ~registered
  /\ registered' = TRUE
  /\ UNCHANGED <<client, conn, wire, asked, replies>>

Next ==
  \/ \E request \in Request : Send(request)
  \/ \E n \in 1 .. Len(wire) : OnRead(n)
  \/ OnReadBroken
  \/ RegisterSdkMidwares

Spec == Init /\ [][Next]_vars
-----------------------------------------------------------------------------
\* However the stream is cut and merged, the answers come in the order of the
\* requests they name and none is named twice.  (input.consume,
\* sdk_pack_res_msg_header)
AnswersInOrder ==
  \A i, j \in DOMAIN replies : i < j => replies[i].pack < replies[j].pack

\* Once the middleware is registered, a handler runs only for a request the
\* middleware let through, and a refusal is told in both results.
\* (sdk_protocol_do, sdk_midware_function)
RefusedIsNotRun ==
  [][registered /\ replies' # replies =>
       LET r == Last(replies')
       IN  /\ r.ran => r.content = "R_CODE_OK"
           /\ r.content = "R_CODE_ERROR" => r.sdk = "ERROR"]_vars

\* A client that waits for its answers gets the right ones: each has the url and
\* the method of the request it names.  (sdk_pack_res_msg_header, the router)
WaitingIsUnmixed ==
  client = "waits" =>
    \A i \in DOMAIN replies :
      LET request == asked[replies[i].pack]
      IN  replies[i].url = request.url /\ replies[i].method = request.method

\* ... and one to each request with a correct header, refused ones included, as
\* long as the connection stands.  (sdk_protocol_do, onRead)
WaitingIsAnswered ==
  client = "waits" /\ conn = "open" /\ wire = << >> =>
    \A p \in DOMAIN asked :
      asked[p].synced => \E i \in DOMAIN replies : replies[i].pack = p

\* sdk_protocol_do.cpp:170 "包序号，使用请求的": an answer has the number of
\* the request it answers.  So the answer for a path has the url and the method
\* of the request whose number it has, and not those of another one.
AnswerIsForItsRequest ==
  \A i \in DOMAIN replies :
    LET request == asked[replies[i].pack]
    IN  replies[i].url # NoUrl => replies[i].url = request.url /\ replies[i].method = request.method
=============================================================================
