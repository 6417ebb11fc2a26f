# Verification of the learning platform server

This directory holds TLA+ modules that model the server in `src/src`, the TLC
configurations that check them on small instances, and proofs, checked by
TLAPS, of the results that hold for every value of the constants.
`PROJECT.json` is the index: components, runs, mutants (for each property, a
plausible bug it catches), the source lines each definition stands for,
findings, hazards and theorems. Paths below are relative to `src/src`.

Contents: 1 the system, 2 the modules, 3 the runs, 4 fairness, 5 the proofs,
6 where the code and its documents disagree, 7 what is not modelled, 8 the plan.

## 1. The system

`main` takes a lock on a pid file (`alone_run`) and starts `PlatSrvApp`, which
reads the configuration, initialises four lists of application modules one
after the other, and registers the SDK middleware. Two of the modules matter
to a client: `task_handy_loop` starts the event loop, a thread, and
`sdk_net_init` starts the TCP server on that loop. From then on every callback
of a connection and every timer runs on the loop thread, one at a time; the
main thread goes on initialising beside it.

```
  client --TCP--> SdkServer (sdk_network)          accepts, counts, limits, closes
                     | onRead: what has arrived, as one message
                  sdk_protocol_do                  header check
                     |-- sdk_midware_function --> sdk_user_midware
                     |                               |-- SdkUser -- SdkUserDbSqlite3 (file)
                     |                               '-- SdkSession (memory) <-- 1 s timer
                     |-- sdk_router_distribution --> router tree --> handler
                     '-- answer, packed and sent on the same connection
```

### Inventory

| Component | State | Operations | Interacts with | What is hard | What makes it correct |
|---|---|---|---|---|---|
| TCP server `modules/sdk_net/sdk_network.cpp` | `tcp_srv_`, `tcp_links`; per connection its state and input buffer | start in two steps (`startServer`, `onConnCreate`); `onState` Connected, Closed; `onRead` | event loop, protocol | accepts before the callbacks are there; a close that is deferred, while the peer closes and data arrive; a turned away connection that also reports Closed | no slot is lost, the limit is the limit, nobody is refused while there is room, rejected connections go |
| Protocol `sdk_protocol_do.cpp`, `sdk_router_distribution.cpp`, `sdk_request.cpp` | none of its own; the request and the response of one `onRead` | `sdk_msg_decode`, `sdk_header_check`, `sdk_body_do`, packing | server, middleware, router | a stream without framing; results written by two parties into one response; requests before the middleware is registered | answers in order, of the right request, refused requests not run |
| Middleware list `sdk_midware*.cpp`, `sdk_midwares_table.cpp` | a vector | register, run all | protocol, user middleware | registered by the main thread while the loop thread uses it; a name registered twice, a disabled one, a failure before the end | the first failure refuses, what is registered late or twice changes no answer |
| Router `sdk_router.cpp` | a tree of nodes | `register_router`, `router_lookup` | protocol | overlapping urls, prefixes; methods that differ from node to node | the recursive lookup is a table searched in order |
| Session table `modules/sdk_session/sdk_session.cpp` | `user_session_` under `mtx_` | `add_session`, `del_session`, `verify`, `update` (timer) | user middleware, loop timer | login, logout and expiry interleave; a login refreshes the session of an earlier one; counting to zero | one session per user, tokens distinct and never reused, expiry on time, idle users leave |
| User table `sdk_user_db_sqlite3.cpp` | a SQLite table, `db_handle_`, `mtx_` | `init`, `query`, `add_user`, `del_user`, `export_user` | user operations; another program marks users | crash between statements; look-up and insert are two statements; no column is unique | names and nick names unique, the administrator there |
| User operations `sdk_user.cpp` | the table's handle | verify, exist, permission, add, del, info, list | user table | order of checks | (part of the middleware) |
| User middleware `sdk_user_midware.cpp` | both tables, created at the first request | login, logout, verify, register, unknown type | both tables | a check in one table, a change in the other; a 64-bit lifetime from the wire; crashes lose one table and keep the other | sessions belong to users, a refusal changes nothing, no session outlives seven days |
| Module lists `core/appmodule.cpp`, `appmodule_manager.cpp`, `appmodule_table.cpp` | a list with a state per module, `mtx_` | init / finit of all or one, status | every module's `init`, `exit` | slow callbacks under a lock, several callers | no `init` twice or side by side, order kept, status true |
| Single instance `main.cpp` | pid file, its lock | `alone_run` | kernel, database file | processes start and die between any two system calls | one server runs, the file names it, the database has one writer |
| Start-up `app.cpp`, `config` | none | a straight line | all | the server serves before start-up has ended; a missing or broken configuration file ends the process; other threads load and unload modules meanwhile | tasks are started once and before the middleware, the middleware's late arrival is the protocol's |
| Event loop task `core/handy_loop` | an event base, a keep-alive timer | start, keep alive, time-out | external task library | a loop that is busy longer than the task's time limit | started once |
| Upgrade task `modules/upgrade` | `_module_state` | task, its three actions, status | external task library | unlocked flag; an action before the task's first statement | a task that is given up ends and is reported so |
| Generated protobuf code `core/base/sdk_protocol` | the messages | parse, merge, serialise, clear | protocol | several messages, or parts of one, parsed as one; a oneof | parsing what is joined is merging; what is serialised is parsed again |
| Capabilities `config` | JSON values read once | load | all | none | values are CONSTANTS |
| Tools `tools` | none | CRC-16, patterns, core dump set-up | – | none | – |
| Version, alarm, loguru, build scripts, test clients | – | – | – | none of their own | not modelled |

## 2. The modules

| Module | Models | State and actions against the code |
|---|---|---|
| `SdkServer` | `sdk_network.cpp` | `server` is the two-step start of `create_tcp_srv`; `conn` what a connection has been through; `rx` its input buffer; `tcp_links` the counter. One action per callback: `OnConnected` (onState Connected with the limit), `OnRead` (decodes or closes), `PeerCloses` and `LoopCloses` (onState Closed), `AcceptBare` (a connection in the window before `onConnCreate`), `Arrive` (a client's bytes). |
| `TokenLease` | abstract | What a session table promises: a user holds at most one token, a token is given once, renewed, and ends for good. |
| `SdkSession` | `sdk_session.cpp` | `sessions` is `user_session_`; `issued` is history. `AddSession` is `Refresh` or `Create`; `DelSession`; `Update` is one call by the timer, with `CountDown` per session. Every method holds `mtx_` from start to end, so each is one action. |
| `SdkUserDb` | `sdk_user_db_sqlite3.cpp` | `table` and `rows` survive `Crash`, `db` does not. `init()` is four actions, because a process can end between its statements; `AddUser` and `DelUser` are one each, under `mtx_`. `Mark` is the other program that shares the database (`readme.md:65`). |
| `SdkUser` | `sdk_user.cpp` | Operators over `SdkUserDb`, with the code each returns; `answer` is the last return value. |
| `SdkUserMidware` | `sdk_user_midware.cpp` | Composes `SdkUser` and `SdkSession`. One action per handler, including every call it makes; `Tick` is the timer, `DbStep` the start of the database, `Restart` loses the sessions and keeps the table. `ToTimeT` is the conversion of `alive_time`, modulo `2*Half`. |
| `SdkProtocol` | `onRead` to answer, by what a message asks | `wire` holds the fields sent and not yet read. `OnRead(n)` takes the first n of them as one message and does all that `sdk_protocol_do` does, answer included. `RegisterSdkMidwares` is the main thread. |
| `ProtoWire` | the runtime of protobuf, external | A serialised message as a sequence of fields, and what taking, putting and merging a scalar, a message and a repeated field does; `Values`, what the fields of a number hold. |
| `InSdkHeader`, `InSdkFooter`, `InSdkBodyUser`, `InSdkBodyAppmodule`, `InSdk` | the generated `*.pb.cc`, `*.pb.h` | Per message the set of its values, `New` (constructor and Clear), `Parse` and `Take` (`_InternalParse`), `Serialize`, `Merge` (MergeFrom), `NulIn` (whether a zero byte is in what is serialised); `TakeContent` has the oneof. |
| `SdkExchange` | `onRead` to answer, message by message | The above with `SdkRouter`: the decoding, cut at a zero byte (`SdkMsgDecode`), the header check field by field, `midwares_` and its registration, the tree, the results, the header of the answer. Implements `SdkProtocol`. |
| `SdkRouter` | `sdk_router.cpp` | `registered` is the list below the root, filled by `StaticInit` in the order `Declared`, which is that of the file; `RouterLookup` the look-up, a recursive function on trees of `Depth` levels at most; `Rows`, the nodes of a tree with their whole urls and their places in it, the reference: the first row that fits. |
| `AppModules` | `core/appmodule.cpp` | `mtx`, the walk of each thread (`call`), the state of each module, `live` as history. An operation is several actions, because callbacks take time. |
| `PlatSrvApp` | `app.cpp`, `appmodule_manager.cpp`, `upgrade.cpp`, `handy_loop.cpp` | EXTENDS `AppModules`. `phase` is the line of `PlatSrvApp::init` the main thread is at, `task` what has become of the two tasks, `dead` those the task manager has given up, `moduleState` is `_module_state`. Other threads may call the list from the moment it exists. |
| `AloneRun` | `alone_run` | One action per system call and process; `End` kills a process anywhere. |
| `AloneServer` | `AloneRun` + database | Several processes over one database file, one SQL statement per action; refines `SdkUserDb`. |
| `*_proof` | | Theorems about the module of that name. `SdkUserMidware_proof` also has those of `SdkUserDb` and `SdkSession`, `PlatSrvApp_proof` those of `AppModules`, `SdkExchange_proof` those of `SdkRouter`, `InSdk_proof` those of every message. |
| `MC*` | | Instances for TLC: sets given as definitions, symmetry. |

Composition: `SdkUserMidware` EXTENDS `SdkUser` and `SdkSession`, so that the
properties and the lemmas of the parts are used in the whole. `SdkSession` and
`SdkUserMidware` instantiate `TokenLease`; `AloneServer` instantiates
`SdkUserDb`. `SdkProtocol` stands for the middleware by the one thing it needs
of it, whether it accepts a message (`Accepts`), and for the router by the set
of routes. `SdkExchange`, with the messages, the list of middlewares and the
tree of routers in their place, is shown to implement it: the abstract wire
has the kind of each field and the request it belongs to, the abstract answer
is what a client decodes, and the routes are what the tree finds. `PlatSrvApp`
EXTENDS `AppModules`.

Abstractions worth knowing:

* A message on the wire is a sequence of fields, each with its number and
  value; tags, varints and their lengths are left out, so that a read of
  `SdkExchange` ends between the fields of the outermost message and
  `OnReadBroken` stands for one that ends inside. In `SdkProtocol` the fields
  are two, header and body, and merging is `LastSet`.
* `std::string(input.data())` stops at the first zero byte. In a serialised
  message that is the length of a part that is set and empty, and of nothing
  else: a varint of another value has no such byte, scalars of value 0 are not
  written, and the texts are taken to have none. What is left ends in a tag
  without its length and does not parse: `SdkMsgDecode` decodes nothing then,
  `OnRead` is not enabled, and `OnReadBroken` closes the connection.
  `SdkProtocol` does not know of parts and has `OnReadBroken` at any read.
* Without a zero byte `std::string(input.data())` runs past the buffer. That
  the bytes there do not parse is an `OnReadBroken`; that they happen to parse
  as fields is left out.
* Node urls are literal: none the program registers has an operator of a
  regular expression.
* Dates, contact details, pictures and logging are left out.
* A user's permission and password are members of small sets.

## 3. The runs

"pass" runs show that the listed properties hold in every reachable state of
the instance; "violation" runs show the counterexample behind a finding.

| Run | Result | Instance and why it is enough |
|---|---|---|
| `server` | pass | Four connections, two slots: the limit is reached, one is turned away, and one more comes after it; a third accepted one shows the drift twice over. Shows `NoLeakedSlot` (the count never exceeds the connections that hold a slot), `CountDrift` (it falls short of them by at most the number turned away), `RefusedOnlyWhenFull`, and the liveness property `RejectedGoes`. No symmetry, which liveness does not allow. |
| `server_limit` | violation | Three connections, one slot: the header's "limits the number of connections" (`LinkLimit`) fails after one refusal. |
| `session` | pass | Two users, three tokens, lifetimes 0, 1 and 3, so that a user logs in again after its session has ended while another is live. Shows uniqueness, expiry neither late (`ExpiresOnTime`) nor early (`NotEarly`), `EndedStaysEnded`, the refinement of `TokenLease`, and `IdleUsersLeave`. |
| `userdb` | pass | Names that are each other's nick names, every call in every order, crashes in `init()`, marks. |
| `user_admin` | violation | A crash between `CREATE TABLE` and the `INSERT` of the administrator. |
| `midware` | pass | Two users, one of whom goes by the administrator's nick name, so that a registration passes the check of the name and fails at that of the nick name; two tokens, lifetimes one accepted and one too long; every handler, timer, mark and restart. 29,811 states. `Half` = 4 stands for 2^63: the wire has 0..7, `MaxAlive` = 1 stands for seven days. |
| `midware_wide` | violation | As above with a lifetime of 2^63 or more. |
| `protocol` | pass | Three requests on a connection, read boundaries anywhere, both kinds of client, requests before and after the middleware is registered. Two requests merge and a third comes after. The client that waits is the one the test clients are. |
| `protocol_mix` | violation | Two requests; one read has three of their four fields, and the answer the number of the second with the url and method of the first. Answers without a url, which are to reads that hold a header only, are left out of the property. |
| `exchange` | pass | Three overlapping routers: one in front of a second that is above a node with its url, and a third whose inner nodes have no function and support no method. Seven requests (login, users with two rows, a module list, a forbidden url, an empty body, an empty row, a clock that is ahead), two of them sent and cut anywhere; three middlewares, one disabled, one a second time. Two requests are what it takes to merge. Shows that parsing is merging, that what a waiting client sends is decoded, unless a part of it is set and empty (`WaitingIsDecoded`), that the tree is the table (`RouterIsTable`), and the refinement of `SdkProtocol`. 6,476 states. |
| `startup` | pass | The main thread and one other, three modules: two with a task that are there to stay, one that may be unloaded. The other thread calls the four operations of the list, in any order, from the moment it exists; the program itself calls one of them once, and the run checks the interface the class offers. Shows the three invariants of the list, `TasksStartOnce`, and, under fairness, `LockIsReleased` and `UpgradeIsOver`. 209,194 states; liveness is checked without symmetry. |
| `alone` | pass | Three processes, so that two contend while a third's id is left in the file; three names; a table of two rows before the last insert. Process ids are used again. |

Deadlock is checked in `session`, `user_admin`, `userdb`, `midware`,
`midware_wide`, `startup` and `alone`; in `startup` the one state that may
stop is a process that its configuration has ended (`Terminated`). In the
others the system really stops: each connection is used once (`server`,
`server_limit`), and the client stops after `MaxSent` requests (`protocol`,
`protocol_mix`, `exchange`).

The type invariants of `SdkUserDb`, `SdkProtocol`, `AppModules`, `PlatSrvApp`
and `AloneServer` are not listed in a run: they are proved, as the first part
of the inductive invariants of section 5.

Every bound is a constant: `MaxSent` requests, `MaxAge` (an age stops counting
there, which nothing but the properties reads), `MaxRows` rows (no user is
added to a table that has as many). The theorems hold for every value of them.

## 4. Fairness

* `SdkServer`: weak fairness of `OnRead(c)` and `LoopCloses(c)` for each
  connection. Input stays in the buffer until `onRead` consumes it, and
  a deferred close stays in the loop's queue until a later turn performs it, so
  each stays enabled until the loop, which does nothing else, gets to it. Nothing is assumed of clients: `Arrive`, `PeerCloses` and `OnConnected`
  are unfair.
* `SdkSession`: weak fairness of `Update`. The constructor hands it to the
  loop as a repeating timer (`sdk_session.cpp:22`). Logins are not fair, so
  `IdleUsersLeave` says of users who stop logging in that their session ends.
* `PlatSrvApp`: weak fairness of `Walk(t)` for each thread (a step of a call
  that has the lock: the modules' `init()` and `exit()` return, and the
  program's all do), of `UpgradeBegins` (a thread that `task_run` has created
  gets to run), of `UpgradeEnds` (the loop looks at its condition every three
  seconds, and a condition that has become false stays so) and of
  `UpgradeExitAction` (which the task manager promises to call). Nothing is
  assumed of who gets the lock, of `TaskDies`, or of the calls.
* Every other module states safety only.

## 5. The proofs

| Theorem | Says, for every value of the constants | Argument |
|---|---|---|
| `SdkServer_proof!TypeCorrect`, `DriftBounded`, `NoSlotLeaks`, `RefusesOnlyWhenFull` | the count stays in `0..MaxLinks`; it is short by at most the number turned away; no slot leaks; nobody is refused while there is room | `IInv` adds to the properties that the sets they count are finite: `Conns` may be infinite, but one step connects or ends one connection. The guard of `tcp_links_dec` and the case "turned away" are the two places where the count and the connections part. |
| `SdkUserMidware_proof!SessionTypeCorrect`, `SessionsAreKeyed`, `SessionsExpire`, `NoneEndsEarly`, `TokensEndForGood`, `RefinesTokenLease` | the session table, for any users, tokens and lifetimes | `SInv` adds `Aging`: the time left and the age of a session sum to its lifetime, which is what makes expiry inductive and an early end impossible. The refinement maps each step to a step of `TokenLease` or a stutter, from the table being keyed. |
| `SdkUserMidware_proof!TableKeysUnique` | names and nick names stay unique | needs `CreatedIsEmpty`: between `CREATE TABLE` and the first `INSERT` the table is empty, otherwise the administrator might be inserted beside another of that name. |
| `SdkUserMidware_proof!TablesAgree`, `SevenDays`, `MidwareRefinesTokenLease`, `LoginsAreOwn`, `FailuresAreClean`, `AccountsAreKept` | the composition | `MInv` joins `SInv` and `DbInv` with the agreement of the tables; the steps reuse the lemmas of both parts. That rows are keyed by name is what makes the row a login was checked against the row of the user whose session it gets, and what keeps a registration from replacing a row. |
| `AloneServer_proof!OneServer`, `PidFileTrue`, `RowsStayUnique`, `ServerRefinesUserDb` | any number of processes; that they implement `SdkUserDb` | `LockInv`: those past `fcntl` hold the lock. Hence one process is in the server (`OneInServer`), and what it found in the table (`StepsInv`) is still so when it inserts. In the refinement the abstract process is the one that runs (`RunningIsOne`), a look-up is a stutter, and the insert is the whole `add_user`. |
| `PlatSrvApp_proof!ModulesInitOnce`, `ModulesInitInOrder`, `StatusIsTrue` | any list, any threads | `Holds`: a thread on its walk holds `mtx_`, so others are before theirs (`OthersWait`); `InCallback` keeps what the walk has read of a module true until its callback returns; `StateInv` ties states to what is up; `Walked` says what an `init_all` has behind it is up, because what it skips can not be configured and so was never unloaded. |
| `PlatSrvApp_proof!PlatInitsOnce`, `PlatInitsInOrder`, `PlatStatusIsTrue`, `EachTaskStartsOnce` | the whole start-up, any list, any threads | every step is a step of `AppModules` or leaves the list alone (`PlatIsApp`), so its theorems carry over; `TaskIsUp` ties a started task to a module that is up, and `MainInv` says that the main thread is past its walk only when all that stays is up. |
| `SdkProtocol_proof!AnswersComeInOrder`, `WaitingGetsItsOwn`, `WaitingGetsAnswers`, `RefusedDoNotRun`, `ProtocolTypeCorrect` | one connection, for any number of requests, urls, methods and routes | `Pending`: the numbers of the headers on the wire increase and are above all those answered, which is what merging (`LastSet`: the last header wins) preserves. `Waiting`: a waiting client has one request on the wire or none, so that what is read is that request. |
| `SdkExchange_proof!ExchangeRouterIsTable`, `ExchangeFirstAddedWins` | the look-up in the tree finds the first row of the table that fits, and no later registration takes a url over; for trees of any depth, any urls and methods, any number of routers | `Trees`, `RouterLookup` and `Rows` are recursive functions: that they exist is shown first, and then their equations are used. Induction over the levels, stated of the set of levels for which the claim holds (`NatSetInduction`), because a lemma with an operator for a parameter is out of reach. At the root the look-up is cut at the first router that answers, and so are the rows. |
| `InSdk_proof!SerializedReadsBack`, `ReadTogetherMerges` | every message reads back as it was written, and reading a second message behind a first merges it, the `oneof` and the repeated fields included | `ProtoWire_proof` proves once, for any table of parts, that a message is `Sound` (parsing stays in the type, writing and reading returns the value, reading merges) when each of its parts is; by induction over the fields read. `InSdk_proof` shows it of the messages one after the other, from the innermost to `Sdk`. The exception is in the statement: `Compatible`. |
| `SdkExchange_proof!ExchangeIsTyped`, `ExchangeWaitingIsDecoded`, `ExchangeReadIsMerge` | what is read is a message of the generated types; a waiting client's message is decoded as it was written, or not at all where a part of its body is set and empty; a read of two pieces is the merge of both | `ExchangeInv`: what is on the wire are fields of messages, and all of the last message if the client waits. The rest follows from the theorems on messages, and of the zero byte from these: a message is written as nothing only if it is a cleared one (`Empty<message>`, because it reads back), so a zero byte is where an empty part is (`NulOf<message>`), from the innermost message to `Sdk`; the header of a client has none. |
| `SdkExchange_proof!ExchangeImplementsProtocol` | byte stream, messages, middleware list and tree, put together, do what `SdkProtocol` says | `RefineInv` adds to `ExchangeInv` that the wire is the last fields of what was sent (`WireInv`), that the user middleware is in the list at most once, and enabled (`ListInv`), and that answers and runs of handlers are as many (`AnswerInv`). Decoding the first `n` fields is decoding the last header and the last body among them (`DecodedAs`, one field more at a time), which is `LastSet`. `RegisterSdkMidwares` and `OnRead` map to the abstract actions of that name, a step of `Send` to `Send`; registering a router is a stutter, because all of them are registered before main runs, and from then on the look-up has what some router alone has (`LookupIsRoutes`). |

Assumptions: those named in the modules (sets of constants, `MaxLinks` a
natural number, `Users` a subset of `Names`, the administrator's names, `NoProc`
no process). Three are part of a statement and not of a module:

* `NoSlotLeaks` and `RefusesOnlyWhenFull` assume `ManualCloseNotifies`, that
  the loop reports Closed for a connection the server itself closed. The code
  asks this question in a FIXME (`sdk_network.cpp:137`); the library's source
  is not in the repository. `DriftBounded` does not need it.
* `SevenDays` assumes `WireNonNegative`, that no lifetime sent is 2^63 or more.
  `midware_wide` shows that it must.
* `OneServer`, `PidFileTrue` and `RowsStayUnique` hold while `fcntl` fails only
  for a lock that is held: the properties say `~unlocked =>`.

Six more say what the constants of `SdkExchange` and its parts are: `NewTexts`,
`RouterTexts` and `ExchangeTexts`, that the literals of the code are strings,
which the provers do not know by themselves; `RouterAssumption`, that routers
are trees of a bounded depth (`static` objects, each appended to others that
exist); `ExchangeAssumption`, that requests are messages of the generated
types whose urls have a path; and `MidwaresAssumption`, that among the
middlewares named as the user middleware the first is enabled, as
`sdk_midwares_table.cpp` has it. TLC evaluates them in the run `exchange`.

`ReadIsMerge` and `ReadTogetherMerges` are about messages of which the second
does not both take a list away and set it again. Without that condition the
claim is false, in the model as in protobuf: the `oneof` holds one list, the
second message that carries both kinds clears the first one's on the way, and
merging the finished second message would have kept it. `Serialize` writes one
list only, so that such a piece arises only when two messages are in it.

Only model-checked: the four liveness properties `RejectedGoes`,
`IdleUsersLeave`, `LockIsReleased` and `UpgradeIsOver`, which are out of the
prover's reach. Every other property of a passing run is a theorem.

## 6. Where the code and its documents disagree

Shown by a run (`PROJECT.json` "findings" quotes the lines):

* `server_limit`: a connection that was turned away gives back a slot.
* `user_admin`: a crash in `init()` leaves a database without administrator.
* `midware_wide`: a lifetime of 2^63 or more becomes negative and never ends.
* `protocol_mix`: two requests in one read are answered as one, under the
  number of the second and with the url and method of the first.

Read while modelling, in the models as the code has them, without a run:

* `sdk_user.cpp:160`: `sdk_user_del` calls `add_user`, so deleting an existing
  user deletes nothing (`SdkUserDel`).
* `sdk_user.cpp:86` and `:172`: `sdk_user_permission` and `sdk_user_info` test
  the result of the query the wrong way round.
* `sdk_user.cpp:129`: a name that is another user's nick name is refused with
  `R_CODE_ERROR`, not `R_CODE_USER_EXIST`.
* `sdk_session.cpp:30`: `verify` accepts every token, where
  `in_sdk_body_user.proto:39` has it checked.
* `sdk_protocol_do.cpp:64`: a method above DELETE leaves the result unset,
  which reads as OK.
* `sdk_network.cpp:237`: the server accepts before `onConnCreate` is set.
* `app.cpp:129`: requests are served unchecked until the middleware is
  registered.
* `sdk_network.cpp:40`: a binary message is passed on as `input.data()`, a C
  string. A request with a part that is set and empty is cut at the length of
  that part, does not parse, and its connection is closed: a client that sets
  a session and nothing in it, or a list without rows, is never served.
  `WaitingIsDecoded` says which messages are decoded.
* `sdk_router.cpp:178`: `router_lookup` asks for the method at the end of the
  url only. The readme of `sdk_net` (lines 474-478) skips a node that does not
  support the method also where its path is only a prefix: with the third
  router of `MCSdkExchange` it would answer nothing, and the code answers a POST
  through two nodes that support no method. `RouterIsTable` states the code's
  rule.
* `sdk_net/doc/readme.md:21` has every request answered; merged ones and those
  with an empty part are not, nor those of a clock that is ahead
  (`sdk_protocol_do.cpp:141`). A read that ends behind a header is answered,
  with an empty url.
* `appmodule.cpp:101`: `finit_single_appmodule` leaves a module it has unloaded
  at INSTALLED, where `finit_appmodules` (`:59`) leaves IDLE. `AppModules` has
  it; `LiveIsReported` is the half of the status that holds.
* `appmodule_manager.cpp:22` and `:33`: the list of third-party modules is
  created as system applications and the other way round (`SysApps`,
  `ExtModules`). Both are empty.
* `sdk_network.cpp:269`: `sdk_handy_net_init` drops the result of
  `create_tcp_srv`, and the module counts as installed without a server
  (`StartFails`).
* `main.cpp:46`: when `fcntl` fails for another reason, `alone_run` goes on
  without the lock and truncates the file of a server that may be running
  (`LockError`). `main.cpp:16` says only one program runs.

## 7. What is not modelled, and why

* The UDP server: it is never started (`sdk_handy_net_init` calls
  `create_tcp_srv` only).
* The task manager is a library that is not in the repository. `PlatSrvApp`
  has what the code uses of it: a task runs some time after `task_run`, may be
  given up at any time, and its actions are called. That a callback of the
  event loop has to take 30 minutes for the loop to be given up
  (`handy_loop.cpp:31`, a timer of 5 s against `alive_time`) is arithmetic on
  times the model does not have; `TaskDies` may come at any time instead.
* Descriptors, reflection, arenas, unknown fields and the encoding of tags and
  varints of the generated protobuf code. What the server uses of it, parsing,
  merging, serialising and the default values, is in `InSdk*`.
* The manager of module lists beyond one list: it walks its four lists one
  after the other, and three of them are empty (`InitOtherLists`).
* Routers of another file than `sdk_router.cpp`: `SDK_REGISTER_ROUTER` would
  let any file register one, before `root_router` is constructed or after; no
  file does, and `Declared` has those of the one that does in their order.
* Texts with a zero byte in them, and bytes behind the input buffer that parse
  as fields (section 2).
* Data races: the middleware vector is appended to while the loop thread may
  copy it. `SdkProtocol` and `SdkExchange` have the two orders, not a torn
  copy. `_module_state` is a flag of one byte, and `PlatSrvApp` has its reads
  and writes one after the other.
* The values of the configuration: they are CONSTANTS. That reading them may
  end the process is `LoadConfigures`.
* CRC-16, which one file includes and none calls; the patterns, which are
  regular expressions handed to the library; core dumps; the version string.
* loguru is vendored, and logging changes no state of the server.
* `sdk_user_manage.cpp`: a debug function that calls the user table and logs.
* Regular expressions in node urls: no router of the program has one.
* Build scripts and test clients do not run with the server;
  the clients were read for what they send.

## 8. The plan

Done, in this order, most important first: `SdkServer` and its proofs;
`TokenLease`, `SdkSession` and proofs; `SdkUserDb` and proofs; `SdkUser`,
`SdkUserMidware` and proofs; `SdkProtocol`; `SdkRouter`; `AppModules` and
proofs; `AloneRun`, `AloneServer` and proofs; `ProtoWire`, `InSdk*` and
`SdkExchange`, which implements `SdkProtocol`; `PlatSrvApp`, the start-up
around `AppModules`; proofs of `SdkProtocol`, of `PlatSrvApp`, and of all
other safety properties of the runs, the refinement of `SdkUserDb` by
`AloneServer` included; proofs of the messages, of the router, and that
`SdkExchange` implements `SdkProtocol`.

To extend the model:

1. Several connections in `SdkProtocol`, composed with `SdkServer`: answers go
   to the connection that asked, requests of a connection that is closing.
2. The protocol on top of `SdkUserMidware` instead of `Accepts`, to say that a
   handler runs only for a request of a user who is logged in.

To prove more: the theorems of `SdkProtocol` carried over to `SdkExchange`
along the refinement, stated of decoded messages; and that a handler runs only
for a user who is logged in, when the second item above is modelled.
