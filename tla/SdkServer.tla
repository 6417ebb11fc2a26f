------------------------------ MODULE SdkServer ------------------------------
(***************************************************************************)
(* The TCP server of the SDK (sdk_network.cpp): its start, the life of the *)
(* connections it accepts, and tcp_links, the count that limits them.      *)
(*                                                                         *)
(* Every callback runs on the event-loop thread, so each is one action.    *)
(* The main thread starts the server in two steps, and connections can     *)
(* arrive between the two.  A connection's close() is deferred: the loop   *)
(* performs it in a later turn.  An element of Conns stands for one        *)
(* accepted connection and is used once.                                   *)
(***************************************************************************)
EXTENDS Naturals, FiniteSets

CONSTANTS
  Conns,               \* the connections clients may open
  MaxLinks,            \* max_links, from get_max_tcp_connect_capability()
  ManualCloseNotifies  \* does the loop report Closed for a con->close() ?
                       \* (the question of the FIXME in sdk_network.cpp:137)

ASSUME MaxLinksAssumption == MaxLinks \in Nat
ASSUME NotifyAssumption == ManualCloseNotifies \in BOOLEAN

VARIABLES
  server,     \* tcp_srv_ : has it started, are its callbacks installed
  conn,       \* what each connection has been through
  rx,         \* what the input buffer of each connection holds
  tcp_links   \* SdkServer::tcp_links

vars == <<server, conn, rx, tcp_links>>

(***************************************************************************)
(* "bare"    accepted before onConnCreate: the library's own connection    *)
(*           object, without the server's onState and onRead               *)
(* "linked"  accepted and counted                                          *)
(* "closing" counted, and con->close() has been called                     *)
(* "refused" accepted over the limit: con->close() has been called         *)
(* "turned"  a refused connection that has gone; "closed" any other        *)
(***************************************************************************)
ConnState == {"idle", "bare", "linked", "closing", "refused", "turned", "closed"}
Data == {"request", "noise"}       \* bytes that parse as an Sdk message, or not

\* The count stays between 0 and the limit, whatever closes and is turned away.
\* (tcp_links_inc, tcp_links_dec)
TypeOK ==
  /\ server \in {"down", "listening", "serving", "failed"}
  /\ conn \in [Conns -> ConnState]
  /\ rx \in [Conns -> Data \cup {"empty"}]
  /\ tcp_links \in 0 .. MaxLinks

Init ==
  /\ server = "down"
  /\ conn = [c \in Conns |-> "idle"]
  /\ rx = [c \in Conns |-> "empty"]
  /\ tcp_links = 0

-----------------------------------------------------------------------------
(* The count.                                                              *)

IsTcpLinksMax_EarlyByOne == tcp_links + 1 >= MaxLinks   \* mutant

IsTcpLinksMax == tcp_links >= MaxLinks

TcpLinksInc_NotCounted == ~IsTcpLinksMax /\ UNCHANGED tcp_links   \* mutant

\* tcp_links_inc() that returned true.
TcpLinksInc == ~IsTcpLinksMax /\ tcp_links' = tcp_links + 1

TcpLinksDec_NoGuard == tcp_links' = tcp_links - 1   \* mutant
TcpLinksDec_Forgotten == UNCHANGED tcp_links         \* mutant

TcpLinksDec == tcp_links' = IF tcp_links > 0 THEN tcp_links - 1 ELSE tcp_links

-----------------------------------------------------------------------------
(* The main thread: create_tcp_srv.                                        *)

\* The configured ip version is supported and the port could be bound: the
\* loop thread accepts from here on.
StartServer ==
  /\ server = "down"
  /\ server' = "listening"
  /\ UNCHANGED <<conn, rx, tcp_links>>

\* Wrong ip version, or startServer returned null; the result is dropped.
StartFails ==
  /\ server = "down"
  /\ server' = "failed"
  /\ UNCHANGED <<conn, rx, tcp_links>>

\* tcp_connection_made: onConnCreate.
InstallCallbacks ==
  /\ server = "listening"
  /\ server' = "serving"
  /\ UNCHANGED <<conn, rx, tcp_links>>

-----------------------------------------------------------------------------
(* The loop thread.                                                        *)

AcceptBare(c) ==
  /\ server = "listening"
  /\ conn[c] = "idle"
  /\ conn' = [conn EXCEPT ![c] = "bare"]
  /\ UNCHANGED <<server, rx, tcp_links>>

\* onState(Connected).
OnConnected(c) ==
  /\ server = "serving"
  /\ conn[c] = "idle"
  /\ \/ /\ TcpLinksInc
        /\ conn' = [conn EXCEPT ![c] = "linked"]
     \/ /\ IsTcpLinksMax
        /\ conn' = [conn EXCEPT ![c] = "refused"]
        /\ UNCHANGED tcp_links
  /\ UNCHANGED <<server, rx>>

HasHandlers(c) == conn[c] \in {"linked", "closing", "refused"}

\* The kernel hands bytes to the loop.
Arrive(c, d) ==
  /\ HasHandlers(c)
  /\ rx[c] = "empty"
  /\ rx' = [rx EXCEPT ![c] = d]
  /\ UNCHANGED <<server, conn, tcp_links>>

OnRead_KeepsBroken(c) ==   \* mutant: no close() when decoding fails
  /\ HasHandlers(c)
  /\ rx[c] # "empty"
  /\ rx' = [rx EXCEPT ![c] = "empty"]
  /\ UNCHANGED <<server, conn, tcp_links>>

\* onRead: the whole buffer is consumed; bytes that do not parse make the
\* server close the connection.  SdkProtocol says what a request does.
OnRead(c) ==
  /\ HasHandlers(c)
  /\ rx[c] # "empty"
  /\ rx' = [rx EXCEPT ![c] = "empty"]
  /\ conn' = IF rx[c] = "noise" /\ conn[c] = "linked"
             THEN [conn EXCEPT ![c] = "closing"] ELSE conn
  /\ UNCHANGED <<server, tcp_links>>

Gone(s) == IF s = "refused" THEN "turned" ELSE "closed"

\* The connection ends and the loop reports onState(Closed), or does not.
End(c, notified) ==
  /\ conn' = [conn EXCEPT ![c] = Gone(conn[c])]
  /\ rx' = [rx EXCEPT ![c] = "empty"]
  /\ IF notified THEN TcpLinksDec ELSE UNCHANGED tcp_links
  /\ UNCHANGED server

PeerCloses(c) ==
  \/ HasHandlers(c) /\ End(c, TRUE)
  \/ conn[c] = "bare" /\ End(c, FALSE)

\* The loop gets to a con->close() that a handler asked for.
LoopCloses(c) ==
  /\ conn[c] \in {"closing", "refused"}
  /\ End(c, ManualCloseNotifies)

-----------------------------------------------------------------------------
MainThread == StartServer \/ StartFails \/ InstallCallbacks

Loop(c) == OnConnected(c) \/ AcceptBare(c) \/ OnRead(c) \/ LoopCloses(c)

Client(c) == PeerCloses(c) \/ \E d \in Data : Arrive(c, d)

Next == MainThread \/ \E c \in Conns : Loop(c) \/ Client(c)

Spec == Init /\ [][Next]_vars

\* The loop thread always gets round to the input and the close() calls it
\* has pending; nothing obliges a client or a new connection to act.
FairSpec == Spec /\ \A c \in Conns : WF_vars(OnRead(c)) /\ WF_vars(LoopCloses(c))

-----------------------------------------------------------------------------
Linked == {c \in Conns : conn[c] \in {"linked", "closing"}}
Turned == {c \in Conns : conn[c] = "turned"}

\* No slot is lost: the count never exceeds the connections that hold one,
\* so once they have all gone the server admits MaxLinks again.
\* (onState in tcp_connection_made, tcp_links_dec.)
NoLeakedSlot == tcp_links <= Cardinality(Linked)

\* Each connection turned away lets at most one connection too many in, and
\* without one the limit is exact.  (tcp_links_inc, tcp_links_dec.)
CountDrift == Cardinality(Linked) <= tcp_links + Cardinality(Turned)

\* The server turns a connection away only when MaxLinks are really there.
\* (is_tcp_links_max in onState.)
RefusedOnlyWhenFull ==
  [][\A c \in Conns :
       conn[c] = "idle" /\ conn'[c] = "refused" => Cardinality(Linked) >= MaxLinks]_vars

\* A connection refused, or whose bytes do not parse, does not stay.
\* (con->close() in onState and onRead.)
RejectedGoes ==
  \A c \in Conns :
    (conn[c] = "refused" \/ rx[c] = "noise") ~> conn[c] \in {"turned", "closed"}

\* sdk_network.h:45 "tcp连接数量，用于限制连接数": tcp_links counts the TCP
\* connections to limit them, so no more than MaxLinks are linked at once.
LinkLimit == Cardinality(Linked) <= MaxLinks
=============================================================================
