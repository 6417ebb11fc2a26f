--------------------------- MODULE SdkServer_proof ---------------------------
(***************************************************************************)
(* Proofs about SdkServer, for every set of connections and every limit.   *)
(*                                                                         *)
(* NoLeakedSlot and CountDrift bound the error of tcp_links from above and *)
(* from below.  Neither is inductive without the finiteness of the sets    *)
(* they count: infinitely many clients may exist, but one step connects or *)
(* ends one connection.                                                    *)
(***************************************************************************)
EXTENDS SdkServer, FiniteSetTheorems, TLAPS

Finite == IsFiniteSet(Linked) /\ IsFiniteSet(Turned)

IInv ==
  /\ TypeOK
  /\ Finite
  /\ CountDrift
  /\ ManualCloseNotifies => NoLeakedSlot

\* Counting one connection in: OnConnected below the limit.
LEMMA LinkedGrows ==
  ASSUME IInv, NEW c \in Conns, conn[c] = "idle",
         conn' = [conn EXCEPT ![c] = "linked"]
  PROVE  /\ IsFiniteSet(Linked') /\ Cardinality(Linked') = Cardinality(Linked) + 1
         /\ Turned' = Turned
<1>1. Linked' = Linked \cup {c} /\ c \notin Linked
  BY DEF IInv, TypeOK, Linked
<1>2. Turned' = Turned
  BY DEF IInv, TypeOK, Turned
<1>3. IsFiniteSet(Linked)
  BY DEF IInv, Finite
<1> QED
  BY <1>1, <1>2, <1>3, FS_AddElement

\* A counted connection ends.
LEMMA LinkedShrinks ==
  ASSUME IInv, NEW c \in Conns, conn[c] \in {"linked", "closing"},
         conn' = [conn EXCEPT ![c] = Gone(conn[c])]
  PROVE  /\ IsFiniteSet(Linked') /\ Cardinality(Linked') = Cardinality(Linked) - 1
         /\ Turned' = Turned
<1>1. Linked' = Linked \ {c} /\ c \in Linked
  BY DEF IInv, TypeOK, Linked, Gone
<1>2. Turned' = Turned
  BY DEF IInv, TypeOK, Turned, Gone
<1>3. IsFiniteSet(Linked)
  BY DEF IInv, Finite
<1> QED
  BY <1>1, <1>2, <1>3, FS_RemoveElement

\* A refused connection ends.
LEMMA TurnedGrows ==
  ASSUME IInv, NEW c \in Conns, conn[c] = "refused",
         conn' = [conn EXCEPT ![c] = Gone(conn[c])]
  PROVE  /\ IsFiniteSet(Turned') /\ Cardinality(Turned') = Cardinality(Turned) + 1
         /\ Linked' = Linked
<1>1. Turned' = Turned \cup {c} /\ c \notin Turned
  BY DEF IInv, TypeOK, Turned, Gone
<1>2. Linked' = Linked
  BY DEF IInv, TypeOK, Linked, Gone
<1>3. IsFiniteSet(Turned)
  BY DEF IInv, Finite
<1> QED
  BY <1>1, <1>2, <1>3, FS_AddElement

\* The sizes the invariants compare are natural numbers.
LEMMA Sizes ==
  ASSUME IInv
  PROVE  Cardinality(Linked) \in Nat /\ Cardinality(Turned) \in Nat /\ tcp_links \in 0 .. MaxLinks
BY FS_CardinalityType DEF IInv, Finite, TypeOK

\* A step that leaves the two sets and the count alone preserves all of IInv
\* but the types, which each such action has to show.
LEMMA SetsUnchanged ==
  ASSUME IInv, TypeOK', Linked' = Linked, Turned' = Turned, tcp_links' = tcp_links
  PROVE  IInv'
BY DEF IInv, Finite, CountDrift, NoLeakedSlot

-----------------------------------------------------------------------------
\* At first there are no connections.
LEMMA InitIInv == Init => IInv
<1> SUFFICES ASSUME Init PROVE IInv
  OBVIOUS
<1>1. TypeOK
  BY MaxLinksAssumption DEF Init, TypeOK, ConnState
<1>2. Linked = {} /\ Turned = {}
  BY DEF Init, Linked, Turned
<1>3. IsFiniteSet({}) /\ Cardinality({}) = 0
  BY FS_EmptySet
<1> QED
  BY <1>1, <1>2, <1>3 DEF Init, IInv, Finite, CountDrift, NoLeakedSlot

\* End(c, notified), which PeerCloses and LoopCloses share.
LEMMA EndIInv ==
  ASSUME IInv, NEW c \in Conns, HasHandlers(c), NEW notified \in BOOLEAN, End(c, notified),
         ManualCloseNotifies => notified
  PROVE  IInv'
<1>1. TypeOK'
  BY MaxLinksAssumption DEF IInv, TypeOK, End, Gone, ConnState, TcpLinksDec
<1>2. conn' = [conn EXCEPT ![c] = Gone(conn[c])]
  BY DEF End
<1>3. notified => TcpLinksDec
  BY DEF End
<1>4. ~notified => tcp_links' = tcp_links
  BY DEF End
<1>5. MaxLinks \in Nat
  BY MaxLinksAssumption
<1>6. CASE conn[c] \in {"linked", "closing"}
  <2>1. /\ IsFiniteSet(Linked') /\ Cardinality(Linked') = Cardinality(Linked) - 1
        /\ Turned' = Turned
    BY <1>2, <1>6, LinkedShrinks
  <2>2. Finite'
    BY <2>1 DEF IInv, Finite
  <2>3. Cardinality(Linked') \in Nat
    BY <2>1, FS_CardinalityType
  <2>4. CountDrift'
    BY <1>3, <1>4, <1>5, <2>1, <2>3, Sizes DEF IInv, CountDrift, TcpLinksDec
  <2>5. ManualCloseNotifies => NoLeakedSlot'
    BY <1>3, <1>5, <2>1, <2>3, Sizes DEF IInv, NoLeakedSlot, TcpLinksDec
  <2> QED
    BY <1>1, <2>2, <2>4, <2>5, NotifyAssumption DEF IInv
<1>7. CASE conn[c] = "refused"
  <2>1. /\ IsFiniteSet(Turned') /\ Cardinality(Turned') = Cardinality(Turned) + 1
        /\ Linked' = Linked
    BY <1>2, <1>7, TurnedGrows
  <2>2. Finite'
    BY <2>1 DEF IInv, Finite
  <2>3. CountDrift'
    BY <1>3, <1>4, <1>5, <2>1, Sizes DEF IInv, CountDrift, TcpLinksDec
  <2>4. ManualCloseNotifies => NoLeakedSlot'
    BY <1>3, <1>5, <2>1, Sizes DEF IInv, NoLeakedSlot, TcpLinksDec
  <2> QED
    BY <1>1, <2>2, <2>3, <2>4 DEF IInv
<1> QED
  BY <1>6, <1>7 DEF HasHandlers

\* Every step keeps the count within its bounds of the connections.
LEMMA NextIInv == IInv /\ [Next]_vars => IInv'
<1> SUFFICES ASSUME IInv, [Next]_vars PROVE IInv'
  OBVIOUS
<1> USE MaxLinksAssumption
<1>1. CASE MainThread
  <2>1. TypeOK' /\ conn' = conn /\ tcp_links' = tcp_links
    BY <1>1 DEF IInv, TypeOK, MainThread, StartServer, StartFails, InstallCallbacks
  <2> QED
    BY <2>1, SetsUnchanged DEF Linked, Turned
<1>2. ASSUME NEW c \in Conns, AcceptBare(c) PROVE IInv'
  <2>1. TypeOK' /\ Linked' = Linked /\ Turned' = Turned
    BY <1>2 DEF IInv, TypeOK, AcceptBare, ConnState, Linked, Turned
  <2> QED
    BY <1>2, <2>1, SetsUnchanged DEF AcceptBare
<1>3. ASSUME NEW c \in Conns, OnConnected(c) PROVE IInv'
  <2>1. conn[c] = "idle"
    BY <1>3 DEF OnConnected
  <2>2. CASE TcpLinksInc /\ conn' = [conn EXCEPT ![c] = "linked"]
    <3>1. TypeOK'
      BY <1>3, <2>2 DEF IInv, TypeOK, OnConnected, TcpLinksInc, IsTcpLinksMax, ConnState
    <3>2. /\ IsFiniteSet(Linked') /\ Cardinality(Linked') = Cardinality(Linked) + 1
          /\ Turned' = Turned
      BY <2>1, <2>2, LinkedGrows
    <3>3. tcp_links' = tcp_links + 1
      BY <2>2 DEF TcpLinksInc
    <3>4. Finite'
      BY <3>2 DEF IInv, Finite
    <3>5. CountDrift' /\ (ManualCloseNotifies => NoLeakedSlot')
      BY <3>2, <3>3, Sizes DEF IInv, CountDrift, NoLeakedSlot
    <3> QED
      BY <3>1, <3>4, <3>5 DEF IInv
  <2>3. CASE conn' = [conn EXCEPT ![c] = "refused"] /\ tcp_links' = tcp_links
    <3>1. TypeOK' /\ Linked' = Linked /\ Turned' = Turned
      BY <1>3, <2>1, <2>3 DEF IInv, TypeOK, OnConnected, ConnState, Linked, Turned
    <3> QED
      BY <2>3, <3>1, SetsUnchanged
  <2> QED
    BY <1>3, <2>2, <2>3 DEF OnConnected
<1>4. ASSUME NEW c \in Conns, OnRead(c) PROVE IInv'
  <2>1. TypeOK' /\ Linked' = Linked /\ Turned' = Turned
    BY <1>4 DEF IInv, TypeOK, OnRead, HasHandlers, ConnState, Linked, Turned
  <2> QED
    BY <1>4, <2>1, SetsUnchanged DEF OnRead
<1>5. ASSUME NEW c \in Conns, LoopCloses(c) PROVE IInv'
  BY <1>5, EndIInv, NotifyAssumption DEF LoopCloses, HasHandlers
<1>6. ASSUME NEW c \in Conns, PeerCloses(c) PROVE IInv'
  <2>1. CASE HasHandlers(c) /\ End(c, TRUE)
    BY <2>1, EndIInv
  <2>2. CASE conn[c] = "bare" /\ End(c, FALSE)
    <3>1. TypeOK' /\ Linked' = Linked /\ Turned' = Turned
      BY <2>2 DEF IInv, TypeOK, End, Gone, ConnState, Linked, Turned
    <3> QED
      BY <2>2, <3>1, SetsUnchanged DEF End
  <2> QED
    BY <1>6, <2>1, <2>2 DEF PeerCloses
<1>7. ASSUME NEW c \in Conns, NEW d \in Data, Arrive(c, d) PROVE IInv'
  <2>1. TypeOK' /\ conn' = conn /\ tcp_links' = tcp_links
    BY <1>7 DEF IInv, TypeOK, Arrive
  <2> QED
    BY <2>1, SetsUnchanged DEF Linked, Turned
<1>8. CASE UNCHANGED vars
  <2>1. TypeOK' /\ conn' = conn /\ tcp_links' = tcp_links
    BY <1>8 DEF IInv, TypeOK, vars
  <2> QED
    BY <2>1, SetsUnchanged DEF Linked, Turned
<1> QED
  BY <1>1, <1>2, <1>3, <1>4, <1>5, <1>6, <1>7, <1>8 DEF Next, Loop, Client

\* IInv holds throughout, whatever the loop does with a manual close.
LEMMA Invariance == Spec => []IInv
BY InitIInv, NextIInv, PTL DEF Spec

-----------------------------------------------------------------------------
(* The results.                                                            *)

\* tcp_links stays within 0 .. max_links: it never underflows.
THEOREM TypeCorrect == Spec => []TypeOK
<1>1. IInv => TypeOK
  BY DEF IInv
<1> QED
  BY <1>1, Invariance, PTL

\* Each connection turned away lets at most one too many in.
THEOREM DriftBounded == Spec => []CountDrift
<1>1. IInv => CountDrift
  BY DEF IInv
<1> QED
  BY <1>1, Invariance, PTL

\* A loop that reports every close never loses a slot.
THEOREM NoSlotLeaks == ManualCloseNotifies => (Spec => []NoLeakedSlot)
<1> SUFFICES ASSUME ManualCloseNotifies PROVE Spec => []NoLeakedSlot
  OBVIOUS
<1>1. IInv => NoLeakedSlot
  BY DEF IInv
<1> QED
  BY <1>1, Invariance, PTL

\* ... and turns a connection away only when the limit is really reached.
THEOREM RefusesOnlyWhenFull == ManualCloseNotifies => (Spec => RefusedOnlyWhenFull)
<1> SUFFICES ASSUME ManualCloseNotifies PROVE Spec => RefusedOnlyWhenFull
  OBVIOUS
<1> DEFINE Full == \A c \in Conns :
                     conn[c] = "idle" /\ conn'[c] = "refused" => Cardinality(Linked) >= MaxLinks
<1>1. ASSUME IInv, Next PROVE Full
  <2> SUFFICES ASSUME NEW c \in Conns, conn[c] = "idle", conn'[c] = "refused"
               PROVE  Cardinality(Linked) >= MaxLinks
    BY DEF Full
  <2>1. PICK d \in Conns : Loop(d) \/ Client(d)
    BY <1>1 DEF Next, MainThread, StartServer, StartFails, InstallCallbacks
  <2>2. OnConnected(c) /\ IsTcpLinksMax
    <3>1. CASE d = c
      BY <1>1, <2>1, <3>1 DEF IInv, TypeOK, Loop, Client, OnConnected, AcceptBare, OnRead, LoopCloses,
           PeerCloses, Arrive, HasHandlers, End
    <3>2. CASE d # c
      BY <1>1, <2>1, <3>2 DEF IInv, TypeOK, Loop, Client, OnConnected, AcceptBare, OnRead, LoopCloses,
           PeerCloses, Arrive, HasHandlers, End
    <3> QED
      BY <3>1, <3>2
  <2>3. tcp_links >= MaxLinks /\ tcp_links <= Cardinality(Linked)
    BY <1>1, <2>2 DEF IsTcpLinksMax, IInv, NoLeakedSlot
  <2> QED
    BY <1>1, <2>3, Sizes, MaxLinksAssumption
<1>2. IInv /\ [Next]_vars => [Full]_vars
  BY <1>1
<1> QED
  BY <1>2, Invariance, PTL DEF Spec, RefusedOnlyWhenFull
=============================================================================
