-------------------------- MODULE SdkProtocol_proof --------------------------
(***************************************************************************)
(* Proofs about SdkProtocol, for any number of requests, any urls, methods *)
(* and routes, and reads that end anywhere.  The numbers of the headers on *)
(* the wire increase and are above those answered (Pending); what a client *)
(* that waits has on the wire is its last request or nothing (Waiting).    *)
(***************************************************************************)
EXTENDS SdkProtocol, WellFoundedInduction, SequenceTheorems, TLAPS

USE NumbersAssumption

-----------------------------------------------------------------------------
(* The value of a field that occurs several times.                         *)

\* A set of positions that is not empty has a greatest.
LEMMA GreatestExists ==
  ASSUME NEW n \in Nat, NEW S \in SUBSET (1 .. n), S # {}
  PROVE  Max(S) \in S /\ \A y \in S : Max(S) >= y
<1> DEFINE T == {n - x : x \in S}
<1>1. T \subseteq Nat /\ T # {}
  <2>1. \A x \in S : n - x \in Nat
    OBVIOUS
  <2>2. PICK x \in S : TRUE
    OBVIOUS
  <2> QED
    BY <2>1, <2>2
<1> DEFINE R == {pair \in Nat \X Nat : pair[1] < pair[2]}
<1>2. IsWellFoundedOn(R, Nat)
  BY NatLessThanWellFounded DEF OpToRel
<1> HIDE DEF R
<1>3. PICK d \in T : \A y \in T : ~(<<y, d>> \in R)
  <2> HIDE DEF T
  <2> QED
    BY <1>1, <1>2, WFMin
<1>4. \A y \in T : ~(y < d)
  BY <1>1, <1>3 DEF R
<1>5. PICK m \in S : d = n - m
  BY <1>3
<1>6. \A y \in S : m >= y
  <2> SUFFICES ASSUME NEW y \in S PROVE m >= y
    OBVIOUS
  <2>1. n - y \in T /\ ~(n - y < d)
    BY <1>4
  <2> QED
    BY <1>5, <2>1
<1> QED
  BY <1>5, <1>6 DEF Max

\* LastSet is one of the values, unless all are the default.
LEMMA LastSetIsSet ==
  ASSUME NEW n \in Nat, NEW values, DOMAIN values = 1 .. n, NEW default
  PROVE  \/ LastSet(values, default) = default
         \/ \E i \in 1 .. n : values[i] # default /\ LastSet(values, default) = values[i]
<1> DEFINE set == {i \in DOMAIN values : values[i] # default}
<1>1. CASE set = {}
  BY <1>1 DEF LastSet
<1>2. CASE set # {}
  <2>1. Max(set) \in set
    BY <1>2, GreatestExists
  <2>2. LastSet(values, default) = values[Max(set)]
    BY <1>2 DEF LastSet
  <2> QED
    BY <2>1, <2>2
<1> QED
  BY <1>1, <1>2

\* If only one of two values is set, it is that one.
LEMMA LastSetOfTwo ==
  ASSUME NEW values, DOMAIN values = 1 .. 2, NEW default
  PROVE  /\ values[2] = default => LastSet(values, default) = values[1]
         /\ values[1] = default => LastSet(values, default) = values[2]
<1>1. \/ LastSet(values, default) = default
      \/ \E i \in 1 .. 2 : values[i] # default /\ LastSet(values, default) = values[i]
  <2> DEFINE two == 2
  <2>1. two \in Nat /\ DOMAIN values = 1 .. two
    OBVIOUS
  <2> HIDE DEF two
  <2>2. \/ LastSet(values, default) = default
        \/ \E i \in 1 .. two : values[i] # default /\ LastSet(values, default) = values[i]
    BY <2>1, LastSetIsSet
  <2> QED
    BY <2>2 DEF two
<1>2. LastSet(values, default) = default => values[1] = default /\ values[2] = default
  <2> DEFINE set == {i \in DOMAIN values : values[i] # default}
  <2>1. ASSUME set # {}, LastSet(values, default) = default PROVE FALSE
    <3>1. Max(set) \in set
      BY <2>1, GreatestExists
    <3>2. LastSet(values, default) = values[Max(set)]
      BY <2>1 DEF LastSet
    <3> QED
      BY <2>1, <3>1, <3>2
  <2> QED
    BY <2>1
<1>3. \A i \in 1 .. 2 : i = 1 \/ i = 2
  OBVIOUS
<1> QED
  BY <1>1, <1>2, <1>3

-----------------------------------------------------------------------------
(* The invariant.                                                          *)

\* What is named has been asked.
Known ==
  /\ \A i \in DOMAIN wire : wire[i].pack \in DOMAIN asked
  /\ \A r \in DOMAIN replies : replies[r].pack \in DOMAIN asked

IsHeader(i) == wire[i].kind = "header"

\* Requests are numbered as they are sent, and read in that order.
Pending ==
  /\ \A i, j \in DOMAIN wire : i < j /\ IsHeader(i) /\ IsHeader(j) => wire[i].pack < wire[j].pack
  /\ \A r \in DOMAIN replies, i \in DOMAIN wire : IsHeader(i) => replies[r].pack < wire[i].pack

Waiting ==
  client = "waits" =>
    /\ \/ wire = << >>
       \/ asked # << >> /\ wire = <<HeaderField(Len(asked)), BodyField(Len(asked))>>
    /\ conn = "open" =>
         \A p \in DOMAIN asked : asked[p].synced =>
           \/ \E r \in DOMAIN replies : replies[r].pack = p
           \/ wire # << >> /\ p = Len(asked)

ProtocolInv ==
  ProtocolTypeOK /\ Known /\ Pending /\ AnswersInOrder /\ Waiting /\ WaitingIsUnmixed

\* At first nothing is sent or answered.
LEMMA InitProtocolInv == Init => ProtocolInv
<1> SUFFICES ASSUME Init PROVE ProtocolInv
  OBVIOUS
<1>1. wire = << >> /\ asked = << >> /\ replies = << >>
  BY DEF Init
<1>2. ProtocolTypeOK
  <2>1. wire \in Seq(Fields) /\ asked \in Seq(Request) /\ replies \in Seq(Reply) /\ Len(asked) = 0
    BY <1>1
  <2>2. client \in {"waits", "streams"} /\ registered \in BOOLEAN /\ conn \in {"open", "closed"}
    BY DEF Init
  <2> QED
    BY <2>1, <2>2 DEF ProtocolTypeOK
<1>3. DOMAIN wire = {} /\ DOMAIN asked = {} /\ DOMAIN replies = {}
  BY <1>1
<1>4. Known /\ Pending /\ AnswersInOrder /\ WaitingIsUnmixed
  BY <1>3 DEF Known, Pending, AnswersInOrder, WaitingIsUnmixed
<1>5. Waiting
  BY <1>1, <1>3 DEF Waiting
<1> QED
  BY <1>2, <1>4, <1>5 DEF ProtocolInv

-----------------------------------------------------------------------------
\* A message sent stands behind all others and has the next number.
LEMMA SendInv ==
  ASSUME ProtocolInv, NEW request \in Request, Send(request)
  PROVE  ProtocolInv'
<1> DEFINE p == Len(asked) + 1
<1> USE DEF ProtocolInv, ProtocolTypeOK
<1>1. /\ asked' \in Seq(Request) /\ Len(asked') = p /\ p \in 1 .. MaxSent
      /\ \A i \in 1 .. Len(asked) : asked'[i] = asked[i]
  BY DEF Send
<1>2. HeaderField(p) \in Fields /\ BodyField(p) \in Fields
  BY <1>1 DEF Fields
<1>3. <<HeaderField(p), BodyField(p)>> \in Seq(Fields)
  BY <1>2
<1>4. /\ wire' \in Seq(Fields) /\ Len(wire') = Len(wire) + 2
      /\ \A i \in 1 .. Len(wire) : wire'[i] = wire[i]
      /\ wire'[Len(wire) + 1] = HeaderField(p) /\ wire'[Len(wire) + 2] = BodyField(p)
  BY <1>3 DEF Send
<1>5. UNCHANGED <<client, registered, conn, replies>> /\ conn = "open"
  BY DEF Send
<1>6. \A i \in 1 .. Len(wire) : wire[i].pack \in 1 .. Len(asked)
  BY DEF Known
<1>7. \A r \in DOMAIN replies : replies[r].pack \in Nat /\ replies[r].pack < p
  BY DEF Known
<1>8. ProtocolTypeOK'
  BY <1>1, <1>4, <1>5
<1>9. Known'
  <2>1. \A i \in DOMAIN wire' : wire'[i].pack \in 1 .. p
    <3> SUFFICES ASSUME NEW i \in 1 .. Len(wire) + 2 PROVE wire'[i].pack \in 1 .. p
      BY <1>4
    <3>1. CASE i \in 1 .. Len(wire)
      <4>1. wire'[i].pack \in 1 .. Len(asked) /\ Len(asked) \in Nat
        BY <1>4, <1>6, <3>1
      <4> HIDE DEF ProtocolInv
      <4> QED
        BY <4>1
    <3>2. CASE i = Len(wire) + 1 \/ i = Len(wire) + 2
      BY <1>1, <1>4, <3>2 DEF HeaderField, BodyField
    <3> QED
      BY <3>1, <3>2
  <2> QED
    BY <1>1, <1>5, <2>1 DEF Known
<1>10. Pending'
  <2>1. \A i \in DOMAIN wire' : wire'[i].kind = "header" =>
          (i \in DOMAIN wire /\ wire'[i] = wire[i]) \/ (i = Len(wire) + 1 /\ wire'[i].pack = p)
    <3> SUFFICES ASSUME NEW i \in 1 .. Len(wire) + 2, wire'[i].kind = "header"
                 PROVE  \/ i \in 1 .. Len(wire) /\ wire'[i] = wire[i]
                        \/ i = Len(wire) + 1 /\ wire'[i].pack = p
      BY <1>4
    <3>1. CASE i \in 1 .. Len(wire)
      BY <1>4, <3>1
    <3>2. CASE i = Len(wire) + 1
      BY <1>4, <3>2 DEF HeaderField
    <3>3. CASE i = Len(wire) + 2
      BY <1>4, <3>3 DEF BodyField
    <3> QED
      BY <3>1, <3>2, <3>3
  <2>2. ASSUME NEW i \in DOMAIN wire', NEW j \in DOMAIN wire', i < j,
               wire'[i].kind = "header", wire'[j].kind = "header"
        PROVE  wire'[i].pack < wire'[j].pack
    <3>1. CASE j \in DOMAIN wire /\ wire'[j] = wire[j]
      <4>1. i \in DOMAIN wire /\ wire'[i] = wire[i]
        BY <1>4, <2>1, <2>2, <3>1
      <4> QED
        BY <2>2, <3>1, <4>1 DEF Pending, IsHeader
    <3>2. CASE j = Len(wire) + 1 /\ wire'[j].pack = p
      <4>1. i \in 1 .. Len(wire) /\ wire'[i] = wire[i] /\ Len(asked) \in Nat
        BY <1>4, <2>2, <3>2
      <4>2. wire'[i].pack \in 1 .. Len(asked)
        BY <1>6, <4>1
      <4> HIDE DEF ProtocolInv
      <4> QED
        BY <3>2, <4>1, <4>2
    <3> QED
      BY <2>1, <2>2, <3>1, <3>2
  <2>3. ASSUME NEW r \in DOMAIN replies, NEW i \in DOMAIN wire', wire'[i].kind = "header"
        PROVE  replies[r].pack < wire'[i].pack
    <3>1. CASE i \in DOMAIN wire /\ wire'[i] = wire[i]
      BY <2>3, <3>1 DEF Pending, IsHeader
    <3>2. CASE wire'[i].pack = p
      BY <1>7, <2>3, <3>2
    <3> QED
      BY <2>1, <2>3, <3>1, <3>2
  <2> QED
    BY <1>5, <2>2, <2>3 DEF Pending, IsHeader
<1>11. AnswersInOrder'
  BY <1>5 DEF AnswersInOrder
<1>12. Waiting'
  <2> SUFFICES ASSUME client = "waits" PROVE Waiting'
    BY <1>5 DEF Waiting
  <2>1. wire = << >>
    BY DEF Send
  <2>2. wire' = <<HeaderField(p), BodyField(p)>>
    BY <2>1 DEF Send
  <2>3. wire' # << >> /\ asked' # << >>
    BY <1>1, <2>2
  <2>4. ASSUME NEW q \in DOMAIN asked', asked'[q].synced
        PROVE  (\E r \in DOMAIN replies : replies[r].pack = q) \/ q = p
    <3>1. CASE q \in 1 .. Len(asked)
      BY <1>1, <1>5, <2>1, <2>4, <3>1 DEF Waiting
    <3>2. CASE q = p
      BY <3>2
    <3> QED
      BY <1>1, <3>1, <3>2
  <2> QED
    BY <1>1, <1>5, <2>2, <2>3, <2>4 DEF Waiting
<1>13. WaitingIsUnmixed'
  <2> SUFFICES ASSUME client = "waits", NEW i \in DOMAIN replies
               PROVE  LET was == asked'[replies[i].pack]
                      IN  replies[i].url = was.url /\ replies[i].method = was.method
    BY <1>5 DEF WaitingIsUnmixed
  <2>1. replies[i].pack \in 1 .. Len(asked)
    BY DEF Known
  <2>2. asked'[replies[i].pack] = asked[replies[i].pack]
    BY <1>1, <2>1
  <2> QED
    BY <2>2 DEF WaitingIsUnmixed
<1> QED
  BY <1>8, <1>9, <1>10, <1>11, <1>12, <1>13

-----------------------------------------------------------------------------
(* A read.                                                                 *)

\* The first n fields are taken, the others move up.
LEMMA ReadCuts ==
  ASSUME ProtocolInv, NEW n \in 1 .. Len(wire)
  PROVE  /\ SubSeq(wire, 1, n) \in Seq(Fields) /\ Len(SubSeq(wire, 1, n)) = n
         /\ \A i \in 1 .. n : SubSeq(wire, 1, n)[i] = wire[i]
         /\ SubSeq(wire, n + 1, Len(wire)) \in Seq(Fields)
         /\ Len(SubSeq(wire, n + 1, Len(wire))) = Len(wire) - n
         /\ \A i \in 1 .. Len(wire) - n : SubSeq(wire, n + 1, Len(wire))[i] = wire[n + i]
<1>1. wire \in Seq(Fields)
  BY DEF ProtocolInv, ProtocolTypeOK
<1> QED
  BY <1>1

\* An answer to a request that has been sent is of its type.
LEMMA AnswerIsTyped ==
  ASSUME ProtocolInv, NEW fields \in Seq(Fields), NEW accepted \in BOOLEAN,
         \A i \in DOMAIN fields : fields[i].pack \in DOMAIN asked,
         Pack(fields) \in 1 .. MaxSent
  PROVE  Answer(fields, accepted) \in Reply
<1>1. asked \in Seq(Request) /\ \A p \in DOMAIN asked : asked[p] \in Request
  BY DEF ProtocolInv, ProtocolTypeOK
<1>2. Url(fields) \in Urls \cup {NoUrl}
  <2> DEFINE values == [i \in DOMAIN fields |-> IF IsBody(fields[i]) THEN asked[fields[i].pack].url ELSE NoUrl]
  <2>1. DOMAIN values = 1 .. Len(fields)
    OBVIOUS
  <2>2. \A i \in 1 .. Len(fields) : values[i] \in Urls \cup {NoUrl}
    BY <1>1 DEF Request
  <2> HIDE DEF values
  <2>3. LastSet(values, NoUrl) \in Urls \cup {NoUrl}
    BY <2>1, <2>2, LastSetIsSet
  <2> QED
    BY <2>3 DEF Url, values
<1>3. Method(fields) \in Methods \cup {0}
  <2> DEFINE values == [i \in DOMAIN fields |-> IF IsBody(fields[i]) THEN asked[fields[i].pack].method ELSE 0]
  <2>1. DOMAIN values = 1 .. Len(fields)
    OBVIOUS
  <2>2. \A i \in 1 .. Len(fields) : values[i] \in Methods \cup {0}
    BY <1>1 DEF Request
  <2> HIDE DEF values
  <2>3. LastSet(values, 0) \in Methods \cup {0}
    BY <2>1, <2>2, LastSetIsSet
  <2> QED
    BY <2>3 DEF Method, values
<1>4. ContentResult(accepted) \in {"unset", "R_CODE_OK", "R_CODE_ERROR"}
  BY DEF ContentResult
<1>5. /\ Processed(Url(fields), Method(fields), accepted).sdk \in {"unset", "OK", "ERROR"}
      /\ Processed(Url(fields), Method(fields), accepted).ran \in BOOLEAN
  BY DEF Processed, BodyDo, Routed
<1> QED
  BY <1>2, <1>3, <1>4, <1>5 DEF Answer, Reply

\* The number of an answer is that of a header it was read with.
LEMMA PackIsRead ==
  ASSUME NEW fields \in Seq(Fields), Pack(fields) # 0
  PROVE  \E i \in DOMAIN fields : fields[i].kind = "header" /\ Pack(fields) = fields[i].pack
<1> DEFINE values == [i \in DOMAIN fields |-> IF fields[i].kind = "header" THEN fields[i].pack ELSE 0]
<1>1. DOMAIN values = 1 .. Len(fields)
  OBVIOUS
<1>2. PICK i \in 1 .. Len(fields) : values[i] # 0 /\ Pack(fields) = values[i]
  <2> HIDE DEF values
  <2>1. LastSet(values, 0) # 0
    BY DEF Pack, values
  <2>2. \E i \in 1 .. Len(fields) : values[i] # 0 /\ LastSet(values, 0) = values[i]
    BY <1>1, <2>1, LastSetIsSet
  <2> QED
    BY <2>2 DEF Pack, values
<1> QED
  BY <1>1, <1>2

\* A message read whole is answered with its own number, url and method.
LEMMA WholeMessage ==
  ASSUME NEW p \in DOMAIN asked, p \in Nat, NEW fields, fields = <<HeaderField(p), BodyField(p)>>
  PROVE  Pack(fields) = p /\ Url(fields) = asked[p].url /\ Method(fields) = asked[p].method
<1>1. /\ DOMAIN fields = 1 .. 2
      /\ fields[1].kind = "header" /\ fields[1].pack = p
      /\ fields[2].kind = "body" /\ fields[2].pack = p
  BY DEF HeaderField, BodyField
<1>2. Pack(fields) = p
  <2> DEFINE values == [i \in DOMAIN fields |-> IF fields[i].kind = "header" THEN fields[i].pack ELSE 0]
  <2>1. DOMAIN values = 1 .. 2 /\ values[1] = p /\ values[2] = 0
    BY <1>1
  <2> HIDE DEF values
  <2>2. LastSet(values, 0) = values[1]
    BY <2>1, LastSetOfTwo
  <2>3. Pack(fields) = LastSet(values, 0)
    BY DEF Pack, values
  <2> QED
    BY <2>1, <2>2, <2>3
<1>3. Url(fields) = asked[p].url
  <2> DEFINE values == [i \in DOMAIN fields |-> IF IsBody(fields[i]) THEN asked[fields[i].pack].url ELSE NoUrl]
  <2>1. DOMAIN values = 1 .. 2 /\ values[2] = asked[p].url /\ values[1] = NoUrl
    BY <1>1 DEF IsBody
  <2> HIDE DEF values
  <2>2. LastSet(values, NoUrl) = values[2]
    BY <2>1, LastSetOfTwo
  <2>3. Url(fields) = LastSet(values, NoUrl)
    BY DEF Url, values
  <2> QED
    BY <2>1, <2>2, <2>3
<1>4. Method(fields) = asked[p].method
  <2> DEFINE values == [i \in DOMAIN fields |-> IF IsBody(fields[i]) THEN asked[fields[i].pack].method ELSE 0]
  <2>1. DOMAIN values = 1 .. 2 /\ values[2] = asked[p].method /\ values[1] = 0
    BY <1>1 DEF IsBody
  <2> HIDE DEF values
  <2>2. LastSet(values, 0) = values[2]
    BY <2>1, LastSetOfTwo
  <2>3. Method(fields) = LastSet(values, 0)
    BY DEF Method, values
  <2> QED
    BY <2>1, <2>2, <2>3
<1> QED
  BY <1>2, <1>3, <1>4
-----------------------------------------------------------------------------
\* What a read leaves on the wire is in order, and above what was answered.
LEMMA RestInOrder ==
  ASSUME ProtocolInv, NEW n \in 1 .. Len(wire), OnRead(n)
  PROVE  /\ \A i \in DOMAIN wire' : i + n \in DOMAIN wire /\ wire'[i] = wire[i + n]
         /\ \A i \in DOMAIN wire' : wire'[i].pack \in DOMAIN asked
         /\ \A i, j \in DOMAIN wire' : i < j /\ IsHeader(i)' /\ IsHeader(j)' =>
              wire'[i].pack < wire'[j].pack
<1>1. /\ wire' \in Seq(Fields) /\ Len(wire') = Len(wire) - n
      /\ \A i \in 1 .. Len(wire) - n : wire'[i] = wire[n + i]
  BY ReadCuts DEF OnRead
<1>2. DOMAIN wire = 1 .. Len(wire) /\ DOMAIN wire' = 1 .. Len(wire) - n /\ Len(wire) \in Nat
  BY <1>1 DEF ProtocolInv, ProtocolTypeOK
<1>3. \A i \in DOMAIN wire' : i + n \in DOMAIN wire /\ wire'[i] = wire[i + n]
  BY <1>1, <1>2
<1>4. ASSUME NEW i \in DOMAIN wire' PROVE wire'[i].pack \in DOMAIN asked
  <2>1. i + n \in DOMAIN wire /\ wire'[i] = wire[i + n]
    BY <1>3
  <2> QED
    BY <2>1 DEF ProtocolInv, Known
<1>5. ASSUME NEW i \in DOMAIN wire', NEW j \in DOMAIN wire', i < j,
             wire'[i].kind = "header", wire'[j].kind = "header"
      PROVE  wire'[i].pack < wire'[j].pack
  <2>1. i + n < j + n /\ i + n \in DOMAIN wire /\ j + n \in DOMAIN wire
    BY <1>2, <1>3, <1>5
  <2>2. wire'[i] = wire[i + n] /\ wire'[j] = wire[j + n]
    BY <1>2, <1>3
  <2> QED
    BY <1>5, <2>1, <2>2 DEF ProtocolInv, Pending, IsHeader
<1> QED
  BY <1>3, <1>4, <1>5 DEF IsHeader

\* What a client that waits has sent is read whole.
LEMMA WaitingReadsWhole ==
  ASSUME ProtocolInv, NEW n \in 1 .. Len(wire), OnRead(n), client = "waits"
  PROVE  /\ wire' = << >>
         /\ Len(asked) \in DOMAIN asked
         /\ Pack(SubSeq(wire, 1, n)) = Len(asked)
         /\ Url(SubSeq(wire, 1, n)) = asked[Len(asked)].url
         /\ Method(SubSeq(wire, 1, n)) = asked[Len(asked)].method
<1>1. n = Len(wire) /\ wire \in Seq(Fields) /\ asked \in Seq(Request)
  BY DEF OnRead, ProtocolInv, ProtocolTypeOK
<1>2. wire # << >>
  BY <1>1
<1>3. asked # << >> /\ wire = <<HeaderField(Len(asked)), BodyField(Len(asked))>>
  BY <1>2 DEF ProtocolInv, Waiting
<1>4. Len(asked) \in DOMAIN asked /\ Len(asked) \in Nat
  BY <1>1, <1>3
<1>5. SubSeq(wire, 1, n) = wire
  BY <1>1, SubSeqFull
<1>6. wire' = << >>
  <2>1. wire' \in Seq(Fields) /\ Len(wire') = 0
    BY <1>1, ReadCuts DEF OnRead
  <2> QED
    BY <2>1
<1> QED
  BY <1>3, <1>4, <1>5, <1>6, WholeMessage

\* A read that is not answered: the header is wrong, or there is none.
LEMMA UnansweredInv ==
  ASSUME ProtocolInv, NEW n \in 1 .. Len(wire), OnRead(n),
         ~HeaderCheck(Pack(SubSeq(wire, 1, n))), UNCHANGED replies
  PROVE  ProtocolInv'
<1>1. UNCHANGED <<client, registered, conn, asked, replies>> /\ conn = "open"
  BY DEF OnRead
<1>2. wire' \in Seq(Fields)
  BY ReadCuts DEF OnRead
<1>3. ProtocolTypeOK'
  BY <1>1, <1>2 DEF ProtocolInv, ProtocolTypeOK
<1>4. Known'
  BY <1>1, RestInOrder DEF ProtocolInv, Known
<1>5. Pending'
  <2>1. ASSUME NEW r \in DOMAIN replies, NEW i \in DOMAIN wire', wire'[i].kind = "header"
        PROVE  replies[r].pack < wire'[i].pack
    <3>1. i + n \in DOMAIN wire /\ wire'[i] = wire[i + n]
      <4>1. i \in Int
        BY <1>2
      <4> QED
        BY <4>1, RestInOrder
    <3> QED
      BY <2>1, <3>1 DEF ProtocolInv, Pending, IsHeader
  <2> QED
    BY <1>1, <2>1, RestInOrder DEF Pending, IsHeader
<1>6. AnswersInOrder' /\ WaitingIsUnmixed'
  BY <1>1 DEF ProtocolInv, AnswersInOrder, WaitingIsUnmixed
<1>7. Waiting'
  <2> SUFFICES ASSUME client = "waits" PROVE Waiting'
    BY <1>1 DEF Waiting
  <2>1. wire' = << >> /\ Pack(SubSeq(wire, 1, n)) = Len(asked) /\ Len(asked) \in DOMAIN asked
    BY WaitingReadsWhole
  <2>2. ~asked[Len(asked)].synced
    <3>1. Len(asked) # 0
      BY <2>1 DEF ProtocolInv, ProtocolTypeOK
    <3> QED
      BY <2>1, <3>1 DEF HeaderCheck
  <2> QED
    BY <1>1, <2>1, <2>2 DEF ProtocolInv, Waiting
<1> QED
  BY <1>3, <1>4, <1>5, <1>6, <1>7 DEF ProtocolInv

\* A read that is answered: the answer has the number of a header of the read,
\* which is above those answered and below those left on the wire.
LEMMA AnsweredInv ==
  ASSUME ProtocolInv, NEW n \in 1 .. Len(wire), OnRead(n),
         HeaderCheck(Pack(SubSeq(wire, 1, n))), NEW accepted \in BOOLEAN,
         replies' = Append(replies, Answer(SubSeq(wire, 1, n), accepted))
  PROVE  ProtocolInv'
<1> DEFINE fields == SubSeq(wire, 1, n)
           a == Answer(fields, accepted)
<1>1. UNCHANGED <<client, registered, conn, asked>> /\ conn = "open"
  BY DEF OnRead
<1>2. wire' \in Seq(Fields) /\ fields \in Seq(Fields) /\ DOMAIN fields = 1 .. n
  BY ReadCuts DEF OnRead
<1>3. \A i \in 1 .. n : i \in DOMAIN wire /\ fields[i] = wire[i]
  BY ReadCuts DEF ProtocolInv, ProtocolTypeOK
<1>4. PICK k \in 1 .. n : wire[k].kind = "header" /\ Pack(fields) = wire[k].pack
  <2> HIDE DEF fields
  <2>1. Pack(fields) # 0
    BY DEF HeaderCheck, fields
  <2> QED
    BY <1>2, <1>3, <2>1, PackIsRead
<1>5. a.pack = wire[k].pack /\ a.url = Url(fields) /\ a.method = Method(fields)
  BY <1>4 DEF Answer
<1>6. k \in DOMAIN wire /\ wire[k].pack \in DOMAIN asked
  BY <1>3 DEF ProtocolInv, Known
<1>7. a \in Reply
  <2> HIDE DEF fields
  <2>1. \A i \in DOMAIN fields : fields[i].pack \in DOMAIN asked
    BY <1>2, <1>3 DEF ProtocolInv, Known
  <2>2. Pack(fields) \in 1 .. MaxSent
    BY <1>4, <1>6 DEF ProtocolInv, ProtocolTypeOK
  <2> QED
    BY <1>2, <2>1, <2>2, AnswerIsTyped
<1> HIDE DEF fields, a
<1>8. /\ replies' \in Seq(Reply) /\ Len(replies') = Len(replies) + 1 /\ Len(replies) \in Nat
      /\ DOMAIN replies = 1 .. Len(replies) /\ DOMAIN replies' = 1 .. Len(replies) + 1
      /\ \A r \in 1 .. Len(replies) : replies'[r] = replies[r]
      /\ replies'[Len(replies) + 1] = a
  <2>1. replies' = Append(replies, a) /\ replies \in Seq(Reply)
    BY DEF ProtocolInv, ProtocolTypeOK, a, fields
  <2> QED
    BY <1>7, <2>1
<1>9. \A r \in DOMAIN replies' : (r \in DOMAIN replies /\ replies'[r] = replies[r])
                                 \/ (r = Len(replies) + 1 /\ replies'[r] = a)
  BY <1>8
<1>10. \A r \in DOMAIN replies : replies[r].pack < a.pack
  BY <1>4, <1>5, <1>6 DEF ProtocolInv, Pending, IsHeader
<1>11. ProtocolTypeOK'
  BY <1>1, <1>2, <1>8 DEF ProtocolInv, ProtocolTypeOK
<1>12. Known'
  <2>1. \A i \in DOMAIN wire' : wire'[i].pack \in DOMAIN asked
    BY RestInOrder DEF ProtocolInv, Known
  <2>2. \A r \in DOMAIN replies' : replies'[r].pack \in DOMAIN asked
    BY <1>5, <1>6, <1>9 DEF ProtocolInv, Known
  <2> QED
    BY <1>1, <2>1, <2>2 DEF Known
<1>13. Pending'
  <2>1. ASSUME NEW r \in DOMAIN replies', NEW i \in DOMAIN wire', wire'[i].kind = "header"
        PROVE  replies'[r].pack < wire'[i].pack
    <3>1. i + n \in DOMAIN wire /\ wire'[i] = wire[i + n] /\ k < i + n
      <4>1. i \in Nat \ {0}
        BY <1>2
      <4> QED
        BY <4>1, RestInOrder
    <3>2. CASE r \in DOMAIN replies /\ replies'[r] = replies[r]
      BY <2>1, <3>1, <3>2 DEF ProtocolInv, Pending, IsHeader
    <3>3. CASE replies'[r] = a
      <4>1. wire[k].pack < wire[i + n].pack
        BY <1>4, <1>6, <2>1, <3>1 DEF ProtocolInv, Pending, IsHeader
      <4> QED
        BY <1>5, <3>1, <3>3, <4>1
    <3> QED
      BY <1>9, <3>2, <3>3
  <2> QED
    BY <2>1, RestInOrder DEF Pending, IsHeader
<1>14. AnswersInOrder'
  <2> SUFFICES ASSUME NEW i \in DOMAIN replies', NEW j \in DOMAIN replies', i < j
               PROVE  replies'[i].pack < replies'[j].pack
    BY DEF AnswersInOrder
  <2>1. CASE j \in DOMAIN replies
    BY <1>8, <2>1 DEF ProtocolInv, AnswersInOrder
  <2>2. CASE j = Len(replies) + 1
    <3>1. i \in DOMAIN replies
      BY <1>8, <2>2
    <3> QED
      BY <1>8, <1>10, <2>2, <3>1
  <2> QED
    BY <1>8, <2>1, <2>2
<1>15. ASSUME client = "waits" PROVE Waiting' /\ WaitingIsUnmixed'
  <2>1. /\ wire' = << >> /\ a.pack = Len(asked) /\ Len(asked) \in DOMAIN asked
        /\ a.url = asked[a.pack].url /\ a.method = asked[a.pack].method
    BY <1>4, <1>5, <1>15, WaitingReadsWhole DEF fields
  <2>2. \E r \in DOMAIN replies' : replies'[r].pack = Len(asked)
    BY <1>8, <2>1
  <2>3. \A r \in DOMAIN replies : \E q \in DOMAIN replies' : replies'[q].pack = replies[r].pack
    BY <1>8
  <2>4. Waiting'
    <3>1. ASSUME NEW p \in DOMAIN asked, asked[p].synced
          PROVE  \E r \in DOMAIN replies' : replies'[r].pack = p
      <4>1. (\E r \in DOMAIN replies : replies[r].pack = p) \/ p = Len(asked)
        BY <1>1, <1>15, <3>1 DEF ProtocolInv, Waiting
      <4> QED
        BY <2>2, <2>3, <4>1
    <3> QED
      BY <1>1, <2>1, <3>1 DEF Waiting
  <2>5. WaitingIsUnmixed'
    BY <1>1, <1>9, <1>15, <2>1 DEF ProtocolInv, WaitingIsUnmixed
  <2> QED
    BY <2>4, <2>5
<1>16. client # "waits" => Waiting' /\ WaitingIsUnmixed'
  BY <1>1 DEF Waiting, WaitingIsUnmixed
<1> QED
  BY <1>11, <1>12, <1>13, <1>14, <1>15, <1>16 DEF ProtocolInv

-----------------------------------------------------------------------------
\* The middleware accepts or refuses.
LEMMA AcceptsIsBoolean == \A session : Accepts(session) \subseteq BOOLEAN
BY DEF Accepts

\* Reading and answering any number of fields keeps the invariant.
LEMMA ReadInv ==
  ASSUME ProtocolInv, NEW n \in 1 .. Len(wire), OnRead(n)
  PROVE  ProtocolInv'
<1>1. SdkProtocolDo(SubSeq(wire, 1, n))
  BY DEF OnRead
<1>2. CASE /\ ~HeaderCheck(Pack(SubSeq(wire, 1, n)))
           /\ UNCHANGED replies
  BY <1>2, UnansweredInv
<1>3. CASE /\ HeaderCheck(Pack(SubSeq(wire, 1, n)))
           /\ \E accepted \in Accepts(Session(SubSeq(wire, 1, n))) :
                replies' = Append(replies, Answer(SubSeq(wire, 1, n), accepted))
  BY <1>3, AnsweredInv, AcceptsIsBoolean
<1> QED
  BY <1>1, <1>2, <1>3 DEF SdkProtocolDo

\* So does every step.
LEMMA ProtocolInductive == ProtocolInv /\ [Next]_vars => ProtocolInv'
<1> SUFFICES ASSUME ProtocolInv, [Next]_vars PROVE ProtocolInv'
  OBVIOUS
<1>1. ASSUME UNCHANGED <<client, wire, asked, replies, conn>>, registered' \in BOOLEAN
      PROVE  ProtocolInv'
  BY <1>1 DEF ProtocolInv, ProtocolTypeOK, Known, Pending, IsHeader, AnswersInOrder, Waiting,
              WaitingIsUnmixed
<1>2. CASE UNCHANGED vars \/ RegisterSdkMidwares
  BY <1>1, <1>2 DEF vars, RegisterSdkMidwares, ProtocolInv, ProtocolTypeOK
<1>3. ASSUME NEW request \in Request, Send(request) PROVE ProtocolInv'
  BY <1>3, SendInv
<1>4. ASSUME NEW n \in 1 .. Len(wire), OnRead(n) PROVE ProtocolInv'
  BY <1>4, ReadInv
<1>5. CASE OnReadBroken
  <2>1. wire' = << >> /\ conn' = "closed" /\ UNCHANGED <<client, registered, asked, replies>>
    BY <1>5 DEF OnReadBroken
  <2>2. wire' \in Seq(Fields) /\ DOMAIN wire' = {}
    BY <2>1
  <2>3. ProtocolTypeOK'
    BY <2>1, <2>2 DEF ProtocolInv, ProtocolTypeOK
  <2>4. Known' /\ Pending' /\ AnswersInOrder' /\ WaitingIsUnmixed'
    BY <2>1, <2>2 DEF ProtocolInv, Known, Pending, IsHeader, AnswersInOrder, WaitingIsUnmixed
  <2>5. Waiting'
    BY <2>1 DEF Waiting
  <2> QED
    BY <2>3, <2>4, <2>5 DEF ProtocolInv
<1> QED
  BY <1>2, <1>3, <1>4, <1>5 DEF Next

\* It always holds.
LEMMA ProtocolInvariant == Spec => []ProtocolInv
BY InitProtocolInv, ProtocolInductive, PTL DEF Spec

-----------------------------------------------------------------------------
\* However a stream of any number of requests is cut and merged, the answers
\* come in the order of the requests they name, and none is named twice.
\* (input.consume, sdk_pack_res_msg_header)
THEOREM AnswersComeInOrder == Spec => []AnswersInOrder
<1>1. ProtocolInv => AnswersInOrder
  BY DEF ProtocolInv
<1> QED
  BY <1>1, ProtocolInvariant, PTL

\* A client that waits for its answers gets the right ones, of any routes.
\* (sdk_pack_res_msg_header, the router)
THEOREM WaitingGetsItsOwn == Spec => []WaitingIsUnmixed
<1>1. ProtocolInv => WaitingIsUnmixed
  BY DEF ProtocolInv
<1> QED
  BY <1>1, ProtocolInvariant, PTL

\* ... and one to each request with a correct header, while the connection
\* stands.  (sdk_protocol_do, onRead)
THEOREM WaitingGetsAnswers == Spec => []WaitingIsAnswered
<1>1. ProtocolInv => WaitingIsAnswered
  BY DEF ProtocolInv, Waiting, WaitingIsAnswered
<1> QED
  BY <1>1, ProtocolInvariant, PTL

\* Requests, answers and the stream are well formed: no answer names a request
\* that was not sent.  (onRead)
THEOREM ProtocolTypeCorrect == Spec => [](ProtocolTypeOK /\ Known)
<1>1. ProtocolInv => ProtocolTypeOK /\ Known
  BY DEF ProtocolInv
<1> QED
  BY <1>1, ProtocolInvariant, PTL

\* Once the middleware is registered, no step answers a request as run that it
\* refused, nor tells a refusal in one result and success in the other.
\* (sdk_protocol_do, sdk_midware_function)
THEOREM RefusedDoNotRun == Spec => RefusedIsNotRun
<1> DEFINE Right == registered /\ replies' # replies =>
                      LET r == Last(replies')
                      IN  /\ r.ran => r.content = "R_CODE_OK"
                          /\ r.content = "R_CODE_ERROR" => r.sdk = "ERROR"
<1>1. ASSUME ProtocolInv, [Next]_vars PROVE [Right]_vars
  <2> SUFFICES ASSUME registered, replies' # replies
               PROVE  /\ Last(replies').ran => Last(replies').content = "R_CODE_OK"
                      /\ Last(replies').content = "R_CODE_ERROR" => Last(replies').sdk = "ERROR"
    OBVIOUS
  <2>1. PICK n \in 1 .. Len(wire) : OnRead(n)
    BY <1>1 DEF Next, vars, Send, OnReadBroken, RegisterSdkMidwares
  <2> DEFINE fields == SubSeq(wire, 1, n)
  <2>2. PICK accepted \in BOOLEAN : replies' = Append(replies, Answer(fields, accepted))
    BY <2>1, AcceptsIsBoolean DEF OnRead, SdkProtocolDo
  <2> HIDE DEF fields
  <2>3. Last(replies') = Answer(fields, accepted)
    BY <1>1, <2>2 DEF Last, ProtocolInv, ProtocolTypeOK
  <2>4. /\ Answer(fields, accepted).content = ContentResult(accepted)
        /\ Answer(fields, accepted).ran = Processed(Url(fields), Method(fields), accepted).ran
        /\ Answer(fields, accepted).sdk = Processed(Url(fields), Method(fields), accepted).sdk
    BY DEF Answer
  <2>5. CASE accepted
    BY <2>3, <2>4, <2>5 DEF ContentResult
  <2>6. CASE ~accepted
    BY <2>3, <2>4, <2>6 DEF ContentResult, Processed
  <2> QED
    BY <2>5, <2>6
<1> QED
  BY <1>1, ProtocolInvariant, PTL DEF Spec, RefusedIsNotRun
=============================================================================
