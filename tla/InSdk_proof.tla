----------------------------- MODULE InSdk_proof ------------------------------
(***************************************************************************)
(* Proofs about the messages of InSdk: each is an instance of the theory   *)
(* of ProtoWire_proof, named Of<message>, for the fields that the code     *)
(* generated for it writes (<message>Wire).  From the parts of a message   *)
(* follows that it is Sound: it reads back as it was written, and reading  *)
(* more of it is merging what was read.  Content is the exception: its     *)
(* lists exclude each other, and it is sound for the lists that may come.  *)
(***************************************************************************)
EXTENDS InSdk, TLAPS, SequenceTheorems

\* The value of a field is what a part that is no message becomes.
ScalarTakePart(x, old, field) == field.value

\* No element, or one, of a set.
LEMMA ShortSeq ==
  ASSUME NEW S
  PROVE  << >> \in Seq(S) /\ \A x \in S : <<x>> \in Seq(S)
OBVIOUS

\* A message field that is not set.  (the generated has_ members)
LEMMA NoPointer ==
  ASSUME NEW M
  PROVE  << >> \in Pointer(M)
BY DEF Pointer

\* One that is.
LEMMA SomePointer ==
  ASSUME NEW M, NEW m \in M
  PROVE  <<m>> \in Pointer(M)
BY DEF Pointer

-----------------------------------------------------------------------------
(* Host.                                                                   *)

TakeHost(m, field) == TakeScalar(m, field, HostFields)
HostNumbers == [ip_version |-> 1, port |-> 2, ip |-> 3]
HostMergePart(x, to, from) ==
  MergeScalar(to, from, NewHost[x])
HostPutPart(x, value) ==
  PutScalar(HostNumbers[x], value, NewHost[x])
OfHost ==
  INSTANCE ProtoWire_proof
  WITH New <- NewHost, Take <- TakeHost, Merge <- MergeHost, Serialize <- SerializeHost,
       Names <- HostFields, Numbers <- HostNumbers, TakePart <- ScalarTakePart,
       MergePart <- HostMergePart, PutPart <- HostPutPart
HostTypes ==
  [ip_version |-> Nat, port |-> Nat, ip |-> STRING]
HostValues == [x \in DOMAIN NewHost |-> HostTypes[x] \ {NewHost[x]}]
HostWire == OfHost!Wire(HostValues)

\* Its operators are those of the general theory.
LEMMA HostLoop ==
  ASSUME NEW m, NEW fields, NEW p, NEW q, NEW field, NEW number
  PROVE  /\ ParseHost(m, fields) = OfHost!Parse(m, fields)
         /\ TakeMessage(p, field, ParseHost, NewHost) = OfHost!TakePointer(p, field)
         /\ MergeMessage(p, q, MergeHost, NewHost) = OfHost!MergePointers(p, q)
         /\ PutMessage(number, p, SerializeHost) = OfHost!PutPointer(number, p)
<1>1. \A n, fs : ParseHost(n, fs) = OfHost!Parse(n, fs)
  BY DEF ParseHost, TakeScalars, TakeHost, TakeFields, OfHost!Parse, OfHost!TakeFields
<1> QED
  BY <1>1 DEF TakeMessage, MergeMessage, PutMessage, Deref, Field, OfHost!TakePointer,
    OfHost!TakeMessage, OfHost!Deref, OfHost!MergePointers, OfHost!MergeMessage, OfHost!PutPointer,
    OfHost!PutMessage, OfHost!Field

\* A Host has these parts, each of its type.
LEMMA HostTyped == OfHost!Typed(Host, HostTypes)
BY DEF OfHost!Typed, OfHost!HasParts, OfHost!Parts, Host, HostTypes, NewHost

\* What is written of a Host is read back, and reading more of it is merging.
\* (Host::_InternalParse, MergeFrom, _InternalSerialize)
LEMMA HostSound == OfHost!Sound(Host, Host, HostWire)
<1>1. OfHost!Parts = {"ip_version", "port", "ip"} /\ OfHost!HasParts(NewHost)
  BY DEF OfHost!Parts, OfHost!HasParts, NewHost
<1>2. /\ Len(HostFields) = 3 /\ DOMAIN HostFields = 1 .. 3 /\ HostFields[1] = "ip_version"
      /\ HostFields[2] = "port" /\ HostFields[3] = "ip"
  BY DEF HostFields
<1>3. /\ HostNumbers["ip_version"] = 1 /\ HostNumbers["port"] = 2 /\ HostNumbers["ip"] = 3
  BY DEF HostNumbers
<1>4. /\ NewHost["ip_version"] = 0 /\ NewHost["port"] = 0 /\ NewHost["ip"] = ""
  BY DEF NewHost
<1>5. OfHost!AllWritten
  BY <1>1, <1>2 DEF OfHost!AllWritten
<1>6. ASSUME NEW x \in OfHost!Parts, NEW m, NEW field, field.number = HostNumbers[x]
      PROVE  TakeHost(m, field) = OfHost!With(m, x, ScalarTakePart(x, m[x], field))
  <2>1. HostNumbers[x] \in DOMAIN HostFields /\ HostFields[HostNumbers[x]] = x
    BY <1>1, <1>2, <1>3
  <2> QED
    BY <1>6, <2>1 DEF TakeHost, TakeScalar, OfHost!With, ScalarTakePart
<1>7. ASSUME NEW to, NEW from
      PROVE  MergeHost(to, from) = [x \in OfHost!Parts |-> HostMergePart(x, to[x], from[x])]
  BY <1>1 DEF MergeHost, MergeScalars, HostMergePart, OfHost!Parts
<1>8. ASSUME NEW m PROVE \E puts : OfHost!WrittenInOrder(m, puts)
  <2> DEFINE put(x) == HostPutPart(x, m[x])
             put2 == put("ip_version") \o put("port")
             put3 == put2 \o put("ip")
             puts == <<put("ip_version"), put2, put3>>
  <2>1. SerializeHost(m) = put3
    BY <1>3, <1>4 DEF SerializeHost, HostPutPart
  <2> HIDE DEF put
  <2>2. /\ puts[1] = put("ip_version") /\ puts[2] = puts[1] \o put("port")
        /\ puts[3] = puts[2] \o put("ip") /\ puts[3] = put3
    OBVIOUS
  <2> HIDE DEF puts, put3
  <2>3. ASSUME NEW i \in 2 .. 3
        PROVE  puts[i] = puts[i - 1] \o put(HostFields[i])
    <3>1. (i = 2 /\ i - 1 = 1) \/ (i = 3 /\ i - 1 = 2)
      OBVIOUS
    <3> QED
      BY <1>2, <2>2, <3>1
  <2>4. OfHost!WrittenInOrder(m, puts)
    BY <1>2, <2>1, <2>2, <2>3 DEF OfHost!WrittenInOrder, put
  <2> QED
    BY <2>4
<1>9. OfHost!ByParts
  BY <1>1, <1>5, <1>6, <1>7, <1>8 DEF OfHost!ByParts
<1>10. NewHost \in Host
  BY NewTexts DEF NewHost, Host
<1>11. ASSUME NEW x \in OfHost!Parts
       PROVE  OfHost!PartSound(x, HostTypes[x], HostTypes[x], HostValues[x])
  <2>1. NewHost[x] \in HostTypes[x] /\ HostValues[x] = HostTypes[x] \ {NewHost[x]}
    BY <1>10, HostTyped DEF OfHost!Typed, OfHost!Parts, HostValues
  <2>2. OfHost!ScalarPart(x)
    BY DEF OfHost!ScalarPart, ScalarTakePart, HostMergePart, HostPutPart, MergeScalar, PutScalar,
      Field
  <2> QED
    BY <1>9, <2>1, <2>2, OfHost!ScalarSound
<1> QED
  BY <1>9, <1>11, HostTyped, OfHost!ByPartsSound DEF HostWire

-----------------------------------------------------------------------------
(* DataTime.                                                               *)

TakeDataTime(m, field) == TakeScalar(m, field, DataTimeFields)
DataTimeNumbers == [in_time |-> 1, out_time |-> 2]
DataTimeMergePart(x, to, from) ==
  MergeScalar(to, from, NewDataTime[x])
DataTimePutPart(x, value) ==
  PutScalar(DataTimeNumbers[x], value, NewDataTime[x])
OfDataTime ==
  INSTANCE ProtoWire_proof
  WITH New <- NewDataTime, Take <- TakeDataTime, Merge <- MergeDataTime,
       Serialize <- SerializeDataTime, Names <- DataTimeFields, Numbers <- DataTimeNumbers,
       TakePart <- ScalarTakePart, MergePart <- DataTimeMergePart, PutPart <- DataTimePutPart
DataTimeTypes ==
  [in_time |-> Nat, out_time |-> Nat]
DataTimeValues == [x \in DOMAIN NewDataTime |-> DataTimeTypes[x] \ {NewDataTime[x]}]
DataTimeWire == OfDataTime!Wire(DataTimeValues)

\* Its operators are those of the general theory.
LEMMA DataTimeLoop ==
  ASSUME NEW m, NEW fields, NEW p, NEW q, NEW field, NEW number
  PROVE  /\ ParseDataTime(m, fields) = OfDataTime!Parse(m, fields)
         /\ TakeMessage(p, field, ParseDataTime, NewDataTime) = OfDataTime!TakePointer(p, field)
         /\ MergeMessage(p, q, MergeDataTime, NewDataTime) = OfDataTime!MergePointers(p, q)
         /\ PutMessage(number, p, SerializeDataTime) = OfDataTime!PutPointer(number, p)
<1>1. \A n, fs : ParseDataTime(n, fs) = OfDataTime!Parse(n, fs)
  BY DEF ParseDataTime, TakeScalars, TakeDataTime, TakeFields, OfDataTime!Parse,
    OfDataTime!TakeFields
<1> QED
  BY <1>1 DEF TakeMessage, MergeMessage, PutMessage, Deref, Field, OfDataTime!TakePointer,
    OfDataTime!TakeMessage, OfDataTime!Deref, OfDataTime!MergePointers, OfDataTime!MergeMessage,
    OfDataTime!PutPointer, OfDataTime!PutMessage, OfDataTime!Field

\* A DataTime has these parts, each of its type.
LEMMA DataTimeTyped == OfDataTime!Typed(DataTime, DataTimeTypes)
BY DEF OfDataTime!Typed, OfDataTime!HasParts, OfDataTime!Parts, DataTime, DataTimeTypes, NewDataTime

\* What is written of a DataTime is read back, and reading more of it is merging.
\* (DataTime::_InternalParse, MergeFrom, _InternalSerialize)
LEMMA DataTimeSound == OfDataTime!Sound(DataTime, DataTime, DataTimeWire)
<1>1. OfDataTime!Parts = {"in_time", "out_time"} /\ OfDataTime!HasParts(NewDataTime)
  BY DEF OfDataTime!Parts, OfDataTime!HasParts, NewDataTime
<1>2. /\ Len(DataTimeFields) = 2 /\ DOMAIN DataTimeFields = 1 .. 2 /\ DataTimeFields[1] = "in_time"
      /\ DataTimeFields[2] = "out_time"
  BY DEF DataTimeFields
<1>3. /\ DataTimeNumbers["in_time"] = 1 /\ DataTimeNumbers["out_time"] = 2
  BY DEF DataTimeNumbers
<1>4. /\ NewDataTime["in_time"] = 0 /\ NewDataTime["out_time"] = 0
  BY DEF NewDataTime
<1>5. OfDataTime!AllWritten
  BY <1>1, <1>2 DEF OfDataTime!AllWritten
<1>6. ASSUME NEW x \in OfDataTime!Parts, NEW m, NEW field, field.number = DataTimeNumbers[x]
      PROVE  TakeDataTime(m, field) = OfDataTime!With(m, x, ScalarTakePart(x, m[x], field))
  <2>1. DataTimeNumbers[x] \in DOMAIN DataTimeFields /\ DataTimeFields[DataTimeNumbers[x]] = x
    BY <1>1, <1>2, <1>3
  <2> QED
    BY <1>6, <2>1 DEF TakeDataTime, TakeScalar, OfDataTime!With, ScalarTakePart
<1>7. ASSUME NEW to, NEW from
      PROVE  MergeDataTime(to, from)
               = [x \in OfDataTime!Parts |-> DataTimeMergePart(x, to[x], from[x])]
  BY <1>1 DEF MergeDataTime, MergeScalars, DataTimeMergePart, OfDataTime!Parts
<1>8. ASSUME NEW m PROVE \E puts : OfDataTime!WrittenInOrder(m, puts)
  <2> DEFINE put(x) == DataTimePutPart(x, m[x])
             put2 == put("in_time") \o put("out_time")
             puts == <<put("in_time"), put2>>
  <2>1. SerializeDataTime(m) = put2
    BY <1>3, <1>4 DEF SerializeDataTime, DataTimePutPart
  <2> HIDE DEF put
  <2>2. /\ puts[1] = put("in_time") /\ puts[2] = puts[1] \o put("out_time") /\ puts[2] = put2
    OBVIOUS
  <2> HIDE DEF puts, put2
  <2>3. ASSUME NEW i \in 2 .. 2
        PROVE  puts[i] = puts[i - 1] \o put(DataTimeFields[i])
    <3>1. i = 2 /\ i - 1 = 1
      OBVIOUS
    <3> QED
      BY <1>2, <2>2, <3>1
  <2>4. OfDataTime!WrittenInOrder(m, puts)
    BY <1>2, <2>1, <2>2, <2>3 DEF OfDataTime!WrittenInOrder, put
  <2> QED
    BY <2>4
<1>9. OfDataTime!ByParts
  BY <1>1, <1>5, <1>6, <1>7, <1>8 DEF OfDataTime!ByParts
<1>10. NewDataTime \in DataTime
  BY NewTexts DEF NewDataTime, DataTime
<1>11. ASSUME NEW x \in OfDataTime!Parts
       PROVE  OfDataTime!PartSound(x, DataTimeTypes[x], DataTimeTypes[x], DataTimeValues[x])
  <2>1. /\ NewDataTime[x] \in DataTimeTypes[x]
        /\ DataTimeValues[x] = DataTimeTypes[x] \ {NewDataTime[x]}
    BY <1>10, DataTimeTyped DEF OfDataTime!Typed, OfDataTime!Parts, DataTimeValues
  <2>2. OfDataTime!ScalarPart(x)
    BY DEF OfDataTime!ScalarPart, ScalarTakePart, DataTimeMergePart, DataTimePutPart, MergeScalar,
      PutScalar, Field
  <2> QED
    BY <1>9, <2>1, <2>2, OfDataTime!ScalarSound
<1> QED
  BY <1>9, <1>11, DataTimeTyped, OfDataTime!ByPartsSound DEF DataTimeWire

-----------------------------------------------------------------------------
(* Header.                                                                 *)

HeaderNumbers == [msg_magic |-> 1, version |-> 2, pack_id |-> 3, time |-> 4, data_dir |-> 5,
                    host |-> 6, dest |-> 7, trans_proto |-> 8]
HeaderTakePart(x, old, field) ==
  CASE x = "time" -> OfDataTime!TakePointer(old, field)
    [] x \in {"host", "dest"} -> OfHost!TakePointer(old, field)
    [] OTHER -> field.value
HeaderMergePart(x, to, from) ==
  CASE x = "time" -> OfDataTime!MergePointers(to, from)
    [] x \in {"host", "dest"} -> OfHost!MergePointers(to, from)
    [] OTHER -> MergeScalar(to, from, NewHeader[x])
HeaderPutPart(x, value) ==
  CASE x = "time" -> OfDataTime!PutPointer(HeaderNumbers[x], value)
    [] x \in {"host", "dest"} -> OfHost!PutPointer(HeaderNumbers[x], value)
    [] OTHER -> PutScalar(HeaderNumbers[x], value, NewHeader[x])
OfHeader ==
  INSTANCE ProtoWire_proof
  WITH New <- NewHeader, Take <- TakeHeader, Merge <- MergeHeader, Serialize <- SerializeHeader,
       Names <- HeaderFields, Numbers <- HeaderNumbers, TakePart <- HeaderTakePart,
       MergePart <- HeaderMergePart, PutPart <- HeaderPutPart
HeaderTypes ==
  [msg_magic |-> Nat, version |-> Nat, pack_id |-> Nat, time |-> Pointer(DataTime),
   data_dir |-> Nat, host |-> Pointer(Host), dest |-> Pointer(Host), trans_proto |-> Nat]
HeaderValues ==
  [x \in DOMAIN NewHeader |->
     CASE x = "time" -> Seq(DataTimeWire)
       [] x \in {"host", "dest"} -> Seq(HostWire)
       [] OTHER -> HeaderTypes[x] \ {NewHeader[x]}]
HeaderWire == OfHeader!Wire(HeaderValues)

\* Its operators are those of the general theory.
LEMMA HeaderLoop ==
  ASSUME NEW m, NEW fields, NEW p, NEW q, NEW field, NEW number
  PROVE  /\ ParseHeader(m, fields) = OfHeader!Parse(m, fields)
         /\ TakeMessage(p, field, ParseHeader, NewHeader) = OfHeader!TakePointer(p, field)
         /\ MergeMessage(p, q, MergeHeader, NewHeader) = OfHeader!MergePointers(p, q)
         /\ PutMessage(number, p, SerializeHeader) = OfHeader!PutPointer(number, p)
<1>1. \A n, fs : ParseHeader(n, fs) = OfHeader!Parse(n, fs)
  BY DEF ParseHeader, TakeFields, OfHeader!Parse, OfHeader!TakeFields
<1> QED
  BY <1>1 DEF TakeMessage, MergeMessage, PutMessage, Deref, Field, OfHeader!TakePointer,
    OfHeader!TakeMessage, OfHeader!Deref, OfHeader!MergePointers, OfHeader!MergeMessage,
    OfHeader!PutPointer, OfHeader!PutMessage, OfHeader!Field

\* A Header has these parts, each of its type.
LEMMA HeaderTyped == OfHeader!Typed(Header, HeaderTypes)
BY DEF OfHeader!Typed, OfHeader!HasParts, OfHeader!Parts, Header, HeaderTypes, NewHeader

\* What is written of a Header is read back, and reading more of it is merging.
\* (Header::_InternalParse, MergeFrom, _InternalSerialize)
LEMMA HeaderSound == OfHeader!Sound(Header, Header, HeaderWire)
<1>1. /\ OfHeader!Parts
           = {"msg_magic", "version", "pack_id", "time", "data_dir", "host", "dest", "trans_proto"}
      /\ OfHeader!HasParts(NewHeader)
  BY DEF OfHeader!Parts, OfHeader!HasParts, NewHeader
<1>2. /\ Len(HeaderFields) = 8 /\ DOMAIN HeaderFields = 1 .. 8 /\ HeaderFields[1] = "msg_magic"
      /\ HeaderFields[2] = "version" /\ HeaderFields[3] = "pack_id" /\ HeaderFields[4] = "time"
      /\ HeaderFields[5] = "data_dir" /\ HeaderFields[6] = "host" /\ HeaderFields[7] = "dest"
      /\ HeaderFields[8] = "trans_proto"
  BY DEF HeaderFields
<1>3. /\ HeaderNumbers["msg_magic"] = 1 /\ HeaderNumbers["version"] = 2
      /\ HeaderNumbers["pack_id"] = 3 /\ HeaderNumbers["time"] = 4 /\ HeaderNumbers["data_dir"] = 5
      /\ HeaderNumbers["host"] = 6 /\ HeaderNumbers["dest"] = 7 /\ HeaderNumbers["trans_proto"] = 8
  BY DEF HeaderNumbers
<1>4. /\ NewHeader["msg_magic"] = 0 /\ NewHeader["version"] = 0 /\ NewHeader["pack_id"] = 0
      /\ NewHeader["time"] = << >> /\ NewHeader["data_dir"] = 0 /\ NewHeader["host"] = << >>
      /\ NewHeader["dest"] = << >> /\ NewHeader["trans_proto"] = 0
  BY DEF NewHeader
<1>5. OfHeader!AllWritten
  BY <1>1, <1>2 DEF OfHeader!AllWritten
<1>6. ASSUME NEW x \in OfHeader!Parts, NEW m, NEW field, field.number = HeaderNumbers[x]
      PROVE  TakeHeader(m, field) = OfHeader!With(m, x, HeaderTakePart(x, m[x], field))
  <2>1. CASE x = "time"
    <3>1. /\ field.number = 4 /\ field.number # 6 /\ field.number # 7
      BY <1>3, <1>6, <2>1
    <3> QED
      BY <2>1, <3>1, DataTimeLoop DEF TakeHeader, OfHeader!With, HeaderTakePart
  <2>2. CASE x = "host"
    <3>1. /\ field.number = 6 /\ field.number # 4 /\ field.number # 7
      BY <1>3, <1>6, <2>2
    <3> QED
      BY <2>2, <3>1, HostLoop DEF TakeHeader, OfHeader!With, HeaderTakePart
  <2>3. CASE x = "dest"
    <3>1. /\ field.number = 7 /\ field.number # 4 /\ field.number # 6
      BY <1>3, <1>6, <2>3
    <3> QED
      BY <2>3, <3>1, HostLoop DEF TakeHeader, OfHeader!With, HeaderTakePart
  <2>4. CASE x \notin {"time", "host", "dest"}
    <3>1. HeaderNumbers[x] \in DOMAIN HeaderFields /\ HeaderFields[HeaderNumbers[x]] = x
      BY <1>1, <1>2, <1>3, <2>4
    <3>2. field.number \notin {4, 6, 7}
      BY <1>1, <1>3, <1>6, <2>4
    <3>3. x \notin {"time", "host", "dest"}
      BY <2>4
    <3> QED
      BY <1>6, <3>1, <3>2, <3>3 DEF TakeHeader, TakeScalar, OfHeader!With, HeaderTakePart
  <2> QED
    BY <2>1, <2>2, <2>3, <2>4
<1>7. ASSUME NEW to, NEW from
      PROVE  MergeHeader(to, from) = [x \in OfHeader!Parts |-> HeaderMergePart(x, to[x], from[x])]
  BY <1>1, DataTimeLoop, HostLoop DEF MergeHeader, MergeScalars, HeaderMergePart, OfHeader!Parts
<1>8. ASSUME NEW m PROVE \E puts : OfHeader!WrittenInOrder(m, puts)
  <2> DEFINE put(x) == HeaderPutPart(x, m[x])
             put2 == put("msg_magic") \o put("version")
             put3 == put2 \o put("pack_id")
             put4 == put3 \o put("time")
             put5 == put4 \o put("data_dir")
             put6 == put5 \o put("host")
             put7 == put6 \o put("dest")
             put8 == put7 \o put("trans_proto")
             puts == <<put("msg_magic"), put2, put3, put4, put5, put6, put7, put8>>
  <2>1. SerializeHeader(m) = put8
    BY <1>3, <1>4, DataTimeLoop, HostLoop DEF SerializeHeader, HeaderPutPart
  <2> HIDE DEF put
  <2>2. /\ puts[1] = put("msg_magic") /\ puts[2] = puts[1] \o put("version")
        /\ puts[3] = puts[2] \o put("pack_id") /\ puts[4] = puts[3] \o put("time")
        /\ puts[5] = puts[4] \o put("data_dir") /\ puts[6] = puts[5] \o put("host")
        /\ puts[7] = puts[6] \o put("dest") /\ puts[8] = puts[7] \o put("trans_proto")
        /\ puts[8] = put8
    OBVIOUS
  <2> HIDE DEF puts, put8
  <2>3. ASSUME NEW i \in 2 .. 8
        PROVE  puts[i] = puts[i - 1] \o put(HeaderFields[i])
    <3>1. (i = 2 /\ i - 1 = 1) \/ (i = 3 /\ i - 1 = 2) \/ (i = 4 /\ i - 1 = 3) \/
          (i = 5 /\ i - 1 = 4) \/ (i = 6 /\ i - 1 = 5) \/ (i = 7 /\ i - 1 = 6) \/
          (i = 8 /\ i - 1 = 7)
      OBVIOUS
    <3> QED
      BY <1>2, <2>2, <3>1
  <2>4. OfHeader!WrittenInOrder(m, puts)
    BY <1>2, <2>1, <2>2, <2>3 DEF OfHeader!WrittenInOrder, put
  <2> QED
    BY <2>4
<1>9. OfHeader!ByParts
  BY <1>1, <1>5, <1>6, <1>7, <1>8 DEF OfHeader!ByParts
<1>10. NewHeader \in Header
  BY NewTexts, NoPointer DEF NewHeader, Header
<1>11. ASSUME NEW x \in OfHeader!Parts
       PROVE  OfHeader!PartSound(x, HeaderTypes[x], HeaderTypes[x], HeaderValues[x])
  <2>1. CASE x \notin {"time", "host", "dest"}
    <3>1. NewHeader[x] \in HeaderTypes[x] /\ HeaderValues[x] = HeaderTypes[x] \ {NewHeader[x]}
      BY <2>1, <1>10, HeaderTyped DEF OfHeader!Typed, OfHeader!Parts, HeaderValues
    <3>2. OfHeader!ScalarPart(x)
      BY <2>1 DEF OfHeader!ScalarPart, HeaderTakePart, HeaderMergePart, HeaderPutPart, MergeScalar,
        PutScalar, Field
    <3> QED
      BY <1>9, <3>1, <3>2, OfHeader!ScalarSound
  <2>2. CASE x = "time"
    <3>1. /\ \A p, field : HeaderTakePart(x, p, field) = OfDataTime!TakePointer(p, field)
          /\ \A p, q : HeaderMergePart(x, p, q) = OfDataTime!MergePointers(p, q)
          /\ \A p : HeaderPutPart(x, p) = OfDataTime!PutPointer(HeaderNumbers[x], p)
          /\ NewHeader[x] = << >>
      BY <1>3, <1>4, <2>2 DEF HeaderTakePart, HeaderMergePart, HeaderPutPart
    <3>2. /\ HeaderTypes[x] = OfDataTime!Pointer(DataTime) /\ HeaderValues[x] = Seq(DataTimeWire)
      BY <1>1, <2>2 DEF HeaderTypes, HeaderValues, OfHeader!Parts, Pointer, OfDataTime!Pointer
    <3> QED
      BY <1>9, <3>1, <3>2, DataTimeSound, OfDataTime!PointerSound, OfHeader!OneFieldSound
  <2>3. CASE x = "host"
    <3>1. /\ \A p, field : HeaderTakePart(x, p, field) = OfHost!TakePointer(p, field)
          /\ \A p, q : HeaderMergePart(x, p, q) = OfHost!MergePointers(p, q)
          /\ \A p : HeaderPutPart(x, p) = OfHost!PutPointer(HeaderNumbers[x], p)
          /\ NewHeader[x] = << >>
      BY <1>3, <1>4, <2>3 DEF HeaderTakePart, HeaderMergePart, HeaderPutPart
    <3>2. /\ HeaderTypes[x] = OfHost!Pointer(Host) /\ HeaderValues[x] = Seq(HostWire)
      BY <1>1, <2>3 DEF HeaderTypes, HeaderValues, OfHeader!Parts, Pointer, OfHost!Pointer
    <3> QED
      BY <1>9, <3>1, <3>2, HostSound, OfHost!PointerSound, OfHeader!OneFieldSound
  <2>4. CASE x = "dest"
    <3>1. /\ \A p, field : HeaderTakePart(x, p, field) = OfHost!TakePointer(p, field)
          /\ \A p, q : HeaderMergePart(x, p, q) = OfHost!MergePointers(p, q)
          /\ \A p : HeaderPutPart(x, p) = OfHost!PutPointer(HeaderNumbers[x], p)
          /\ NewHeader[x] = << >>
      BY <1>3, <1>4, <2>4 DEF HeaderTakePart, HeaderMergePart, HeaderPutPart
    <3>2. /\ HeaderTypes[x] = OfHost!Pointer(Host) /\ HeaderValues[x] = Seq(HostWire)
      BY <1>1, <2>4 DEF HeaderTypes, HeaderValues, OfHeader!Parts, Pointer, OfHost!Pointer
    <3> QED
      BY <1>9, <3>1, <3>2, HostSound, OfHost!PointerSound, OfHeader!OneFieldSound
  <2> QED
    BY <1>1, <2>1, <2>2, <2>3, <2>4
<1> QED
  BY <1>9, <1>11, HeaderTyped, OfHeader!ByPartsSound DEF HeaderWire

-----------------------------------------------------------------------------
(* SdkResult.                                                              *)

TakeSdkResult(m, field) == TakeScalar(m, field, SdkResultFields)
SdkResultNumbers == [status_code |-> 1, code |-> 2]
SdkResultMergePart(x, to, from) ==
  MergeScalar(to, from, NewSdkResult[x])
SdkResultPutPart(x, value) ==
  PutScalar(SdkResultNumbers[x], value, NewSdkResult[x])
OfSdkResult ==
  INSTANCE ProtoWire_proof
  WITH New <- NewSdkResult, Take <- TakeSdkResult, Merge <- MergeSdkResult,
       Serialize <- SerializeSdkResult, Names <- SdkResultFields, Numbers <- SdkResultNumbers,
       TakePart <- ScalarTakePart, MergePart <- SdkResultMergePart, PutPart <- SdkResultPutPart
SdkResultTypes ==
  [status_code |-> Nat, code |-> STRING]
SdkResultValues == [x \in DOMAIN NewSdkResult |-> SdkResultTypes[x] \ {NewSdkResult[x]}]
SdkResultWire == OfSdkResult!Wire(SdkResultValues)

\* Its operators are those of the general theory.
LEMMA SdkResultLoop ==
  ASSUME NEW m, NEW fields, NEW p, NEW q, NEW field, NEW number
  PROVE  /\ ParseSdkResult(m, fields) = OfSdkResult!Parse(m, fields)
         /\ TakeMessage(p, field, ParseSdkResult, NewSdkResult) = OfSdkResult!TakePointer(p, field)
         /\ MergeMessage(p, q, MergeSdkResult, NewSdkResult) = OfSdkResult!MergePointers(p, q)
         /\ PutMessage(number, p, SerializeSdkResult) = OfSdkResult!PutPointer(number, p)
<1>1. \A n, fs : ParseSdkResult(n, fs) = OfSdkResult!Parse(n, fs)
  BY DEF ParseSdkResult, TakeScalars, TakeSdkResult, TakeFields, OfSdkResult!Parse,
    OfSdkResult!TakeFields
<1> QED
  BY <1>1 DEF TakeMessage, MergeMessage, PutMessage, Deref, Field, OfSdkResult!TakePointer,
    OfSdkResult!TakeMessage, OfSdkResult!Deref, OfSdkResult!MergePointers, OfSdkResult!MergeMessage,
    OfSdkResult!PutPointer, OfSdkResult!PutMessage, OfSdkResult!Field

\* A SdkResult has these parts, each of its type.
LEMMA SdkResultTyped == OfSdkResult!Typed(SdkResult, SdkResultTypes)
BY DEF OfSdkResult!Typed, OfSdkResult!HasParts, OfSdkResult!Parts, SdkResult, SdkResultTypes,
  NewSdkResult

\* What is written of a SdkResult is read back, and reading more of it is merging.
\* (SdkResult::_InternalParse, MergeFrom, _InternalSerialize)
LEMMA SdkResultSound == OfSdkResult!Sound(SdkResult, SdkResult, SdkResultWire)
<1>1. OfSdkResult!Parts = {"status_code", "code"} /\ OfSdkResult!HasParts(NewSdkResult)
  BY DEF OfSdkResult!Parts, OfSdkResult!HasParts, NewSdkResult
<1>2. /\ Len(SdkResultFields) = 2 /\ DOMAIN SdkResultFields = 1 .. 2
      /\ SdkResultFields[1] = "status_code" /\ SdkResultFields[2] = "code"
  BY DEF SdkResultFields
<1>3. /\ SdkResultNumbers["status_code"] = 1 /\ SdkResultNumbers["code"] = 2
  BY DEF SdkResultNumbers
<1>4. /\ NewSdkResult["status_code"] = 0 /\ NewSdkResult["code"] = ""
  BY DEF NewSdkResult
<1>5. OfSdkResult!AllWritten
  BY <1>1, <1>2 DEF OfSdkResult!AllWritten
<1>6. ASSUME NEW x \in OfSdkResult!Parts, NEW m, NEW field, field.number = SdkResultNumbers[x]
      PROVE  TakeSdkResult(m, field) = OfSdkResult!With(m, x, ScalarTakePart(x, m[x], field))
  <2>1. SdkResultNumbers[x] \in DOMAIN SdkResultFields /\ SdkResultFields[SdkResultNumbers[x]] = x
    BY <1>1, <1>2, <1>3
  <2> QED
    BY <1>6, <2>1 DEF TakeSdkResult, TakeScalar, OfSdkResult!With, ScalarTakePart
<1>7. ASSUME NEW to, NEW from
      PROVE  MergeSdkResult(to, from)
               = [x \in OfSdkResult!Parts |-> SdkResultMergePart(x, to[x], from[x])]
  BY <1>1 DEF MergeSdkResult, MergeScalars, SdkResultMergePart, OfSdkResult!Parts
<1>8. ASSUME NEW m PROVE \E puts : OfSdkResult!WrittenInOrder(m, puts)
  <2> DEFINE put(x) == SdkResultPutPart(x, m[x])
             put2 == put("status_code") \o put("code")
             puts == <<put("status_code"), put2>>
  <2>1. SerializeSdkResult(m) = put2
    BY <1>3, <1>4 DEF SerializeSdkResult, SdkResultPutPart
  <2> HIDE DEF put
  <2>2. /\ puts[1] = put("status_code") /\ puts[2] = puts[1] \o put("code") /\ puts[2] = put2
    OBVIOUS
  <2> HIDE DEF puts, put2
  <2>3. ASSUME NEW i \in 2 .. 2
        PROVE  puts[i] = puts[i - 1] \o put(SdkResultFields[i])
    <3>1. i = 2 /\ i - 1 = 1
      OBVIOUS
    <3> QED
      BY <1>2, <2>2, <3>1
  <2>4. OfSdkResult!WrittenInOrder(m, puts)
    BY <1>2, <2>1, <2>2, <2>3 DEF OfSdkResult!WrittenInOrder, put
  <2> QED
    BY <2>4
<1>9. OfSdkResult!ByParts
  BY <1>1, <1>5, <1>6, <1>7, <1>8 DEF OfSdkResult!ByParts
<1>10. NewSdkResult \in SdkResult
  BY NewTexts DEF NewSdkResult, SdkResult
<1>11. ASSUME NEW x \in OfSdkResult!Parts
       PROVE  OfSdkResult!PartSound(x, SdkResultTypes[x], SdkResultTypes[x], SdkResultValues[x])
  <2>1. /\ NewSdkResult[x] \in SdkResultTypes[x]
        /\ SdkResultValues[x] = SdkResultTypes[x] \ {NewSdkResult[x]}
    BY <1>10, SdkResultTyped DEF OfSdkResult!Typed, OfSdkResult!Parts, SdkResultValues
  <2>2. OfSdkResult!ScalarPart(x)
    BY DEF OfSdkResult!ScalarPart, ScalarTakePart, SdkResultMergePart, SdkResultPutPart,
      MergeScalar, PutScalar, Field
  <2> QED
    BY <1>9, <2>1, <2>2, OfSdkResult!ScalarSound
<1> QED
  BY <1>9, <1>11, SdkResultTyped, OfSdkResult!ByPartsSound DEF SdkResultWire

-----------------------------------------------------------------------------
(* ContentResult.                                                          *)

TakeContentResult(m, field) == TakeScalar(m, field, ContentResultFields)
ContentResultNumbers == [status_code |-> 1, code |-> 2]
ContentResultMergePart(x, to, from) ==
  MergeScalar(to, from, NewContentResult[x])
ContentResultPutPart(x, value) ==
  PutScalar(ContentResultNumbers[x], value, NewContentResult[x])
OfContentResult ==
  INSTANCE ProtoWire_proof
  WITH New <- NewContentResult, Take <- TakeContentResult, Merge <- MergeContentResult,
       Serialize <- SerializeContentResult, Names <- ContentResultFields,
       Numbers <- ContentResultNumbers, TakePart <- ScalarTakePart,
       MergePart <- ContentResultMergePart, PutPart <- ContentResultPutPart
ContentResultTypes ==
  [status_code |-> Nat, code |-> STRING]
ContentResultValues ==
  [x \in DOMAIN NewContentResult |-> ContentResultTypes[x] \ {NewContentResult[x]}]
ContentResultWire == OfContentResult!Wire(ContentResultValues)

\* Its operators are those of the general theory.
LEMMA ContentResultLoop ==
  ASSUME NEW m, NEW fields, NEW p, NEW q, NEW field, NEW number
  PROVE  /\ ParseContentResult(m, fields) = OfContentResult!Parse(m, fields)
         /\ TakeMessage(p, field, ParseContentResult, NewContentResult)
              = OfContentResult!TakePointer(p, field)
         /\ MergeMessage(p, q, MergeContentResult, NewContentResult)
              = OfContentResult!MergePointers(p, q)
         /\ PutMessage(number, p, SerializeContentResult) = OfContentResult!PutPointer(number, p)
<1>1. \A n, fs : ParseContentResult(n, fs) = OfContentResult!Parse(n, fs)
  BY DEF ParseContentResult, TakeScalars, TakeContentResult, TakeFields, OfContentResult!Parse,
    OfContentResult!TakeFields
<1> QED
  BY <1>1 DEF TakeMessage, MergeMessage, PutMessage, Deref, Field, OfContentResult!TakePointer,
    OfContentResult!TakeMessage, OfContentResult!Deref, OfContentResult!MergePointers,
    OfContentResult!MergeMessage, OfContentResult!PutPointer, OfContentResult!PutMessage,
    OfContentResult!Field

\* A ContentResult has these parts, each of its type.
LEMMA ContentResultTyped == OfContentResult!Typed(ContentResult, ContentResultTypes)
BY DEF OfContentResult!Typed, OfContentResult!HasParts, OfContentResult!Parts, ContentResult,
  ContentResultTypes, NewContentResult

\* What is written of a ContentResult is read back, and reading more of it is merging.
\* (ContentResult::_InternalParse, MergeFrom, _InternalSerialize)
LEMMA ContentResultSound == OfContentResult!Sound(ContentResult, ContentResult, ContentResultWire)
<1>1. OfContentResult!Parts = {"status_code", "code"} /\ OfContentResult!HasParts(NewContentResult)
  BY DEF OfContentResult!Parts, OfContentResult!HasParts, NewContentResult
<1>2. /\ Len(ContentResultFields) = 2 /\ DOMAIN ContentResultFields = 1 .. 2
      /\ ContentResultFields[1] = "status_code" /\ ContentResultFields[2] = "code"
  BY DEF ContentResultFields
<1>3. /\ ContentResultNumbers["status_code"] = 1 /\ ContentResultNumbers["code"] = 2
  BY DEF ContentResultNumbers
<1>4. /\ NewContentResult["status_code"] = 0 /\ NewContentResult["code"] = ""
  BY DEF NewContentResult
<1>5. OfContentResult!AllWritten
  BY <1>1, <1>2 DEF OfContentResult!AllWritten
<1>6. ASSUME NEW x \in OfContentResult!Parts, NEW m, NEW field,
             field.number = ContentResultNumbers[x]
      PROVE  TakeContentResult(m, field)
               = OfContentResult!With(m, x, ScalarTakePart(x, m[x], field))
  <2>1. /\ ContentResultNumbers[x] \in DOMAIN ContentResultFields
        /\ ContentResultFields[ContentResultNumbers[x]] = x
    BY <1>1, <1>2, <1>3
  <2> QED
    BY <1>6, <2>1 DEF TakeContentResult, TakeScalar, OfContentResult!With, ScalarTakePart
<1>7. ASSUME NEW to, NEW from
      PROVE  MergeContentResult(to, from)
               = [x \in OfContentResult!Parts |-> ContentResultMergePart(x, to[x], from[x])]
  BY <1>1 DEF MergeContentResult, MergeScalars, ContentResultMergePart, OfContentResult!Parts
<1>8. ASSUME NEW m PROVE \E puts : OfContentResult!WrittenInOrder(m, puts)
  <2> DEFINE put(x) == ContentResultPutPart(x, m[x])
             put2 == put("status_code") \o put("code")
             puts == <<put("status_code"), put2>>
  <2>1. SerializeContentResult(m) = put2
    BY <1>3, <1>4 DEF SerializeContentResult, ContentResultPutPart
  <2> HIDE DEF put
  <2>2. /\ puts[1] = put("status_code") /\ puts[2] = puts[1] \o put("code") /\ puts[2] = put2
    OBVIOUS
  <2> HIDE DEF puts, put2
  <2>3. ASSUME NEW i \in 2 .. 2
        PROVE  puts[i] = puts[i - 1] \o put(ContentResultFields[i])
    <3>1. i = 2 /\ i - 1 = 1
      OBVIOUS
    <3> QED
      BY <1>2, <2>2, <3>1
  <2>4. OfContentResult!WrittenInOrder(m, puts)
    BY <1>2, <2>1, <2>2, <2>3 DEF OfContentResult!WrittenInOrder, put
  <2> QED
    BY <2>4
<1>9. OfContentResult!ByParts
  BY <1>1, <1>5, <1>6, <1>7, <1>8 DEF OfContentResult!ByParts
<1>10. NewContentResult \in ContentResult
  BY NewTexts DEF NewContentResult, ContentResult
<1>11. ASSUME NEW x \in OfContentResult!Parts
       PROVE  OfContentResult!PartSound(x, ContentResultTypes[x], ContentResultTypes[x],
                                        ContentResultValues[x])
  <2>1. /\ NewContentResult[x] \in ContentResultTypes[x]
        /\ ContentResultValues[x] = ContentResultTypes[x] \ {NewContentResult[x]}
    BY <1>10, ContentResultTyped DEF OfContentResult!Typed, OfContentResult!Parts,
      ContentResultValues
  <2>2. OfContentResult!ScalarPart(x)
    BY DEF OfContentResult!ScalarPart, ScalarTakePart, ContentResultMergePart, ContentResultPutPart,
      MergeScalar, PutScalar, Field
  <2> QED
    BY <1>9, <2>1, <2>2, OfContentResult!ScalarSound
<1> QED
  BY <1>9, <1>11, ContentResultTyped, OfContentResult!ByPartsSound DEF ContentResultWire

-----------------------------------------------------------------------------
(* Result.                                                                 *)

ResultNames == <<"sdk_result", "content_result">>
ResultNumbers == [sdk_result |-> 1, content_result |-> 2]
ResultTakePart(x, old, field) ==
  CASE x = "sdk_result" -> OfSdkResult!TakePointer(old, field)
    [] OTHER -> OfContentResult!TakePointer(old, field)
ResultMergePart(x, to, from) ==
  CASE x = "sdk_result" -> OfSdkResult!MergePointers(to, from)
    [] OTHER -> OfContentResult!MergePointers(to, from)
ResultPutPart(x, value) ==
  CASE x = "sdk_result" -> OfSdkResult!PutPointer(ResultNumbers[x], value)
    [] OTHER -> OfContentResult!PutPointer(ResultNumbers[x], value)
OfResult ==
  INSTANCE ProtoWire_proof
  WITH New <- NewResult, Take <- TakeResult, Merge <- MergeResult, Serialize <- SerializeResult,
       Names <- ResultNames, Numbers <- ResultNumbers, TakePart <- ResultTakePart,
       MergePart <- ResultMergePart, PutPart <- ResultPutPart
ResultTypes ==
  [sdk_result |-> Pointer(SdkResult), content_result |-> Pointer(ContentResult)]
ResultValues ==
  [x \in DOMAIN NewResult |->
     CASE x = "sdk_result" -> Seq(SdkResultWire)
       [] OTHER -> Seq(ContentResultWire)]
ResultWire == OfResult!Wire(ResultValues)

\* Its operators are those of the general theory.
LEMMA ResultLoop ==
  ASSUME NEW m, NEW fields, NEW p, NEW q, NEW field, NEW number
  PROVE  /\ ParseResult(m, fields) = OfResult!Parse(m, fields)
         /\ TakeMessage(p, field, ParseResult, NewResult) = OfResult!TakePointer(p, field)
         /\ MergeMessage(p, q, MergeResult, NewResult) = OfResult!MergePointers(p, q)
         /\ PutMessage(number, p, SerializeResult) = OfResult!PutPointer(number, p)
<1>1. \A n, fs : ParseResult(n, fs) = OfResult!Parse(n, fs)
  BY DEF ParseResult, TakeFields, OfResult!Parse, OfResult!TakeFields
<1> QED
  BY <1>1 DEF TakeMessage, MergeMessage, PutMessage, Deref, Field, OfResult!TakePointer,
    OfResult!TakeMessage, OfResult!Deref, OfResult!MergePointers, OfResult!MergeMessage,
    OfResult!PutPointer, OfResult!PutMessage, OfResult!Field

\* A Result has these parts, each of its type.
LEMMA ResultTyped == OfResult!Typed(Result, ResultTypes)
BY DEF OfResult!Typed, OfResult!HasParts, OfResult!Parts, Result, ResultTypes, NewResult

\* What is written of a Result is read back, and reading more of it is merging.
\* (Result::_InternalParse, MergeFrom, _InternalSerialize)
LEMMA ResultSound == OfResult!Sound(Result, Result, ResultWire)
<1>1. OfResult!Parts = {"sdk_result", "content_result"} /\ OfResult!HasParts(NewResult)
  BY DEF OfResult!Parts, OfResult!HasParts, NewResult
<1>2. /\ Len(ResultNames) = 2 /\ DOMAIN ResultNames = 1 .. 2 /\ ResultNames[1] = "sdk_result"
      /\ ResultNames[2] = "content_result"
  BY DEF ResultNames
<1>3. /\ ResultNumbers["sdk_result"] = 1 /\ ResultNumbers["content_result"] = 2
  BY DEF ResultNumbers
<1>4. /\ NewResult["sdk_result"] = << >> /\ NewResult["content_result"] = << >>
  BY DEF NewResult
<1>5. OfResult!AllWritten
  BY <1>1, <1>2 DEF OfResult!AllWritten
<1>6. ASSUME NEW x \in OfResult!Parts, NEW m, NEW field, field.number = ResultNumbers[x]
      PROVE  TakeResult(m, field) = OfResult!With(m, x, ResultTakePart(x, m[x], field))
  <2>1. CASE x = "sdk_result"
    <3>1. /\ field.number = 1 /\ field.number # 2
      BY <1>3, <1>6, <2>1
    <3> QED
      BY <2>1, <3>1, SdkResultLoop DEF TakeResult, OfResult!With, ResultTakePart
  <2>2. CASE x = "content_result"
    <3>1. /\ field.number = 2 /\ field.number # 1
      BY <1>3, <1>6, <2>2
    <3> QED
      BY <2>2, <3>1, ContentResultLoop DEF TakeResult, OfResult!With, ResultTakePart
  <2> QED
    BY <1>1, <2>1, <2>2
<1>7. ASSUME NEW to, NEW from
      PROVE  MergeResult(to, from) = [x \in OfResult!Parts |-> ResultMergePart(x, to[x], from[x])]
  <2> DEFINE merged(x) == ResultMergePart(x, to[x], from[x])
  <2>1. MergeResult(to, from)
          = [sdk_result |-> merged("sdk_result"), content_result |-> merged("content_result")]
    BY <1>4, ContentResultLoop, SdkResultLoop DEF MergeResult, ResultMergePart
  <2> HIDE DEF merged
  <2>2. [sdk_result |-> merged("sdk_result"), content_result |-> merged("content_result")]
          = [x \in {"sdk_result", "content_result"} |-> merged(x)]
    OBVIOUS
  <2> QED
    BY <1>1, <2>1, <2>2 DEF merged
<1>8. ASSUME NEW m PROVE \E puts : OfResult!WrittenInOrder(m, puts)
  <2> DEFINE put(x) == ResultPutPart(x, m[x])
             put2 == put("sdk_result") \o put("content_result")
             puts == <<put("sdk_result"), put2>>
  <2>1. SerializeResult(m) = put2
    BY <1>3, <1>4, ContentResultLoop, SdkResultLoop DEF SerializeResult, ResultPutPart
  <2> HIDE DEF put
  <2>2. /\ puts[1] = put("sdk_result") /\ puts[2] = puts[1] \o put("content_result")
        /\ puts[2] = put2
    OBVIOUS
  <2> HIDE DEF puts, put2
  <2>3. ASSUME NEW i \in 2 .. 2
        PROVE  puts[i] = puts[i - 1] \o put(ResultNames[i])
    <3>1. i = 2 /\ i - 1 = 1
      OBVIOUS
    <3> QED
      BY <1>2, <2>2, <3>1
  <2>4. OfResult!WrittenInOrder(m, puts)
    BY <1>2, <2>1, <2>2, <2>3 DEF OfResult!WrittenInOrder, put
  <2> QED
    BY <2>4
<1>9. OfResult!ByParts
  BY <1>1, <1>5, <1>6, <1>7, <1>8 DEF OfResult!ByParts
<1>10. NewResult \in Result
  BY NewTexts, NoPointer DEF NewResult, Result
<1>11. ASSUME NEW x \in OfResult!Parts
       PROVE  OfResult!PartSound(x, ResultTypes[x], ResultTypes[x], ResultValues[x])
  <2>1. CASE x = "sdk_result"
    <3>1. /\ \A p, field : ResultTakePart(x, p, field) = OfSdkResult!TakePointer(p, field)
          /\ \A p, q : ResultMergePart(x, p, q) = OfSdkResult!MergePointers(p, q)
          /\ \A p : ResultPutPart(x, p) = OfSdkResult!PutPointer(ResultNumbers[x], p)
          /\ NewResult[x] = << >>
      BY <1>3, <1>4, <2>1 DEF ResultTakePart, ResultMergePart, ResultPutPart
    <3>2. /\ ResultTypes[x] = OfSdkResult!Pointer(SdkResult) /\ ResultValues[x] = Seq(SdkResultWire)
      BY <1>1, <2>1 DEF ResultTypes, ResultValues, OfResult!Parts, Pointer, OfSdkResult!Pointer
    <3> QED
      BY <1>9, <3>1, <3>2, SdkResultSound, OfSdkResult!PointerSound, OfResult!OneFieldSound
  <2>2. CASE x = "content_result"
    <3>1. /\ \A p, field : ResultTakePart(x, p, field) = OfContentResult!TakePointer(p, field)
          /\ \A p, q : ResultMergePart(x, p, q) = OfContentResult!MergePointers(p, q)
          /\ \A p : ResultPutPart(x, p) = OfContentResult!PutPointer(ResultNumbers[x], p)
          /\ NewResult[x] = << >>
      BY <1>3, <1>4, <2>2 DEF ResultTakePart, ResultMergePart, ResultPutPart
    <3>2. /\ ResultTypes[x] = OfContentResult!Pointer(ContentResult)
          /\ ResultValues[x] = Seq(ContentResultWire)
      BY <1>1, <2>2 DEF ResultTypes, ResultValues, OfResult!Parts, Pointer, OfContentResult!Pointer
    <3> QED
      BY <1>9, <3>1, <3>2, ContentResultSound, OfContentResult!PointerSound, OfResult!OneFieldSound
  <2> QED
    BY <1>1, <2>1, <2>2
<1> QED
  BY <1>9, <1>11, ResultTyped, OfResult!ByPartsSound DEF ResultWire

-----------------------------------------------------------------------------
(* Footer.                                                                 *)

FooterNames == <<"res", "result">>
FooterNumbers == [res |-> 1, result |-> 2]
FooterTakePart(x, old, field) ==
  IF x = "result" THEN OfResult!TakePointer(old, field)
  ELSE field.value
FooterMergePart(x, to, from) ==
  IF x = "result" THEN OfResult!MergePointers(to, from)
  ELSE MergeScalar(to, from, NewFooter[x])
FooterPutPart(x, value) ==
  IF x = "result" THEN OfResult!PutPointer(FooterNumbers[x], value)
  ELSE PutScalar(FooterNumbers[x], value, NewFooter[x])
OfFooter ==
  INSTANCE ProtoWire_proof
  WITH New <- NewFooter, Take <- TakeFooter, Merge <- MergeFooter, Serialize <- SerializeFooter,
       Names <- FooterNames, Numbers <- FooterNumbers, TakePart <- FooterTakePart,
       MergePart <- FooterMergePart, PutPart <- FooterPutPart
FooterTypes ==
  [res |-> Nat, result |-> Pointer(Result)]
FooterValues ==
  [x \in DOMAIN NewFooter |->
     IF x = "result" THEN Seq(ResultWire)
     ELSE FooterTypes[x] \ {NewFooter[x]}]
FooterWire == OfFooter!Wire(FooterValues)

\* Its operators are those of the general theory.
LEMMA FooterLoop ==
  ASSUME NEW m, NEW fields, NEW p, NEW q, NEW field, NEW number
  PROVE  /\ ParseFooter(m, fields) = OfFooter!Parse(m, fields)
         /\ TakeMessage(p, field, ParseFooter, NewFooter) = OfFooter!TakePointer(p, field)
         /\ MergeMessage(p, q, MergeFooter, NewFooter) = OfFooter!MergePointers(p, q)
         /\ PutMessage(number, p, SerializeFooter) = OfFooter!PutPointer(number, p)
<1>1. \A n, fs : ParseFooter(n, fs) = OfFooter!Parse(n, fs)
  BY DEF ParseFooter, TakeFields, OfFooter!Parse, OfFooter!TakeFields
<1> QED
  BY <1>1 DEF TakeMessage, MergeMessage, PutMessage, Deref, Field, OfFooter!TakePointer,
    OfFooter!TakeMessage, OfFooter!Deref, OfFooter!MergePointers, OfFooter!MergeMessage,
    OfFooter!PutPointer, OfFooter!PutMessage, OfFooter!Field

\* A Footer has these parts, each of its type.
LEMMA FooterTyped == OfFooter!Typed(Footer, FooterTypes)
BY DEF OfFooter!Typed, OfFooter!HasParts, OfFooter!Parts, Footer, FooterTypes, NewFooter

\* What is written of a Footer is read back, and reading more of it is merging.
\* (Footer::_InternalParse, MergeFrom, _InternalSerialize)
LEMMA FooterSound == OfFooter!Sound(Footer, Footer, FooterWire)
<1>1. OfFooter!Parts = {"res", "result"} /\ OfFooter!HasParts(NewFooter)
  BY DEF OfFooter!Parts, OfFooter!HasParts, NewFooter
<1>2. /\ Len(FooterNames) = 2 /\ DOMAIN FooterNames = 1 .. 2 /\ FooterNames[1] = "res"
      /\ FooterNames[2] = "result"
  BY DEF FooterNames
<1>3. /\ FooterNumbers["res"] = 1 /\ FooterNumbers["result"] = 2
  BY DEF FooterNumbers
<1>4. /\ NewFooter["res"] = 0 /\ NewFooter["result"] = << >>
  BY DEF NewFooter
<1>5. OfFooter!AllWritten
  BY <1>1, <1>2 DEF OfFooter!AllWritten
<1>6. ASSUME NEW x \in OfFooter!Parts, NEW m, NEW field, field.number = FooterNumbers[x]
      PROVE  TakeFooter(m, field) = OfFooter!With(m, x, FooterTakePart(x, m[x], field))
  <2>1. CASE x = "result"
    <3>1. field.number = 2
      BY <1>3, <1>6, <2>1
    <3> QED
      BY <2>1, <3>1, ResultLoop DEF TakeFooter, OfFooter!With, FooterTakePart
  <2>2. CASE x \notin {"result"}
    <3>1. FooterNumbers[x] \in DOMAIN <<"res">> /\ <<"res">>[FooterNumbers[x]] = x
      BY <1>1, <1>2, <1>3, <2>2
    <3>2. field.number \notin {2}
      BY <1>1, <1>3, <1>6, <2>2
    <3>3. x \notin {"result"}
      BY <2>2
    <3> QED
      BY <1>6, <3>1, <3>2, <3>3 DEF TakeFooter, TakeScalar, OfFooter!With, FooterTakePart
  <2> QED
    BY <2>1, <2>2
<1>7. ASSUME NEW to, NEW from
      PROVE  MergeFooter(to, from) = [x \in OfFooter!Parts |-> FooterMergePart(x, to[x], from[x])]
  <2> DEFINE merged(x) == FooterMergePart(x, to[x], from[x])
  <2>1. MergeFooter(to, from)
          = [res |-> merged("res"), result |-> merged("result")]
    BY <1>4, ResultLoop DEF MergeFooter, FooterMergePart
  <2> HIDE DEF merged
  <2>2. [res |-> merged("res"), result |-> merged("result")]
          = [x \in {"res", "result"} |-> merged(x)]
    OBVIOUS
  <2> QED
    BY <1>1, <2>1, <2>2 DEF merged
<1>8. ASSUME NEW m PROVE \E puts : OfFooter!WrittenInOrder(m, puts)
  <2> DEFINE put(x) == FooterPutPart(x, m[x])
             put2 == put("res") \o put("result")
             puts == <<put("res"), put2>>
  <2>1. SerializeFooter(m) = put2
    BY <1>3, <1>4, ResultLoop DEF SerializeFooter, FooterPutPart
  <2> HIDE DEF put
  <2>2. /\ puts[1] = put("res") /\ puts[2] = puts[1] \o put("result") /\ puts[2] = put2
    OBVIOUS
  <2> HIDE DEF puts, put2
  <2>3. ASSUME NEW i \in 2 .. 2
        PROVE  puts[i] = puts[i - 1] \o put(FooterNames[i])
    <3>1. i = 2 /\ i - 1 = 1
      OBVIOUS
    <3> QED
      BY <1>2, <2>2, <3>1
  <2>4. OfFooter!WrittenInOrder(m, puts)
    BY <1>2, <2>1, <2>2, <2>3 DEF OfFooter!WrittenInOrder, put
  <2> QED
    BY <2>4
<1>9. OfFooter!ByParts
  BY <1>1, <1>5, <1>6, <1>7, <1>8 DEF OfFooter!ByParts
<1>10. NewFooter \in Footer
  BY NewTexts, NoPointer DEF NewFooter, Footer
<1>11. ASSUME NEW x \in OfFooter!Parts
       PROVE  OfFooter!PartSound(x, FooterTypes[x], FooterTypes[x], FooterValues[x])
  <2>1. CASE x \notin {"result"}
    <3>1. NewFooter[x] \in FooterTypes[x] /\ FooterValues[x] = FooterTypes[x] \ {NewFooter[x]}
      BY <2>1, <1>10, FooterTyped DEF OfFooter!Typed, OfFooter!Parts, FooterValues
    <3>2. OfFooter!ScalarPart(x)
      BY <2>1 DEF OfFooter!ScalarPart, FooterTakePart, FooterMergePart, FooterPutPart, MergeScalar,
        PutScalar, Field
    <3> QED
      BY <1>9, <3>1, <3>2, OfFooter!ScalarSound
  <2>2. CASE x = "result"
    <3>1. /\ \A p, field : FooterTakePart(x, p, field) = OfResult!TakePointer(p, field)
          /\ \A p, q : FooterMergePart(x, p, q) = OfResult!MergePointers(p, q)
          /\ \A p : FooterPutPart(x, p) = OfResult!PutPointer(FooterNumbers[x], p)
          /\ NewFooter[x] = << >>
      BY <1>3, <1>4, <2>2 DEF FooterTakePart, FooterMergePart, FooterPutPart
    <3>2. /\ FooterTypes[x] = OfResult!Pointer(Result) /\ FooterValues[x] = Seq(ResultWire)
      BY <1>1, <2>2 DEF FooterTypes, FooterValues, OfFooter!Parts, Pointer, OfResult!Pointer
    <3> QED
      BY <1>9, <3>1, <3>2, ResultSound, OfResult!PointerSound, OfFooter!OneFieldSound
  <2> QED
    BY <1>1, <2>1, <2>2
<1> QED
  BY <1>9, <1>11, FooterTyped, OfFooter!ByPartsSound DEF FooterWire

-----------------------------------------------------------------------------
(* UserBaseInfo.                                                           *)

TakeUserBaseInfo(m, field) == TakeScalar(m, field, UserBaseInfoFields)
UserBaseInfoNumbers ==
  [user_name |-> 1, user_pass |-> 2, permission |-> 3, email |-> 4, phone |-> 5]
UserBaseInfoMergePart(x, to, from) ==
  MergeScalar(to, from, NewUserBaseInfo[x])
UserBaseInfoPutPart(x, value) ==
  PutScalar(UserBaseInfoNumbers[x], value, NewUserBaseInfo[x])
OfUserBaseInfo ==
  INSTANCE ProtoWire_proof
  WITH New <- NewUserBaseInfo, Take <- TakeUserBaseInfo, Merge <- MergeUserBaseInfo,
       Serialize <- SerializeUserBaseInfo, Names <- UserBaseInfoFields,
       Numbers <- UserBaseInfoNumbers, TakePart <- ScalarTakePart,
       MergePart <- UserBaseInfoMergePart, PutPart <- UserBaseInfoPutPart
UserBaseInfoTypes ==
  [user_name |-> STRING, user_pass |-> STRING, permission |-> Nat,
   email |-> STRING, phone |-> STRING]
UserBaseInfoValues == [x \in DOMAIN NewUserBaseInfo |-> UserBaseInfoTypes[x] \ {NewUserBaseInfo[x]}]
UserBaseInfoWire == OfUserBaseInfo!Wire(UserBaseInfoValues)

\* Its operators are those of the general theory.
LEMMA UserBaseInfoLoop ==
  ASSUME NEW m, NEW fields, NEW p, NEW q, NEW field, NEW number
  PROVE  /\ ParseUserBaseInfo(m, fields) = OfUserBaseInfo!Parse(m, fields)
         /\ TakeMessage(p, field, ParseUserBaseInfo, NewUserBaseInfo)
              = OfUserBaseInfo!TakePointer(p, field)
         /\ MergeMessage(p, q, MergeUserBaseInfo, NewUserBaseInfo)
              = OfUserBaseInfo!MergePointers(p, q)
         /\ PutMessage(number, p, SerializeUserBaseInfo) = OfUserBaseInfo!PutPointer(number, p)
<1>1. \A n, fs : ParseUserBaseInfo(n, fs) = OfUserBaseInfo!Parse(n, fs)
  BY DEF ParseUserBaseInfo, TakeScalars, TakeUserBaseInfo, TakeFields, OfUserBaseInfo!Parse,
    OfUserBaseInfo!TakeFields
<1> QED
  BY <1>1 DEF TakeMessage, MergeMessage, PutMessage, Deref, Field, OfUserBaseInfo!TakePointer,
    OfUserBaseInfo!TakeMessage, OfUserBaseInfo!Deref, OfUserBaseInfo!MergePointers,
    OfUserBaseInfo!MergeMessage, OfUserBaseInfo!PutPointer, OfUserBaseInfo!PutMessage,
    OfUserBaseInfo!Field

\* A UserBaseInfo has these parts, each of its type.
LEMMA UserBaseInfoTyped == OfUserBaseInfo!Typed(UserBaseInfo, UserBaseInfoTypes)
BY DEF OfUserBaseInfo!Typed, OfUserBaseInfo!HasParts, OfUserBaseInfo!Parts, UserBaseInfo,
  UserBaseInfoTypes, NewUserBaseInfo

\* What is written of a UserBaseInfo is read back, and reading more of it is merging.
\* (UserBaseInfo::_InternalParse, MergeFrom, _InternalSerialize)
LEMMA UserBaseInfoSound == OfUserBaseInfo!Sound(UserBaseInfo, UserBaseInfo, UserBaseInfoWire)
<1>1. /\ OfUserBaseInfo!Parts = {"user_name", "user_pass", "permission", "email", "phone"}
      /\ OfUserBaseInfo!HasParts(NewUserBaseInfo)
  BY DEF OfUserBaseInfo!Parts, OfUserBaseInfo!HasParts, NewUserBaseInfo
<1>2. /\ Len(UserBaseInfoFields) = 5 /\ DOMAIN UserBaseInfoFields = 1 .. 5
      /\ UserBaseInfoFields[1] = "user_name" /\ UserBaseInfoFields[2] = "user_pass"
      /\ UserBaseInfoFields[3] = "permission" /\ UserBaseInfoFields[4] = "email"
      /\ UserBaseInfoFields[5] = "phone"
  BY DEF UserBaseInfoFields
<1>3. /\ UserBaseInfoNumbers["user_name"] = 1 /\ UserBaseInfoNumbers["user_pass"] = 2
      /\ UserBaseInfoNumbers["permission"] = 3 /\ UserBaseInfoNumbers["email"] = 4
      /\ UserBaseInfoNumbers["phone"] = 5
  BY DEF UserBaseInfoNumbers
<1>4. /\ NewUserBaseInfo["user_name"] = "" /\ NewUserBaseInfo["user_pass"] = ""
      /\ NewUserBaseInfo["permission"] = 0 /\ NewUserBaseInfo["email"] = ""
      /\ NewUserBaseInfo["phone"] = ""
  BY DEF NewUserBaseInfo
<1>5. OfUserBaseInfo!AllWritten
  BY <1>1, <1>2 DEF OfUserBaseInfo!AllWritten
<1>6. ASSUME NEW x \in OfUserBaseInfo!Parts, NEW m, NEW field, field.number = UserBaseInfoNumbers[x]
      PROVE  TakeUserBaseInfo(m, field) = OfUserBaseInfo!With(m, x, ScalarTakePart(x, m[x], field))
  <2>1. /\ UserBaseInfoNumbers[x] \in DOMAIN UserBaseInfoFields
        /\ UserBaseInfoFields[UserBaseInfoNumbers[x]] = x
    BY <1>1, <1>2, <1>3
  <2> QED
    BY <1>6, <2>1 DEF TakeUserBaseInfo, TakeScalar, OfUserBaseInfo!With, ScalarTakePart
<1>7. ASSUME NEW to, NEW from
      PROVE  MergeUserBaseInfo(to, from)
               = [x \in OfUserBaseInfo!Parts |-> UserBaseInfoMergePart(x, to[x], from[x])]
  BY <1>1 DEF MergeUserBaseInfo, MergeScalars, UserBaseInfoMergePart, OfUserBaseInfo!Parts
<1>8. ASSUME NEW m PROVE \E puts : OfUserBaseInfo!WrittenInOrder(m, puts)
  <2> DEFINE put(x) == UserBaseInfoPutPart(x, m[x])
             put2 == put("user_name") \o put("user_pass")
             put3 == put2 \o put("permission")
             put4 == put3 \o put("email")
             put5 == put4 \o put("phone")
             puts == <<put("user_name"), put2, put3, put4, put5>>
  <2>1. SerializeUserBaseInfo(m) = put5
    BY <1>3, <1>4 DEF SerializeUserBaseInfo, UserBaseInfoPutPart
  <2> HIDE DEF put
  <2>2. /\ puts[1] = put("user_name") /\ puts[2] = puts[1] \o put("user_pass")
        /\ puts[3] = puts[2] \o put("permission") /\ puts[4] = puts[3] \o put("email")
        /\ puts[5] = puts[4] \o put("phone") /\ puts[5] = put5
    OBVIOUS
  <2> HIDE DEF puts, put5
  <2>3. ASSUME NEW i \in 2 .. 5
        PROVE  puts[i] = puts[i - 1] \o put(UserBaseInfoFields[i])
    <3>1. (i = 2 /\ i - 1 = 1) \/ (i = 3 /\ i - 1 = 2) \/ (i = 4 /\ i - 1 = 3) \/
          (i = 5 /\ i - 1 = 4)
      OBVIOUS
    <3> QED
      BY <1>2, <2>2, <3>1
  <2>4. OfUserBaseInfo!WrittenInOrder(m, puts)
    BY <1>2, <2>1, <2>2, <2>3 DEF OfUserBaseInfo!WrittenInOrder, put
  <2> QED
    BY <2>4
<1>9. OfUserBaseInfo!ByParts
  BY <1>1, <1>5, <1>6, <1>7, <1>8 DEF OfUserBaseInfo!ByParts
<1>10. NewUserBaseInfo \in UserBaseInfo
  BY NewTexts DEF NewUserBaseInfo, UserBaseInfo
<1>11. ASSUME NEW x \in OfUserBaseInfo!Parts
       PROVE  OfUserBaseInfo!PartSound(x, UserBaseInfoTypes[x], UserBaseInfoTypes[x],
                                       UserBaseInfoValues[x])
  <2>1. /\ NewUserBaseInfo[x] \in UserBaseInfoTypes[x]
        /\ UserBaseInfoValues[x] = UserBaseInfoTypes[x] \ {NewUserBaseInfo[x]}
    BY <1>10, UserBaseInfoTyped DEF OfUserBaseInfo!Typed, OfUserBaseInfo!Parts, UserBaseInfoValues
  <2>2. OfUserBaseInfo!ScalarPart(x)
    BY DEF OfUserBaseInfo!ScalarPart, ScalarTakePart, UserBaseInfoMergePart, UserBaseInfoPutPart,
      MergeScalar, PutScalar, Field
  <2> QED
    BY <1>9, <2>1, <2>2, OfUserBaseInfo!ScalarSound
<1> QED
  BY <1>9, <1>11, UserBaseInfoTyped, OfUserBaseInfo!ByPartsSound DEF UserBaseInfoWire

-----------------------------------------------------------------------------
(* UserAllInfo.                                                            *)

UserAllInfoNumbers == [user_base_info |-> 1, in_blacklist |-> 2, valid |-> 3]
UserAllInfoTakePart(x, old, field) ==
  IF x = "user_base_info" THEN OfUserBaseInfo!TakePointer(old, field)
  ELSE field.value
UserAllInfoMergePart(x, to, from) ==
  IF x = "user_base_info" THEN OfUserBaseInfo!MergePointers(to, from)
  ELSE MergeScalar(to, from, NewUserAllInfo[x])
UserAllInfoPutPart(x, value) ==
  IF x = "user_base_info" THEN OfUserBaseInfo!PutPointer(UserAllInfoNumbers[x], value)
  ELSE PutScalar(UserAllInfoNumbers[x], value, NewUserAllInfo[x])
OfUserAllInfo ==
  INSTANCE ProtoWire_proof
  WITH New <- NewUserAllInfo, Take <- TakeUserAllInfo, Merge <- MergeUserAllInfo,
       Serialize <- SerializeUserAllInfo, Names <- UserAllInfoFields, Numbers <- UserAllInfoNumbers,
       TakePart <- UserAllInfoTakePart, MergePart <- UserAllInfoMergePart,
       PutPart <- UserAllInfoPutPart
UserAllInfoTypes ==
  [user_base_info |-> Pointer(UserBaseInfo), in_blacklist |-> BOOLEAN,
   valid |-> BOOLEAN]
UserAllInfoValues ==
  [x \in DOMAIN NewUserAllInfo |->
     IF x = "user_base_info" THEN Seq(UserBaseInfoWire)
     ELSE UserAllInfoTypes[x] \ {NewUserAllInfo[x]}]
UserAllInfoWire == OfUserAllInfo!Wire(UserAllInfoValues)

\* Its operators are those of the general theory.
LEMMA UserAllInfoLoop ==
  ASSUME NEW m, NEW fields, NEW p, NEW q, NEW field, NEW number
  PROVE  /\ ParseUserAllInfo(m, fields) = OfUserAllInfo!Parse(m, fields)
         /\ TakeMessage(p, field, ParseUserAllInfo, NewUserAllInfo)
              = OfUserAllInfo!TakePointer(p, field)
         /\ MergeMessage(p, q, MergeUserAllInfo, NewUserAllInfo) = OfUserAllInfo!MergePointers(p, q)
         /\ PutMessage(number, p, SerializeUserAllInfo) = OfUserAllInfo!PutPointer(number, p)
<1>1. \A n, fs : ParseUserAllInfo(n, fs) = OfUserAllInfo!Parse(n, fs)
  BY DEF ParseUserAllInfo, TakeFields, OfUserAllInfo!Parse, OfUserAllInfo!TakeFields
<1> QED
  BY <1>1 DEF TakeMessage, MergeMessage, PutMessage, Deref, Field, OfUserAllInfo!TakePointer,
    OfUserAllInfo!TakeMessage, OfUserAllInfo!Deref, OfUserAllInfo!MergePointers,
    OfUserAllInfo!MergeMessage, OfUserAllInfo!PutPointer, OfUserAllInfo!PutMessage,
    OfUserAllInfo!Field

\* A UserAllInfo has these parts, each of its type.
LEMMA UserAllInfoTyped == OfUserAllInfo!Typed(UserAllInfo, UserAllInfoTypes)
BY DEF OfUserAllInfo!Typed, OfUserAllInfo!HasParts, OfUserAllInfo!Parts, UserAllInfo,
  UserAllInfoTypes, NewUserAllInfo

\* What is written of a UserAllInfo is read back, and reading more of it is merging.
\* (UserAllInfo::_InternalParse, MergeFrom, _InternalSerialize)
LEMMA UserAllInfoSound == OfUserAllInfo!Sound(UserAllInfo, UserAllInfo, UserAllInfoWire)
<1>1. /\ OfUserAllInfo!Parts = {"user_base_info", "in_blacklist", "valid"}
      /\ OfUserAllInfo!HasParts(NewUserAllInfo)
  BY DEF OfUserAllInfo!Parts, OfUserAllInfo!HasParts, NewUserAllInfo
<1>2. /\ Len(UserAllInfoFields) = 3 /\ DOMAIN UserAllInfoFields = 1 .. 3
      /\ UserAllInfoFields[1] = "user_base_info" /\ UserAllInfoFields[2] = "in_blacklist"
      /\ UserAllInfoFields[3] = "valid"
  BY DEF UserAllInfoFields
<1>3. /\ UserAllInfoNumbers["user_base_info"] = 1 /\ UserAllInfoNumbers["in_blacklist"] = 2
      /\ UserAllInfoNumbers["valid"] = 3
  BY DEF UserAllInfoNumbers
<1>4. /\ NewUserAllInfo["user_base_info"] = << >> /\ NewUserAllInfo["in_blacklist"] = FALSE
      /\ NewUserAllInfo["valid"] = FALSE
  BY DEF NewUserAllInfo
<1>5. OfUserAllInfo!AllWritten
  BY <1>1, <1>2 DEF OfUserAllInfo!AllWritten
<1>6. ASSUME NEW x \in OfUserAllInfo!Parts, NEW m, NEW field, field.number = UserAllInfoNumbers[x]
      PROVE  TakeUserAllInfo(m, field)
               = OfUserAllInfo!With(m, x, UserAllInfoTakePart(x, m[x], field))
  <2>1. CASE x = "user_base_info"
    <3>1. field.number = 1
      BY <1>3, <1>6, <2>1
    <3> QED
      BY <2>1, <3>1, UserBaseInfoLoop DEF TakeUserAllInfo, OfUserAllInfo!With, UserAllInfoTakePart
  <2>2. CASE x \notin {"user_base_info"}
    <3>1. /\ UserAllInfoNumbers[x] \in DOMAIN UserAllInfoFields
          /\ UserAllInfoFields[UserAllInfoNumbers[x]] = x
      BY <1>1, <1>2, <1>3, <2>2
    <3>2. field.number \notin {1}
      BY <1>1, <1>3, <1>6, <2>2
    <3>3. x \notin {"user_base_info"}
      BY <2>2
    <3> QED
      BY <1>6, <3>1, <3>2, <3>3 DEF TakeUserAllInfo, TakeScalar, OfUserAllInfo!With,
        UserAllInfoTakePart
  <2> QED
    BY <2>1, <2>2
<1>7. ASSUME NEW to, NEW from
      PROVE  MergeUserAllInfo(to, from)
               = [x \in OfUserAllInfo!Parts |-> UserAllInfoMergePart(x, to[x], from[x])]
  BY <1>1, UserBaseInfoLoop DEF MergeUserAllInfo, MergeScalars, UserAllInfoMergePart,
    OfUserAllInfo!Parts
<1>8. ASSUME NEW m PROVE \E puts : OfUserAllInfo!WrittenInOrder(m, puts)
  <2> DEFINE put(x) == UserAllInfoPutPart(x, m[x])
             put2 == put("user_base_info") \o put("in_blacklist")
             put3 == put2 \o put("valid")
             puts == <<put("user_base_info"), put2, put3>>
  <2>1. SerializeUserAllInfo(m) = put3
    BY <1>3, <1>4, UserBaseInfoLoop DEF SerializeUserAllInfo, UserAllInfoPutPart
  <2> HIDE DEF put
  <2>2. /\ puts[1] = put("user_base_info") /\ puts[2] = puts[1] \o put("in_blacklist")
        /\ puts[3] = puts[2] \o put("valid") /\ puts[3] = put3
    OBVIOUS
  <2> HIDE DEF puts, put3
  <2>3. ASSUME NEW i \in 2 .. 3
        PROVE  puts[i] = puts[i - 1] \o put(UserAllInfoFields[i])
    <3>1. (i = 2 /\ i - 1 = 1) \/ (i = 3 /\ i - 1 = 2)
      OBVIOUS
    <3> QED
      BY <1>2, <2>2, <3>1
  <2>4. OfUserAllInfo!WrittenInOrder(m, puts)
    BY <1>2, <2>1, <2>2, <2>3 DEF OfUserAllInfo!WrittenInOrder, put
  <2> QED
    BY <2>4
<1>9. OfUserAllInfo!ByParts
  BY <1>1, <1>5, <1>6, <1>7, <1>8 DEF OfUserAllInfo!ByParts
<1>10. NewUserAllInfo \in UserAllInfo
  BY NewTexts, NoPointer DEF NewUserAllInfo, UserAllInfo
<1>11. ASSUME NEW x \in OfUserAllInfo!Parts
       PROVE  OfUserAllInfo!PartSound(x, UserAllInfoTypes[x], UserAllInfoTypes[x],
                                      UserAllInfoValues[x])
  <2>1. CASE x \notin {"user_base_info"}
    <3>1. /\ NewUserAllInfo[x] \in UserAllInfoTypes[x]
          /\ UserAllInfoValues[x] = UserAllInfoTypes[x] \ {NewUserAllInfo[x]}
      BY <2>1, <1>10, UserAllInfoTyped DEF OfUserAllInfo!Typed, OfUserAllInfo!Parts,
        UserAllInfoValues
    <3>2. OfUserAllInfo!ScalarPart(x)
      BY <2>1 DEF OfUserAllInfo!ScalarPart, UserAllInfoTakePart, UserAllInfoMergePart,
        UserAllInfoPutPart, MergeScalar, PutScalar, Field
    <3> QED
      BY <1>9, <3>1, <3>2, OfUserAllInfo!ScalarSound
  <2>2. CASE x = "user_base_info"
    <3>1. /\ \A p, field : UserAllInfoTakePart(x, p, field) = OfUserBaseInfo!TakePointer(p, field)
          /\ \A p, q : UserAllInfoMergePart(x, p, q) = OfUserBaseInfo!MergePointers(p, q)
          /\ \A p : UserAllInfoPutPart(x, p) = OfUserBaseInfo!PutPointer(UserAllInfoNumbers[x], p)
          /\ NewUserAllInfo[x] = << >>
      BY <1>3, <1>4, <2>2 DEF UserAllInfoTakePart, UserAllInfoMergePart, UserAllInfoPutPart
    <3>2. /\ UserAllInfoTypes[x] = OfUserBaseInfo!Pointer(UserBaseInfo)
          /\ UserAllInfoValues[x] = Seq(UserBaseInfoWire)
      BY <1>1, <2>2 DEF UserAllInfoTypes, UserAllInfoValues, OfUserAllInfo!Parts, Pointer,
        OfUserBaseInfo!Pointer
    <3> QED
      BY <1>9, <3>1, <3>2, UserBaseInfoSound, OfUserBaseInfo!PointerSound,
         OfUserAllInfo!OneFieldSound
  <2> QED
    BY <1>1, <2>1, <2>2
<1> QED
  BY <1>9, <1>11, UserAllInfoTyped, OfUserAllInfo!ByPartsSound DEF UserAllInfoWire

-----------------------------------------------------------------------------
(* UserSessionMsg.                                                         *)

UserSessionMsgNumbers == [user_type |-> 1, user |-> 2, token |-> 3, alive_time |-> 4]
UserSessionMsgTakePart(x, old, field) ==
  IF x = "user" THEN OfUserBaseInfo!TakePointer(old, field)
  ELSE field.value
UserSessionMsgMergePart(x, to, from) ==
  IF x = "user" THEN OfUserBaseInfo!MergePointers(to, from)
  ELSE MergeScalar(to, from, NewUserSessionMsg[x])
UserSessionMsgPutPart(x, value) ==
  IF x = "user" THEN OfUserBaseInfo!PutPointer(UserSessionMsgNumbers[x], value)
  ELSE PutScalar(UserSessionMsgNumbers[x], value, NewUserSessionMsg[x])
OfUserSessionMsg ==
  INSTANCE ProtoWire_proof
  WITH New <- NewUserSessionMsg, Take <- TakeUserSessionMsg, Merge <- MergeUserSessionMsg,
       Serialize <- SerializeUserSessionMsg, Names <- UserSessionMsgFields,
       Numbers <- UserSessionMsgNumbers, TakePart <- UserSessionMsgTakePart,
       MergePart <- UserSessionMsgMergePart, PutPart <- UserSessionMsgPutPart
UserSessionMsgTypes ==
  [user_type |-> Nat, user |-> Pointer(UserBaseInfo), token |-> STRING,
   alive_time |-> Nat]
UserSessionMsgValues ==
  [x \in DOMAIN NewUserSessionMsg |->
     IF x = "user" THEN Seq(UserBaseInfoWire)
     ELSE UserSessionMsgTypes[x] \ {NewUserSessionMsg[x]}]
UserSessionMsgWire == OfUserSessionMsg!Wire(UserSessionMsgValues)

\* Its operators are those of the general theory.
LEMMA UserSessionMsgLoop ==
  ASSUME NEW m, NEW fields, NEW p, NEW q, NEW field, NEW number
  PROVE  /\ ParseUserSessionMsg(m, fields) = OfUserSessionMsg!Parse(m, fields)
         /\ TakeMessage(p, field, ParseUserSessionMsg, NewUserSessionMsg)
              = OfUserSessionMsg!TakePointer(p, field)
         /\ MergeMessage(p, q, MergeUserSessionMsg, NewUserSessionMsg)
              = OfUserSessionMsg!MergePointers(p, q)
         /\ PutMessage(number, p, SerializeUserSessionMsg) = OfUserSessionMsg!PutPointer(number, p)
<1>1. \A n, fs : ParseUserSessionMsg(n, fs) = OfUserSessionMsg!Parse(n, fs)
  BY DEF ParseUserSessionMsg, TakeFields, OfUserSessionMsg!Parse, OfUserSessionMsg!TakeFields
<1> QED
  BY <1>1 DEF TakeMessage, MergeMessage, PutMessage, Deref, Field, OfUserSessionMsg!TakePointer,
    OfUserSessionMsg!TakeMessage, OfUserSessionMsg!Deref, OfUserSessionMsg!MergePointers,
    OfUserSessionMsg!MergeMessage, OfUserSessionMsg!PutPointer, OfUserSessionMsg!PutMessage,
    OfUserSessionMsg!Field

\* A UserSessionMsg has these parts, each of its type.
LEMMA UserSessionMsgTyped == OfUserSessionMsg!Typed(UserSessionMsg, UserSessionMsgTypes)
BY DEF OfUserSessionMsg!Typed, OfUserSessionMsg!HasParts, OfUserSessionMsg!Parts, UserSessionMsg,
  UserSessionMsgTypes, NewUserSessionMsg

\* What is written of a UserSessionMsg is read back, and reading more of it is merging.
\* (UserSessionMsg::_InternalParse, MergeFrom, _InternalSerialize)
LEMMA UserSessionMsgSound ==
  OfUserSessionMsg!Sound(UserSessionMsg, UserSessionMsg, UserSessionMsgWire)
<1>1. /\ OfUserSessionMsg!Parts = {"user_type", "user", "token", "alive_time"}
      /\ OfUserSessionMsg!HasParts(NewUserSessionMsg)
  BY DEF OfUserSessionMsg!Parts, OfUserSessionMsg!HasParts, NewUserSessionMsg
<1>2. /\ Len(UserSessionMsgFields) = 4 /\ DOMAIN UserSessionMsgFields = 1 .. 4
      /\ UserSessionMsgFields[1] = "user_type" /\ UserSessionMsgFields[2] = "user"
      /\ UserSessionMsgFields[3] = "token" /\ UserSessionMsgFields[4] = "alive_time"
  BY DEF UserSessionMsgFields
<1>3. /\ UserSessionMsgNumbers["user_type"] = 1 /\ UserSessionMsgNumbers["user"] = 2
      /\ UserSessionMsgNumbers["token"] = 3 /\ UserSessionMsgNumbers["alive_time"] = 4
  BY DEF UserSessionMsgNumbers
<1>4. /\ NewUserSessionMsg["user_type"] = 0 /\ NewUserSessionMsg["user"] = << >>
      /\ NewUserSessionMsg["token"] = "" /\ NewUserSessionMsg["alive_time"] = 0
  BY DEF NewUserSessionMsg
<1>5. OfUserSessionMsg!AllWritten
  BY <1>1, <1>2 DEF OfUserSessionMsg!AllWritten
<1>6. ASSUME NEW x \in OfUserSessionMsg!Parts, NEW m, NEW field,
             field.number = UserSessionMsgNumbers[x]
      PROVE  TakeUserSessionMsg(m, field)
               = OfUserSessionMsg!With(m, x, UserSessionMsgTakePart(x, m[x], field))
  <2>1. CASE x = "user"
    <3>1. field.number = 2
      BY <1>3, <1>6, <2>1
    <3> QED
      BY <2>1, <3>1, UserBaseInfoLoop DEF TakeUserSessionMsg, OfUserSessionMsg!With,
        UserSessionMsgTakePart
  <2>2. CASE x \notin {"user"}
    <3>1. /\ UserSessionMsgNumbers[x] \in DOMAIN UserSessionMsgFields
          /\ UserSessionMsgFields[UserSessionMsgNumbers[x]] = x
      BY <1>1, <1>2, <1>3, <2>2
    <3>2. field.number \notin {2}
      BY <1>1, <1>3, <1>6, <2>2
    <3>3. x \notin {"user"}
      BY <2>2
    <3> QED
      BY <1>6, <3>1, <3>2, <3>3 DEF TakeUserSessionMsg, TakeScalar, OfUserSessionMsg!With,
        UserSessionMsgTakePart
  <2> QED
    BY <2>1, <2>2
<1>7. ASSUME NEW to, NEW from
      PROVE  MergeUserSessionMsg(to, from)
               = [x \in OfUserSessionMsg!Parts |-> UserSessionMsgMergePart(x, to[x], from[x])]
  BY <1>1, UserBaseInfoLoop DEF MergeUserSessionMsg, MergeScalars, UserSessionMsgMergePart,
    OfUserSessionMsg!Parts
<1>8. ASSUME NEW m PROVE \E puts : OfUserSessionMsg!WrittenInOrder(m, puts)
  <2> DEFINE put(x) == UserSessionMsgPutPart(x, m[x])
             put2 == put("user_type") \o put("user")
             put3 == put2 \o put("token")
             put4 == put3 \o put("alive_time")
             puts == <<put("user_type"), put2, put3, put4>>
  <2>1. SerializeUserSessionMsg(m) = put4
    BY <1>3, <1>4, UserBaseInfoLoop DEF SerializeUserSessionMsg, UserSessionMsgPutPart
  <2> HIDE DEF put
  <2>2. /\ puts[1] = put("user_type") /\ puts[2] = puts[1] \o put("user")
        /\ puts[3] = puts[2] \o put("token") /\ puts[4] = puts[3] \o put("alive_time")
        /\ puts[4] = put4
    OBVIOUS
  <2> HIDE DEF puts, put4
  <2>3. ASSUME NEW i \in 2 .. 4
        PROVE  puts[i] = puts[i - 1] \o put(UserSessionMsgFields[i])
    <3>1. (i = 2 /\ i - 1 = 1) \/ (i = 3 /\ i - 1 = 2) \/ (i = 4 /\ i - 1 = 3)
      OBVIOUS
    <3> QED
      BY <1>2, <2>2, <3>1
  <2>4. OfUserSessionMsg!WrittenInOrder(m, puts)
    BY <1>2, <2>1, <2>2, <2>3 DEF OfUserSessionMsg!WrittenInOrder, put
  <2> QED
    BY <2>4
<1>9. OfUserSessionMsg!ByParts
  BY <1>1, <1>5, <1>6, <1>7, <1>8 DEF OfUserSessionMsg!ByParts
<1>10. NewUserSessionMsg \in UserSessionMsg
  BY NewTexts, NoPointer DEF NewUserSessionMsg, UserSessionMsg
<1>11. ASSUME NEW x \in OfUserSessionMsg!Parts
       PROVE  OfUserSessionMsg!PartSound(x, UserSessionMsgTypes[x], UserSessionMsgTypes[x],
                                         UserSessionMsgValues[x])
  <2>1. CASE x \notin {"user"}
    <3>1. /\ NewUserSessionMsg[x] \in UserSessionMsgTypes[x]
          /\ UserSessionMsgValues[x] = UserSessionMsgTypes[x] \ {NewUserSessionMsg[x]}
      BY <2>1, <1>10, UserSessionMsgTyped DEF OfUserSessionMsg!Typed, OfUserSessionMsg!Parts,
        UserSessionMsgValues
    <3>2. OfUserSessionMsg!ScalarPart(x)
      BY <2>1 DEF OfUserSessionMsg!ScalarPart, UserSessionMsgTakePart, UserSessionMsgMergePart,
        UserSessionMsgPutPart, MergeScalar, PutScalar, Field
    <3> QED
      BY <1>9, <3>1, <3>2, OfUserSessionMsg!ScalarSound
  <2>2. CASE x = "user"
    <3>1. /\ \A p, field : UserSessionMsgTakePart(x, p, field)
               = OfUserBaseInfo!TakePointer(p, field)
          /\ \A p, q : UserSessionMsgMergePart(x, p, q) = OfUserBaseInfo!MergePointers(p, q)
          /\ \A p : UserSessionMsgPutPart(x, p)
               = OfUserBaseInfo!PutPointer(UserSessionMsgNumbers[x], p)
          /\ NewUserSessionMsg[x] = << >>
      BY <1>3, <1>4, <2>2 DEF UserSessionMsgTakePart, UserSessionMsgMergePart, UserSessionMsgPutPart
    <3>2. /\ UserSessionMsgTypes[x] = OfUserBaseInfo!Pointer(UserBaseInfo)
          /\ UserSessionMsgValues[x] = Seq(UserBaseInfoWire)
      BY <1>1, <2>2 DEF UserSessionMsgTypes, UserSessionMsgValues, OfUserSessionMsg!Parts, Pointer,
        OfUserBaseInfo!Pointer
    <3> QED
      BY <1>9, <3>1, <3>2, UserBaseInfoSound, OfUserBaseInfo!PointerSound,
         OfUserSessionMsg!OneFieldSound
  <2> QED
    BY <1>1, <2>1, <2>2
<1> QED
  BY <1>9, <1>11, UserSessionMsgTyped, OfUserSessionMsg!ByPartsSound DEF UserSessionMsgWire

-----------------------------------------------------------------------------
(* AppModuleBaseInfo.                                                      *)

TakeAppModuleBaseInfo(m, field) == TakeScalar(m, field, AppModuleBaseInfoFields)
AppModuleBaseInfoNumbers == [name |-> 1, type |-> 2, identifier |-> 3, enable |-> 4, state |-> 5,
                               permission |-> 6]
AppModuleBaseInfoMergePart(x, to, from) ==
  MergeScalar(to, from, NewAppModuleBaseInfo[x])
AppModuleBaseInfoPutPart(x, value) ==
  PutScalar(AppModuleBaseInfoNumbers[x], value, NewAppModuleBaseInfo[x])
OfAppModuleBaseInfo ==
  INSTANCE ProtoWire_proof
  WITH New <- NewAppModuleBaseInfo, Take <- TakeAppModuleBaseInfo, Merge <- MergeAppModuleBaseInfo,
       Serialize <- SerializeAppModuleBaseInfo, Names <- AppModuleBaseInfoFields,
       Numbers <- AppModuleBaseInfoNumbers, TakePart <- ScalarTakePart,
       MergePart <- AppModuleBaseInfoMergePart, PutPart <- AppModuleBaseInfoPutPart
AppModuleBaseInfoTypes ==
  [name |-> STRING, type |-> Nat, identifier |-> Nat, enable |-> BOOLEAN,
   state |-> Nat, permission |-> Nat]
AppModuleBaseInfoValues ==
  [x \in DOMAIN NewAppModuleBaseInfo |-> AppModuleBaseInfoTypes[x] \ {NewAppModuleBaseInfo[x]}]
AppModuleBaseInfoWire == OfAppModuleBaseInfo!Wire(AppModuleBaseInfoValues)

\* Its operators are those of the general theory.
LEMMA AppModuleBaseInfoLoop ==
  ASSUME NEW m, NEW fields, NEW p, NEW q, NEW field, NEW number
  PROVE  /\ ParseAppModuleBaseInfo(m, fields) = OfAppModuleBaseInfo!Parse(m, fields)
         /\ TakeMessage(p, field, ParseAppModuleBaseInfo, NewAppModuleBaseInfo)
              = OfAppModuleBaseInfo!TakePointer(p, field)
         /\ MergeMessage(p, q, MergeAppModuleBaseInfo, NewAppModuleBaseInfo)
              = OfAppModuleBaseInfo!MergePointers(p, q)
         /\ PutMessage(number, p, SerializeAppModuleBaseInfo)
              = OfAppModuleBaseInfo!PutPointer(number, p)
<1>1. \A n, fs : ParseAppModuleBaseInfo(n, fs) = OfAppModuleBaseInfo!Parse(n, fs)
  BY DEF ParseAppModuleBaseInfo, TakeScalars, TakeAppModuleBaseInfo, TakeFields,
    OfAppModuleBaseInfo!Parse, OfAppModuleBaseInfo!TakeFields
<1> QED
  BY <1>1 DEF TakeMessage, MergeMessage, PutMessage, Deref, Field, OfAppModuleBaseInfo!TakePointer,
    OfAppModuleBaseInfo!TakeMessage, OfAppModuleBaseInfo!Deref, OfAppModuleBaseInfo!MergePointers,
    OfAppModuleBaseInfo!MergeMessage, OfAppModuleBaseInfo!PutPointer,
    OfAppModuleBaseInfo!PutMessage, OfAppModuleBaseInfo!Field

\* A AppModuleBaseInfo has these parts, each of its type.
LEMMA AppModuleBaseInfoTyped == OfAppModuleBaseInfo!Typed(AppModuleBaseInfo, AppModuleBaseInfoTypes)
BY DEF OfAppModuleBaseInfo!Typed, OfAppModuleBaseInfo!HasParts, OfAppModuleBaseInfo!Parts,
  AppModuleBaseInfo, AppModuleBaseInfoTypes, NewAppModuleBaseInfo

\* What is written of a AppModuleBaseInfo is read back, and reading more of it is merging.
\* (AppModuleBaseInfo::_InternalParse, MergeFrom, _InternalSerialize)
LEMMA AppModuleBaseInfoSound ==
  OfAppModuleBaseInfo!Sound(AppModuleBaseInfo, AppModuleBaseInfo, AppModuleBaseInfoWire)
<1>1. /\ OfAppModuleBaseInfo!Parts = {"name", "type", "identifier", "enable", "state", "permission"}
      /\ OfAppModuleBaseInfo!HasParts(NewAppModuleBaseInfo)
  BY DEF OfAppModuleBaseInfo!Parts, OfAppModuleBaseInfo!HasParts, NewAppModuleBaseInfo
<1>2. /\ Len(AppModuleBaseInfoFields) = 6 /\ DOMAIN AppModuleBaseInfoFields = 1 .. 6
      /\ AppModuleBaseInfoFields[1] = "name" /\ AppModuleBaseInfoFields[2] = "type"
      /\ AppModuleBaseInfoFields[3] = "identifier" /\ AppModuleBaseInfoFields[4] = "enable"
      /\ AppModuleBaseInfoFields[5] = "state" /\ AppModuleBaseInfoFields[6] = "permission"
  BY DEF AppModuleBaseInfoFields
<1>3. /\ AppModuleBaseInfoNumbers["name"] = 1 /\ AppModuleBaseInfoNumbers["type"] = 2
      /\ AppModuleBaseInfoNumbers["identifier"] = 3 /\ AppModuleBaseInfoNumbers["enable"] = 4
      /\ AppModuleBaseInfoNumbers["state"] = 5 /\ AppModuleBaseInfoNumbers["permission"] = 6
  BY DEF AppModuleBaseInfoNumbers
<1>4. /\ NewAppModuleBaseInfo["name"] = "" /\ NewAppModuleBaseInfo["type"] = 0
      /\ NewAppModuleBaseInfo["identifier"] = 0 /\ NewAppModuleBaseInfo["enable"] = FALSE
      /\ NewAppModuleBaseInfo["state"] = 0 /\ NewAppModuleBaseInfo["permission"] = 0
  BY DEF NewAppModuleBaseInfo
<1>5. OfAppModuleBaseInfo!AllWritten
  BY <1>1, <1>2 DEF OfAppModuleBaseInfo!AllWritten
<1>6. ASSUME NEW x \in OfAppModuleBaseInfo!Parts, NEW m, NEW field,
             field.number = AppModuleBaseInfoNumbers[x]
      PROVE  TakeAppModuleBaseInfo(m, field)
               = OfAppModuleBaseInfo!With(m, x, ScalarTakePart(x, m[x], field))
  <2>1. /\ AppModuleBaseInfoNumbers[x] \in DOMAIN AppModuleBaseInfoFields
        /\ AppModuleBaseInfoFields[AppModuleBaseInfoNumbers[x]] = x
    BY <1>1, <1>2, <1>3
  <2> QED
    BY <1>6, <2>1 DEF TakeAppModuleBaseInfo, TakeScalar, OfAppModuleBaseInfo!With, ScalarTakePart
<1>7. ASSUME NEW to, NEW from
      PROVE  MergeAppModuleBaseInfo(to, from)
               = [x \in OfAppModuleBaseInfo!Parts |-> AppModuleBaseInfoMergePart(x, to[x], from[x])]
  BY <1>1 DEF MergeAppModuleBaseInfo, MergeScalars, AppModuleBaseInfoMergePart,
    OfAppModuleBaseInfo!Parts
<1>8. ASSUME NEW m PROVE \E puts : OfAppModuleBaseInfo!WrittenInOrder(m, puts)
  <2> DEFINE put(x) == AppModuleBaseInfoPutPart(x, m[x])
             put2 == put("name") \o put("type")
             put3 == put2 \o put("identifier")
             put4 == put3 \o put("enable")
             put5 == put4 \o put("state")
             put6 == put5 \o put("permission")
             puts == <<put("name"), put2, put3, put4, put5, put6>>
  <2>1. SerializeAppModuleBaseInfo(m) = put6
    BY <1>3, <1>4 DEF SerializeAppModuleBaseInfo, AppModuleBaseInfoPutPart
  <2> HIDE DEF put
  <2>2. /\ puts[1] = put("name") /\ puts[2] = puts[1] \o put("type")
        /\ puts[3] = puts[2] \o put("identifier") /\ puts[4] = puts[3] \o put("enable")
        /\ puts[5] = puts[4] \o put("state") /\ puts[6] = puts[5] \o put("permission")
        /\ puts[6] = put6
    OBVIOUS
  <2> HIDE DEF puts, put6
  <2>3. ASSUME NEW i \in 2 .. 6
        PROVE  puts[i] = puts[i - 1] \o put(AppModuleBaseInfoFields[i])
    <3>1. (i = 2 /\ i - 1 = 1) \/ (i = 3 /\ i - 1 = 2) \/ (i = 4 /\ i - 1 = 3) \/
          (i = 5 /\ i - 1 = 4) \/ (i = 6 /\ i - 1 = 5)
      OBVIOUS
    <3> QED
      BY <1>2, <2>2, <3>1
  <2>4. OfAppModuleBaseInfo!WrittenInOrder(m, puts)
    BY <1>2, <2>1, <2>2, <2>3 DEF OfAppModuleBaseInfo!WrittenInOrder, put
  <2> QED
    BY <2>4
<1>9. OfAppModuleBaseInfo!ByParts
  BY <1>1, <1>5, <1>6, <1>7, <1>8 DEF OfAppModuleBaseInfo!ByParts
<1>10. NewAppModuleBaseInfo \in AppModuleBaseInfo
  BY NewTexts DEF NewAppModuleBaseInfo, AppModuleBaseInfo
<1>11. ASSUME NEW x \in OfAppModuleBaseInfo!Parts
       PROVE  OfAppModuleBaseInfo!PartSound(x, AppModuleBaseInfoTypes[x], AppModuleBaseInfoTypes[x],
                                            AppModuleBaseInfoValues[x])
  <2>1. /\ NewAppModuleBaseInfo[x] \in AppModuleBaseInfoTypes[x]
        /\ AppModuleBaseInfoValues[x] = AppModuleBaseInfoTypes[x] \ {NewAppModuleBaseInfo[x]}
    BY <1>10, AppModuleBaseInfoTyped DEF OfAppModuleBaseInfo!Typed, OfAppModuleBaseInfo!Parts,
      AppModuleBaseInfoValues
  <2>2. OfAppModuleBaseInfo!ScalarPart(x)
    BY DEF OfAppModuleBaseInfo!ScalarPart, ScalarTakePart, AppModuleBaseInfoMergePart,
      AppModuleBaseInfoPutPart, MergeScalar, PutScalar, Field
  <2> QED
    BY <1>9, <2>1, <2>2, OfAppModuleBaseInfo!ScalarSound
<1> QED
  BY <1>9, <1>11, AppModuleBaseInfoTyped, OfAppModuleBaseInfo!ByPartsSound DEF AppModuleBaseInfoWire

-----------------------------------------------------------------------------
(* AppModuleCoutInfo.                                                      *)

AppModuleCoutInfoNumbers == [id |-> 1, run_state |-> 2, base_info |-> 3]
AppModuleCoutInfoTakePart(x, old, field) ==
  IF x = "base_info" THEN OfAppModuleBaseInfo!TakePointer(old, field)
  ELSE field.value
AppModuleCoutInfoMergePart(x, to, from) ==
  IF x = "base_info" THEN OfAppModuleBaseInfo!MergePointers(to, from)
  ELSE MergeScalar(to, from, NewAppModuleCoutInfo[x])
AppModuleCoutInfoPutPart(x, value) ==
  IF x = "base_info" THEN OfAppModuleBaseInfo!PutPointer(AppModuleCoutInfoNumbers[x], value)
  ELSE PutScalar(AppModuleCoutInfoNumbers[x], value, NewAppModuleCoutInfo[x])
OfAppModuleCoutInfo ==
  INSTANCE ProtoWire_proof
  WITH New <- NewAppModuleCoutInfo, Take <- TakeAppModuleCoutInfo, Merge <- MergeAppModuleCoutInfo,
       Serialize <- SerializeAppModuleCoutInfo, Names <- AppModuleCoutInfoFields,
       Numbers <- AppModuleCoutInfoNumbers, TakePart <- AppModuleCoutInfoTakePart,
       MergePart <- AppModuleCoutInfoMergePart, PutPart <- AppModuleCoutInfoPutPart
AppModuleCoutInfoTypes ==
  [id |-> Nat, run_state |-> Nat, base_info |-> Pointer(AppModuleBaseInfo)]
AppModuleCoutInfoValues ==
  [x \in DOMAIN NewAppModuleCoutInfo |->
     IF x = "base_info" THEN Seq(AppModuleBaseInfoWire)
     ELSE AppModuleCoutInfoTypes[x] \ {NewAppModuleCoutInfo[x]}]
AppModuleCoutInfoWire == OfAppModuleCoutInfo!Wire(AppModuleCoutInfoValues)

\* Its operators are those of the general theory.
LEMMA AppModuleCoutInfoLoop ==
  ASSUME NEW m, NEW fields, NEW p, NEW q, NEW field, NEW number
  PROVE  /\ ParseAppModuleCoutInfo(m, fields) = OfAppModuleCoutInfo!Parse(m, fields)
         /\ TakeMessage(p, field, ParseAppModuleCoutInfo, NewAppModuleCoutInfo)
              = OfAppModuleCoutInfo!TakePointer(p, field)
         /\ MergeMessage(p, q, MergeAppModuleCoutInfo, NewAppModuleCoutInfo)
              = OfAppModuleCoutInfo!MergePointers(p, q)
         /\ PutMessage(number, p, SerializeAppModuleCoutInfo)
              = OfAppModuleCoutInfo!PutPointer(number, p)
<1>1. \A n, fs : ParseAppModuleCoutInfo(n, fs) = OfAppModuleCoutInfo!Parse(n, fs)
  BY DEF ParseAppModuleCoutInfo, TakeFields, OfAppModuleCoutInfo!Parse,
    OfAppModuleCoutInfo!TakeFields
<1> QED
  BY <1>1 DEF TakeMessage, MergeMessage, PutMessage, Deref, Field, OfAppModuleCoutInfo!TakePointer,
    OfAppModuleCoutInfo!TakeMessage, OfAppModuleCoutInfo!Deref, OfAppModuleCoutInfo!MergePointers,
    OfAppModuleCoutInfo!MergeMessage, OfAppModuleCoutInfo!PutPointer,
    OfAppModuleCoutInfo!PutMessage, OfAppModuleCoutInfo!Field

\* A AppModuleCoutInfo has these parts, each of its type.
LEMMA AppModuleCoutInfoTyped == OfAppModuleCoutInfo!Typed(AppModuleCoutInfo, AppModuleCoutInfoTypes)
BY DEF OfAppModuleCoutInfo!Typed, OfAppModuleCoutInfo!HasParts, OfAppModuleCoutInfo!Parts,
  AppModuleCoutInfo, AppModuleCoutInfoTypes, NewAppModuleCoutInfo

\* What is written of a AppModuleCoutInfo is read back, and reading more of it is merging.
\* (AppModuleCoutInfo::_InternalParse, MergeFrom, _InternalSerialize)
LEMMA AppModuleCoutInfoSound ==
  OfAppModuleCoutInfo!Sound(AppModuleCoutInfo, AppModuleCoutInfo, AppModuleCoutInfoWire)
<1>1. /\ OfAppModuleCoutInfo!Parts = {"id", "run_state", "base_info"}
      /\ OfAppModuleCoutInfo!HasParts(NewAppModuleCoutInfo)
  BY DEF OfAppModuleCoutInfo!Parts, OfAppModuleCoutInfo!HasParts, NewAppModuleCoutInfo
<1>2. /\ Len(AppModuleCoutInfoFields) = 3 /\ DOMAIN AppModuleCoutInfoFields = 1 .. 3
      /\ AppModuleCoutInfoFields[1] = "id" /\ AppModuleCoutInfoFields[2] = "run_state"
      /\ AppModuleCoutInfoFields[3] = "base_info"
  BY DEF AppModuleCoutInfoFields
<1>3. /\ AppModuleCoutInfoNumbers["id"] = 1 /\ AppModuleCoutInfoNumbers["run_state"] = 2
      /\ AppModuleCoutInfoNumbers["base_info"] = 3
  BY DEF AppModuleCoutInfoNumbers
<1>4. /\ NewAppModuleCoutInfo["id"] = 0 /\ NewAppModuleCoutInfo["run_state"] = 0
      /\ NewAppModuleCoutInfo["base_info"] = << >>
  BY DEF NewAppModuleCoutInfo
<1>5. OfAppModuleCoutInfo!AllWritten
  BY <1>1, <1>2 DEF OfAppModuleCoutInfo!AllWritten
<1>6. ASSUME NEW x \in OfAppModuleCoutInfo!Parts, NEW m, NEW field,
             field.number = AppModuleCoutInfoNumbers[x]
      PROVE  TakeAppModuleCoutInfo(m, field)
               = OfAppModuleCoutInfo!With(m, x, AppModuleCoutInfoTakePart(x, m[x], field))
  <2>1. CASE x = "base_info"
    <3>1. field.number = 3
      BY <1>3, <1>6, <2>1
    <3> QED
      BY <2>1, <3>1, AppModuleBaseInfoLoop DEF TakeAppModuleCoutInfo, OfAppModuleCoutInfo!With,
        AppModuleCoutInfoTakePart
  <2>2. CASE x \notin {"base_info"}
    <3>1. /\ AppModuleCoutInfoNumbers[x] \in DOMAIN AppModuleCoutInfoFields
          /\ AppModuleCoutInfoFields[AppModuleCoutInfoNumbers[x]] = x
      BY <1>1, <1>2, <1>3, <2>2
    <3>2. field.number \notin {3}
      BY <1>1, <1>3, <1>6, <2>2
    <3>3. x \notin {"base_info"}
      BY <2>2
    <3> QED
      BY <1>6, <3>1, <3>2, <3>3 DEF TakeAppModuleCoutInfo, TakeScalar, OfAppModuleCoutInfo!With,
        AppModuleCoutInfoTakePart
  <2> QED
    BY <2>1, <2>2
<1>7. ASSUME NEW to, NEW from
      PROVE  MergeAppModuleCoutInfo(to, from)
               = [x \in OfAppModuleCoutInfo!Parts |-> AppModuleCoutInfoMergePart(x, to[x], from[x])]
  BY <1>1, AppModuleBaseInfoLoop DEF MergeAppModuleCoutInfo, MergeScalars,
    AppModuleCoutInfoMergePart, OfAppModuleCoutInfo!Parts
<1>8. ASSUME NEW m PROVE \E puts : OfAppModuleCoutInfo!WrittenInOrder(m, puts)
  <2> DEFINE put(x) == AppModuleCoutInfoPutPart(x, m[x])
             put2 == put("id") \o put("run_state")
             put3 == put2 \o put("base_info")
             puts == <<put("id"), put2, put3>>
  <2>1. SerializeAppModuleCoutInfo(m) = put3
    BY <1>3, <1>4, AppModuleBaseInfoLoop DEF SerializeAppModuleCoutInfo, AppModuleCoutInfoPutPart
  <2> HIDE DEF put
  <2>2. /\ puts[1] = put("id") /\ puts[2] = puts[1] \o put("run_state")
        /\ puts[3] = puts[2] \o put("base_info") /\ puts[3] = put3
    OBVIOUS
  <2> HIDE DEF puts, put3
  <2>3. ASSUME NEW i \in 2 .. 3
        PROVE  puts[i] = puts[i - 1] \o put(AppModuleCoutInfoFields[i])
    <3>1. (i = 2 /\ i - 1 = 1) \/ (i = 3 /\ i - 1 = 2)
      OBVIOUS
    <3> QED
      BY <1>2, <2>2, <3>1
  <2>4. OfAppModuleCoutInfo!WrittenInOrder(m, puts)
    BY <1>2, <2>1, <2>2, <2>3 DEF OfAppModuleCoutInfo!WrittenInOrder, put
  <2> QED
    BY <2>4
<1>9. OfAppModuleCoutInfo!ByParts
  BY <1>1, <1>5, <1>6, <1>7, <1>8 DEF OfAppModuleCoutInfo!ByParts
<1>10. NewAppModuleCoutInfo \in AppModuleCoutInfo
  BY NewTexts, NoPointer DEF NewAppModuleCoutInfo, AppModuleCoutInfo
<1>11. ASSUME NEW x \in OfAppModuleCoutInfo!Parts
       PROVE  OfAppModuleCoutInfo!PartSound(x, AppModuleCoutInfoTypes[x], AppModuleCoutInfoTypes[x],
                                            AppModuleCoutInfoValues[x])
  <2>1. CASE x \notin {"base_info"}
    <3>1. /\ NewAppModuleCoutInfo[x] \in AppModuleCoutInfoTypes[x]
          /\ AppModuleCoutInfoValues[x] = AppModuleCoutInfoTypes[x] \ {NewAppModuleCoutInfo[x]}
      BY <2>1, <1>10, AppModuleCoutInfoTyped DEF OfAppModuleCoutInfo!Typed,
        OfAppModuleCoutInfo!Parts, AppModuleCoutInfoValues
    <3>2. OfAppModuleCoutInfo!ScalarPart(x)
      BY <2>1 DEF OfAppModuleCoutInfo!ScalarPart, AppModuleCoutInfoTakePart,
        AppModuleCoutInfoMergePart, AppModuleCoutInfoPutPart, MergeScalar, PutScalar, Field
    <3> QED
      BY <1>9, <3>1, <3>2, OfAppModuleCoutInfo!ScalarSound
  <2>2. CASE x = "base_info"
    <3>1. /\ \A p, field : AppModuleCoutInfoTakePart(x, p, field)
               = OfAppModuleBaseInfo!TakePointer(p, field)
          /\ \A p, q : AppModuleCoutInfoMergePart(x, p, q) = OfAppModuleBaseInfo!MergePointers(p, q)
          /\ \A p : AppModuleCoutInfoPutPart(x, p)
               = OfAppModuleBaseInfo!PutPointer(AppModuleCoutInfoNumbers[x], p)
          /\ NewAppModuleCoutInfo[x] = << >>
      BY <1>3, <1>4, <2>2 DEF AppModuleCoutInfoTakePart, AppModuleCoutInfoMergePart,
        AppModuleCoutInfoPutPart
    <3>2. /\ AppModuleCoutInfoTypes[x] = OfAppModuleBaseInfo!Pointer(AppModuleBaseInfo)
          /\ AppModuleCoutInfoValues[x] = Seq(AppModuleBaseInfoWire)
      BY <1>1, <2>2 DEF AppModuleCoutInfoTypes, AppModuleCoutInfoValues, OfAppModuleCoutInfo!Parts,
        Pointer, OfAppModuleBaseInfo!Pointer
    <3> QED
      BY <1>9, <3>1, <3>2, AppModuleBaseInfoSound, OfAppModuleBaseInfo!PointerSound,
         OfAppModuleCoutInfo!OneFieldSound
  <2> QED
    BY <1>1, <2>1, <2>2
<1> QED
  BY <1>9, <1>11, AppModuleCoutInfoTyped, OfAppModuleCoutInfo!ByPartsSound DEF AppModuleCoutInfoWire

-----------------------------------------------------------------------------
(* UserList.                                                               *)

UserListNames == <<"user_info">>
UserListNumbers == [user_info |-> 1]
UserListTakePart(x, old, field) == Append(old, OfUserAllInfo!Parse(NewUserAllInfo, field.value))
UserListMergePart(x, to, from) == to \o from
UserListPutPart(x, value) == PutRepeated(1, value, SerializeUserAllInfo)
OfUserList ==
  INSTANCE ProtoWire_proof
  WITH New <- NewUserList, Take <- TakeUserList, Merge <- MergeUserList,
       Serialize <- SerializeUserList, Names <- UserListNames,
       Numbers <- UserListNumbers, TakePart <- UserListTakePart,
       MergePart <- UserListMergePart, PutPart <- UserListPutPart
UserListTypes == [x \in DOMAIN NewUserList |-> Seq(UserAllInfo)]
UserListValues == [x \in DOMAIN NewUserList |-> Seq(UserAllInfoWire)]
UserListWire == OfUserList!Wire(UserListValues)

\* Its operators are those of the general theory.
LEMMA UserListLoop ==
  ASSUME NEW m, NEW fields, NEW p, NEW q, NEW field, NEW number
  PROVE  /\ ParseUserList(m, fields) = OfUserList!Parse(m, fields)
         /\ TakeMessage(p, field, ParseUserList, NewUserList) = OfUserList!TakePointer(p, field)
         /\ MergeMessage(p, q, MergeUserList, NewUserList) = OfUserList!MergePointers(p, q)
         /\ PutMessage(number, p, SerializeUserList) = OfUserList!PutPointer(number, p)
<1>1. \A n, fs : ParseUserList(n, fs) = OfUserList!Parse(n, fs)
  BY DEF ParseUserList, TakeFields, OfUserList!Parse, OfUserList!TakeFields
<1> QED
  BY <1>1 DEF TakeMessage, MergeMessage, PutMessage, Deref, Field, OfUserList!TakePointer,
    OfUserList!TakeMessage, OfUserList!Deref, OfUserList!MergePointers, OfUserList!MergeMessage,
    OfUserList!PutPointer, OfUserList!PutMessage, OfUserList!Field

\* What its field does to it.
LEMMA UserListTakes ==
  ASSUME NEW m, NEW field, field.number = 1
  PROVE  TakeUserList(m, field)
           = OfUserList!With(m, "user_info", UserListTakePart("user_info", m["user_info"], field))
BY UserAllInfoLoop DEF TakeUserList, TakeRepeated, OfUserList!With, UserListTakePart

\* A UserList has these parts, each of its type.
LEMMA UserListTyped == OfUserList!Typed(UserList, UserListTypes)
BY DEF OfUserList!Typed, OfUserList!HasParts, OfUserList!Parts,
  UserList, UserListTypes, NewUserList

\* The fields of the list, read one after the other, append one message each.
LEMMA UserListReads ==
  ASSUME OfUserList!ByParts, NEW messages \in Seq(UserAllInfo)
  PROVE  OfUserList!PartReads("user_info", messages, Seq(UserAllInfoWire))
<1> DEFINE put == PutRepeated(1, messages, SerializeUserAllInfo)
           F == [number : {1}, value : Seq(UserAllInfoWire)]
<1>1. Len(messages) \in Nat /\ DOMAIN messages = 1 .. Len(messages)
  OBVIOUS
<1>2. ASSUME NEW i \in 1 .. Len(messages)
      PROVE  /\ put[i] \in F
             /\ put[i].number = 1
             /\ OfUserAllInfo!Parse(NewUserAllInfo, put[i].value) = messages[i]
  <2>1. messages[i] \in UserAllInfo
    OBVIOUS
  <2>2. OfUserAllInfo!Reads(SerializeUserAllInfo(messages[i]), UserAllInfoWire, messages[i])
    BY <2>1, UserAllInfoSound DEF OfUserAllInfo!Sound, OfUserAllInfo!RoundTrips
  <2>3. put[i] = [number |-> 1, value |-> SerializeUserAllInfo(messages[i])]
    BY <1>1 DEF PutRepeated, Field
  <2> HIDE DEF put
  <2>4. put[i] \in F
    BY <2>2, <2>3 DEF OfUserAllInfo!Reads
  <2> QED
    BY <2>2, <2>3, <2>4 DEF OfUserAllInfo!Reads
<1>3. DOMAIN put = 1 .. Len(messages) /\ put = [i \in 1 .. Len(messages) |-> put[i]]
  BY <1>1 DEF PutRepeated
<1> HIDE DEF put
<1>4. \A i \in 1 .. Len(messages) : put[i] \in F
  BY <1>2
<1>5. put \in Seq(F) /\ Len(put) = Len(messages)
  <2> HIDE DEF F
  <2> QED
    BY <1>1, <1>3, <1>4
<1>6. ASSUME NEW m, OfUserList!HasParts(m), m["user_info"] = << >>
      PROVE  OfUserList!Parse(m, put) = OfUserList!With(m, "user_info", messages)
  <2> DEFINE sofar(i) == SubSeq(messages, 1, i)
             taken == [i \in 0 .. Len(put) |-> OfUserList!With(m, "user_info", sofar(i))]
  <2>1. DOMAIN m = {"user_info"}
    BY <1>6 DEF OfUserList!HasParts, OfUserList!Parts, NewUserList
  <2>2. sofar(0) = << >> /\ sofar(Len(messages)) = messages
    BY <1>1
  <2>3. \A i \in 1 .. Len(messages) : sofar(i) = Append(sofar(i - 1), messages[i])
    BY <1>1
  <2> HIDE DEF sofar
  <2>4. OfUserList!With(m, "user_info", << >>) = m
    BY <1>6, <2>1 DEF OfUserList!With, OfUserList!HasParts, OfUserList!Parts
  <2>5. taken[0] = m
    BY <1>1, <1>5, <2>2, <2>4
  <2>6. ASSUME NEW i \in 1 .. Len(put)
        PROVE  taken[i] = TakeUserList(taken[i - 1], put[i])
    <3>1. /\ taken[i] = OfUserList!With(m, "user_info", sofar(i))
          /\ taken[i - 1] = OfUserList!With(m, "user_info", sofar(i - 1))
      BY <1>1, <1>5
    <3> HIDE DEF taken
    <3>2. put[i].number = 1 /\ OfUserAllInfo!Parse(NewUserAllInfo, put[i].value) = messages[i]
      BY <1>2, <1>5
    <3>3. TakeUserList(taken[i - 1], put[i])
            = OfUserList!With(taken[i - 1], "user_info",
                UserListTakePart("user_info", taken[i - 1]["user_info"], put[i]))
      BY <3>2, UserListTakes
    <3>4. taken[i - 1]["user_info"] = sofar(i - 1)
      BY <2>1, <3>1 DEF OfUserList!With
    <3>5. UserListTakePart("user_info", sofar(i - 1), put[i]) = sofar(i)
      BY <1>5, <2>3, <3>2 DEF UserListTakePart
    <3>6. OfUserList!With(OfUserList!With(m, "user_info", sofar(i - 1)), "user_info", sofar(i))
            = OfUserList!With(m, "user_info", sofar(i))
      BY <2>1 DEF OfUserList!With
    <3> QED
      BY <3>1, <3>3, <3>4, <3>5, <3>6
  <2>7. taken[Len(put)] = OfUserList!With(m, "user_info", messages)
    BY <1>1, <1>5, <2>2
  <2> HIDE DEF taken
  <2>8. OfUserList!Steps(taken, m, put)
    BY <2>5, <2>6 DEF OfUserList!Steps
  <2> QED
    BY <1>5, <2>7, <2>8, OfUserList!StepsEndAtParse
<1>7. UserListPutPart("user_info", messages) = put
  BY DEF UserListPutPart, put
<1>8. NewUserList["user_info"] = << >> /\ UserListNumbers["user_info"] = 1
  BY DEF NewUserList, UserListNumbers
<1> QED
  BY <1>5, <1>6, <1>7, <1>8 DEF OfUserList!PartReads

\* What is written of a UserList is read back, and reading more of it is merging.
\* (UserList::_InternalParse, MergeFrom, _InternalSerialize)
LEMMA UserListSound == OfUserList!Sound(UserList, UserList, UserListWire)
<1>1. OfUserList!Parts = {"user_info"} /\ OfUserList!HasParts(NewUserList)
  BY DEF OfUserList!Parts, OfUserList!HasParts, NewUserList
<1>2. Len(UserListNames) = 1 /\ UserListNames[1] = "user_info"
  BY DEF UserListNames
<1>3. UserListNumbers["user_info"] = 1 /\ NewUserList["user_info"] = << >>
  BY DEF UserListNumbers, NewUserList
<1>4. OfUserList!AllWritten
  BY <1>1, <1>2 DEF OfUserList!AllWritten
<1>5. ASSUME NEW to, NEW from
      PROVE  MergeUserList(to, from)
               = [x \in OfUserList!Parts |-> UserListMergePart(x, to[x], from[x])]
  <2> DEFINE merged(x) == UserListMergePart(x, to[x], from[x])
  <2>1. MergeUserList(to, from) = [user_info |-> merged("user_info")]
    BY DEF MergeUserList, UserListMergePart
  <2> HIDE DEF merged
  <2>2. [user_info |-> merged("user_info")] = [x \in {"user_info"} |-> merged(x)]
    OBVIOUS
  <2> QED
    BY <1>1, <2>1, <2>2 DEF merged
<1>6. ASSUME NEW m PROVE OfUserList!WrittenInOrder(m, <<SerializeUserList(m)>>)
  BY <1>2 DEF OfUserList!WrittenInOrder, SerializeUserList, UserListPutPart
<1>7. OfUserList!ByParts
  BY <1>1, <1>3, <1>4, <1>5, <1>6, UserListTakes DEF OfUserList!ByParts
<1> DEFINE lists == Seq(UserAllInfo)
           values == Seq(UserAllInfoWire)
<1>8. << >> \in lists /\ \A to \in lists : to \o << >> = to
  OBVIOUS
<1>9. ASSUME NEW field, field.value \in values
      PROVE  OfUserAllInfo!Parse(NewUserAllInfo, field.value) \in UserAllInfo
  BY <1>9, UserAllInfoSound, OfUserAllInfo!ParseStays
     DEF OfUserAllInfo!Sound, OfUserAllInfo!Mergeable, OfUserAllInfo!Closed
<1>10. ASSUME NEW to \in lists, NEW from \in lists, NEW message \in UserAllInfo
       PROVE  /\ Append(from, message) \in lists
              /\ to \o Append(from, message) = Append(to \o from, message)
  OBVIOUS
<1>11. OfUserList!PartSound("user_info", lists, lists, values)
  <2> HIDE DEF lists, values
  <2>1. \A from \in lists : OfUserList!PartReads("user_info", from, values)
    BY <1>7, UserListReads DEF lists, values
  <2> QED
    BY <1>3, <1>8, <1>9, <1>10, <2>1
       DEF OfUserList!PartSound, UserListTakePart, UserListMergePart
<1>12. UserListTypes["user_info"] = lists /\ UserListValues["user_info"] = values
  BY <1>1 DEF UserListTypes, UserListValues, OfUserList!Parts
<1> QED
  BY <1>1, <1>7, <1>11, <1>12, UserListTyped, OfUserList!ByPartsSound DEF UserListWire

-----------------------------------------------------------------------------
(* AppModuleCoutInfoList.                                                  *)

AppModuleCoutInfoListNames == <<"app_modules">>
AppModuleCoutInfoListNumbers == [app_modules |-> 1]
AppModuleCoutInfoListTakePart(x, old, field) ==
  Append(old, OfAppModuleCoutInfo!Parse(NewAppModuleCoutInfo, field.value))
AppModuleCoutInfoListMergePart(x, to, from) == to \o from
AppModuleCoutInfoListPutPart(x, value) == PutRepeated(1, value, SerializeAppModuleCoutInfo)
OfAppModuleCoutInfoList ==
  INSTANCE ProtoWire_proof
  WITH New <- NewAppModuleCoutInfoList, Take <- TakeAppModuleCoutInfoList, Merge <- MergeAppModuleCoutInfoList,
       Serialize <- SerializeAppModuleCoutInfoList, Names <- AppModuleCoutInfoListNames,
       Numbers <- AppModuleCoutInfoListNumbers, TakePart <- AppModuleCoutInfoListTakePart,
       MergePart <- AppModuleCoutInfoListMergePart, PutPart <- AppModuleCoutInfoListPutPart
AppModuleCoutInfoListTypes == [x \in DOMAIN NewAppModuleCoutInfoList |-> Seq(AppModuleCoutInfo)]
AppModuleCoutInfoListValues ==
  [x \in DOMAIN NewAppModuleCoutInfoList |-> Seq(AppModuleCoutInfoWire)]
AppModuleCoutInfoListWire == OfAppModuleCoutInfoList!Wire(AppModuleCoutInfoListValues)

\* Its operators are those of the general theory.
LEMMA AppModuleCoutInfoListLoop ==
  ASSUME NEW m, NEW fields, NEW p, NEW q, NEW field, NEW number
  PROVE  /\ ParseAppModuleCoutInfoList(m, fields) = OfAppModuleCoutInfoList!Parse(m, fields)
         /\ TakeMessage(p, field, ParseAppModuleCoutInfoList, NewAppModuleCoutInfoList)
              = OfAppModuleCoutInfoList!TakePointer(p, field)
         /\ MergeMessage(p, q, MergeAppModuleCoutInfoList, NewAppModuleCoutInfoList)
              = OfAppModuleCoutInfoList!MergePointers(p, q)
         /\ PutMessage(number, p, SerializeAppModuleCoutInfoList)
              = OfAppModuleCoutInfoList!PutPointer(number, p)
<1>1. \A n, fs : ParseAppModuleCoutInfoList(n, fs) = OfAppModuleCoutInfoList!Parse(n, fs)
  BY DEF ParseAppModuleCoutInfoList, TakeFields, OfAppModuleCoutInfoList!Parse,
    OfAppModuleCoutInfoList!TakeFields
<1> QED
  BY <1>1 DEF TakeMessage, MergeMessage, PutMessage, Deref, Field,
    OfAppModuleCoutInfoList!TakePointer, OfAppModuleCoutInfoList!TakeMessage,
    OfAppModuleCoutInfoList!Deref, OfAppModuleCoutInfoList!MergePointers,
    OfAppModuleCoutInfoList!MergeMessage, OfAppModuleCoutInfoList!PutPointer,
    OfAppModuleCoutInfoList!PutMessage, OfAppModuleCoutInfoList!Field

\* What its field does to it.
LEMMA AppModuleCoutInfoListTakes ==
  ASSUME NEW m, NEW field, field.number = 1
  PROVE  TakeAppModuleCoutInfoList(m, field)
           = OfAppModuleCoutInfoList!With(m, "app_modules",
                                          AppModuleCoutInfoListTakePart("app_modules",
                                                                        m["app_modules"], field))
BY AppModuleCoutInfoLoop DEF TakeAppModuleCoutInfoList, TakeRepeated, OfAppModuleCoutInfoList!With,
     AppModuleCoutInfoListTakePart

\* A AppModuleCoutInfoList has these parts, each of its type.
LEMMA AppModuleCoutInfoListTyped ==
  OfAppModuleCoutInfoList!Typed(AppModuleCoutInfoList, AppModuleCoutInfoListTypes)
BY DEF OfAppModuleCoutInfoList!Typed, OfAppModuleCoutInfoList!HasParts,
     OfAppModuleCoutInfoList!Parts, AppModuleCoutInfoList, AppModuleCoutInfoListTypes,
     NewAppModuleCoutInfoList

\* The fields of the list, read one after the other, append one message each.
LEMMA AppModuleCoutInfoListReads ==
  ASSUME OfAppModuleCoutInfoList!ByParts, NEW messages \in Seq(AppModuleCoutInfo)
  PROVE  OfAppModuleCoutInfoList!PartReads("app_modules", messages, Seq(AppModuleCoutInfoWire))
<1> DEFINE put == PutRepeated(1, messages, SerializeAppModuleCoutInfo)
           F == [number : {1}, value : Seq(AppModuleCoutInfoWire)]
<1>1. Len(messages) \in Nat /\ DOMAIN messages = 1 .. Len(messages)
  OBVIOUS
<1>2. ASSUME NEW i \in 1 .. Len(messages)
      PROVE  /\ put[i] \in F
             /\ put[i].number = 1
             /\ OfAppModuleCoutInfo!Parse(NewAppModuleCoutInfo, put[i].value) = messages[i]
  <2>1. messages[i] \in AppModuleCoutInfo
    OBVIOUS
  <2>2. OfAppModuleCoutInfo!Reads(SerializeAppModuleCoutInfo(messages[i]), AppModuleCoutInfoWire,
                                  messages[i])
    BY <2>1, AppModuleCoutInfoSound DEF OfAppModuleCoutInfo!Sound, OfAppModuleCoutInfo!RoundTrips
  <2>3. put[i] = [number |-> 1, value |-> SerializeAppModuleCoutInfo(messages[i])]
    BY <1>1 DEF PutRepeated, Field
  <2> HIDE DEF put
  <2>4. put[i] \in F
    BY <2>2, <2>3 DEF OfAppModuleCoutInfo!Reads
  <2> QED
    BY <2>2, <2>3, <2>4 DEF OfAppModuleCoutInfo!Reads
<1>3. DOMAIN put = 1 .. Len(messages) /\ put = [i \in 1 .. Len(messages) |-> put[i]]
  BY <1>1 DEF PutRepeated
<1> HIDE DEF put
<1>4. \A i \in 1 .. Len(messages) : put[i] \in F
  BY <1>2
<1>5. put \in Seq(F) /\ Len(put) = Len(messages)
  <2> HIDE DEF F
  <2> QED
    BY <1>1, <1>3, <1>4
<1>6. ASSUME NEW m, OfAppModuleCoutInfoList!HasParts(m), m["app_modules"] = << >>
      PROVE  OfAppModuleCoutInfoList!Parse(m, put)
               = OfAppModuleCoutInfoList!With(m, "app_modules", messages)
  <2> DEFINE sofar(i) == SubSeq(messages, 1, i)
             taken == [i \in 0 .. Len(put) |-> OfAppModuleCoutInfoList!With(m, "app_modules",
                                                                            sofar(i))]
  <2>1. DOMAIN m = {"app_modules"}
    BY <1>6 DEF OfAppModuleCoutInfoList!HasParts, OfAppModuleCoutInfoList!Parts,
         NewAppModuleCoutInfoList
  <2>2. sofar(0) = << >> /\ sofar(Len(messages)) = messages
    BY <1>1
  <2>3. \A i \in 1 .. Len(messages) : sofar(i) = Append(sofar(i - 1), messages[i])
    BY <1>1
  <2> HIDE DEF sofar
  <2>4. OfAppModuleCoutInfoList!With(m, "app_modules", << >>) = m
    BY <1>6, <2>1 DEF OfAppModuleCoutInfoList!With, OfAppModuleCoutInfoList!HasParts,
         OfAppModuleCoutInfoList!Parts
  <2>5. taken[0] = m
    BY <1>1, <1>5, <2>2, <2>4
  <2>6. ASSUME NEW i \in 1 .. Len(put)
        PROVE  taken[i] = TakeAppModuleCoutInfoList(taken[i - 1], put[i])
    <3>1. /\ taken[i] = OfAppModuleCoutInfoList!With(m, "app_modules", sofar(i))
          /\ taken[i - 1] = OfAppModuleCoutInfoList!With(m, "app_modules", sofar(i - 1))
      BY <1>1, <1>5
    <3> HIDE DEF taken
    <3>2. /\ put[i].number = 1
          /\ OfAppModuleCoutInfo!Parse(NewAppModuleCoutInfo, put[i].value) = messages[i]
      BY <1>2, <1>5
    <3>3. TakeAppModuleCoutInfoList(taken[i - 1], put[i])
            = OfAppModuleCoutInfoList!With(taken[i - 1], "app_modules",
                AppModuleCoutInfoListTakePart("app_modules", taken[i - 1]["app_modules"], put[i]))
      BY <3>2, AppModuleCoutInfoListTakes
    <3>4. taken[i - 1]["app_modules"] = sofar(i - 1)
      BY <2>1, <3>1 DEF OfAppModuleCoutInfoList!With
    <3>5. AppModuleCoutInfoListTakePart("app_modules", sofar(i - 1), put[i]) = sofar(i)
      BY <1>5, <2>3, <3>2 DEF AppModuleCoutInfoListTakePart
    <3>6. OfAppModuleCoutInfoList!With(OfAppModuleCoutInfoList!With(m, "app_modules", sofar(i - 1)),
                                       "app_modules", sofar(i))
            = OfAppModuleCoutInfoList!With(m, "app_modules", sofar(i))
      BY <2>1 DEF OfAppModuleCoutInfoList!With
    <3> QED
      BY <3>1, <3>3, <3>4, <3>5, <3>6
  <2>7. taken[Len(put)] = OfAppModuleCoutInfoList!With(m, "app_modules", messages)
    BY <1>1, <1>5, <2>2
  <2> HIDE DEF taken
  <2>8. OfAppModuleCoutInfoList!Steps(taken, m, put)
    BY <2>5, <2>6 DEF OfAppModuleCoutInfoList!Steps
  <2> QED
    BY <1>5, <2>7, <2>8, OfAppModuleCoutInfoList!StepsEndAtParse
<1>7. AppModuleCoutInfoListPutPart("app_modules", messages) = put
  BY DEF AppModuleCoutInfoListPutPart, put
<1>8. /\ NewAppModuleCoutInfoList["app_modules"] = << >>
      /\ AppModuleCoutInfoListNumbers["app_modules"] = 1
  BY DEF NewAppModuleCoutInfoList, AppModuleCoutInfoListNumbers
<1> QED
  BY <1>5, <1>6, <1>7, <1>8 DEF OfAppModuleCoutInfoList!PartReads

\* What is written of a AppModuleCoutInfoList is read back, and reading more of it is merging.
\* (AppModuleCoutInfoList::_InternalParse, MergeFrom, _InternalSerialize)
LEMMA AppModuleCoutInfoListSound ==
  OfAppModuleCoutInfoList!Sound(AppModuleCoutInfoList, AppModuleCoutInfoList,
                                AppModuleCoutInfoListWire)
<1>1. /\ OfAppModuleCoutInfoList!Parts = {"app_modules"}
      /\ OfAppModuleCoutInfoList!HasParts(NewAppModuleCoutInfoList)
  BY DEF OfAppModuleCoutInfoList!Parts, OfAppModuleCoutInfoList!HasParts, NewAppModuleCoutInfoList
<1>2. Len(AppModuleCoutInfoListNames) = 1 /\ AppModuleCoutInfoListNames[1] = "app_modules"
  BY DEF AppModuleCoutInfoListNames
<1>3. /\ AppModuleCoutInfoListNumbers["app_modules"] = 1
      /\ NewAppModuleCoutInfoList["app_modules"] = << >>
  BY DEF AppModuleCoutInfoListNumbers, NewAppModuleCoutInfoList
<1>4. OfAppModuleCoutInfoList!AllWritten
  BY <1>1, <1>2 DEF OfAppModuleCoutInfoList!AllWritten
<1>5. ASSUME NEW to, NEW from
      PROVE  MergeAppModuleCoutInfoList(to, from)
               = [x \in OfAppModuleCoutInfoList!Parts |-> AppModuleCoutInfoListMergePart(x, to[x],
                                                                                         from[x])]
  <2> DEFINE merged(x) == AppModuleCoutInfoListMergePart(x, to[x], from[x])
  <2>1. MergeAppModuleCoutInfoList(to, from) = [app_modules |-> merged("app_modules")]
    BY DEF MergeAppModuleCoutInfoList, AppModuleCoutInfoListMergePart
  <2> HIDE DEF merged
  <2>2. [app_modules |-> merged("app_modules")] = [x \in {"app_modules"} |-> merged(x)]
    OBVIOUS
  <2> QED
    BY <1>1, <2>1, <2>2 DEF merged
<1>6. ASSUME NEW m
      PROVE  OfAppModuleCoutInfoList!WrittenInOrder(m, <<SerializeAppModuleCoutInfoList(m)>>)
  BY <1>2 DEF OfAppModuleCoutInfoList!WrittenInOrder, SerializeAppModuleCoutInfoList,
       AppModuleCoutInfoListPutPart
<1>7. OfAppModuleCoutInfoList!ByParts
  BY <1>1, <1>3, <1>4, <1>5, <1>6, AppModuleCoutInfoListTakes DEF OfAppModuleCoutInfoList!ByParts
<1> DEFINE lists == Seq(AppModuleCoutInfo)
           values == Seq(AppModuleCoutInfoWire)
<1>8. << >> \in lists /\ \A to \in lists : to \o << >> = to
  OBVIOUS
<1>9. ASSUME NEW field, field.value \in values
      PROVE  OfAppModuleCoutInfo!Parse(NewAppModuleCoutInfo, field.value) \in AppModuleCoutInfo
  BY <1>9, AppModuleCoutInfoSound, OfAppModuleCoutInfo!ParseStays
     DEF OfAppModuleCoutInfo!Sound, OfAppModuleCoutInfo!Mergeable, OfAppModuleCoutInfo!Closed
<1>10. ASSUME NEW to \in lists, NEW from \in lists, NEW message \in AppModuleCoutInfo
       PROVE  /\ Append(from, message) \in lists
              /\ to \o Append(from, message) = Append(to \o from, message)
  OBVIOUS
<1>11. OfAppModuleCoutInfoList!PartSound("app_modules", lists, lists, values)
  <2> HIDE DEF lists, values
  <2>1. \A from \in lists : OfAppModuleCoutInfoList!PartReads("app_modules", from, values)
    BY <1>7, AppModuleCoutInfoListReads DEF lists, values
  <2> QED
    BY <1>3, <1>8, <1>9, <1>10, <2>1 DEF OfAppModuleCoutInfoList!PartSound,
         AppModuleCoutInfoListTakePart, AppModuleCoutInfoListMergePart
<1>12. /\ AppModuleCoutInfoListTypes["app_modules"] = lists
       /\ AppModuleCoutInfoListValues["app_modules"] = values
  BY <1>1 DEF AppModuleCoutInfoListTypes, AppModuleCoutInfoListValues, OfAppModuleCoutInfoList!Parts
<1> QED
  BY <1>1, <1>7, <1>11, <1>12, AppModuleCoutInfoListTyped, OfAppModuleCoutInfoList!ByPartsSound
     DEF AppModuleCoutInfoListWire

-----------------------------------------------------------------------------
(* Content.  Of its two lists at most one is set, and taking one clears    *)
(* the other: it is not dealt with part by part, and what has been read    *)
(* can be merged only when it cannot be that the later part takes a list   *)
(* that the earlier part has and gives it up again.  K and L are the       *)
(* numbers of the lists that may occur.                                    *)

ListNumbers == {2, 3}

ContentNames == <<"magic", "app_module_list", "user_list">>
ContentNumbers == [magic |-> 1, app_module_list |-> 2, user_list |-> 3]
ContentTakePart(x, old, field) ==
  CASE x = "app_module_list" -> OfAppModuleCoutInfoList!TakePointer(old, field)
    [] x = "user_list" -> OfUserList!TakePointer(old, field)
    [] OTHER -> field.value
ContentMergePart(x, to, from) ==
  CASE x = "app_module_list" -> OfAppModuleCoutInfoList!MergePointers(to, from)
    [] x = "user_list" -> OfUserList!MergePointers(to, from)
    [] OTHER -> MergeScalar(to, from, NewContent[x])
ContentPutPart(x, value) ==
  CASE x = "app_module_list" ->
         OfAppModuleCoutInfoList!PutPointer(ContentNumbers[x], value)
    [] x = "user_list" -> OfUserList!PutPointer(ContentNumbers[x], value)
    [] OTHER -> PutScalar(ContentNumbers[x], value, NewContent[x])
OfContent ==
  INSTANCE ProtoWire_proof
  WITH New <- NewContent, Take <- TakeContent, Merge <- MergeContent,
       Serialize <- SerializeContent, Names <- ContentNames,
       Numbers <- ContentNumbers, TakePart <- ContentTakePart,
       MergePart <- ContentMergePart, PutPart <- ContentPutPart

ContentOf(K) ==
  {c \in Content :
     (c.app_module_list = << >> \/ 2 \in K) /\ (c.user_list = << >> \/ 3 \in K)}

ContentWire(K) ==
  [number : {1}, value : Nat \ {0}]
  \cup [number : {2} \cap K, value : Seq(AppModuleCoutInfoListWire)]
  \cup [number : {3} \cap K, value : Seq(UserListWire)]

\* What is read first may be merged with what is read then.
Compatible(K, L) == L \subseteq ListNumbers /\ (K = {} \/ L # ListNumbers)

\* Of these values.
Made(magic, modules, users) ==
  [magic |-> magic, app_module_list |-> modules, user_list |-> users]

\* Its operators are those of the general theory.
LEMMA ContentLoop ==
  ASSUME NEW m, NEW fields, NEW p, NEW q, NEW field, NEW number
  PROVE  /\ ParseContent(m, fields) = OfContent!Parse(m, fields)
         /\ TakeMessage(p, field, ParseContent, NewContent) = OfContent!TakePointer(p, field)
         /\ MergeMessage(p, q, MergeContent, NewContent) = OfContent!MergePointers(p, q)
         /\ PutMessage(number, p, SerializeContent) = OfContent!PutPointer(number, p)
<1>1. \A n, fs : ParseContent(n, fs) = OfContent!Parse(n, fs)
  BY DEF ParseContent, TakeFields, OfContent!Parse, OfContent!TakeFields
<1> QED
  BY <1>1 DEF TakeMessage, MergeMessage, PutMessage, Deref, Field, OfContent!TakePointer,
    OfContent!TakeMessage, OfContent!Deref, OfContent!MergePointers, OfContent!MergeMessage,
    OfContent!PutPointer, OfContent!PutMessage, OfContent!Field

\* What a content with these lists allowed is made of.  (Content)
LEMMA ContentIs ==
  ASSUME NEW K, NEW m
  PROVE  m \in ContentOf(K) <=>
           \E magic \in Nat, modules \in Pointer(AppModuleCoutInfoList), users \in Pointer(UserList) :
             /\ m = Made(magic, modules, users)
             /\ modules = << >> \/ users = << >>
             /\ modules = << >> \/ 2 \in K
             /\ users = << >> \/ 3 \in K
<1>1. ASSUME m \in ContentOf(K)
      PROVE  /\ m.magic \in Nat /\ m.app_module_list \in Pointer(AppModuleCoutInfoList)
             /\ m.user_list \in Pointer(UserList)
             /\ m = Made(m.magic, m.app_module_list, m.user_list)
             /\ m.app_module_list = << >> \/ m.user_list = << >>
             /\ m.app_module_list = << >> \/ 2 \in K
             /\ m.user_list = << >> \/ 3 \in K
  BY <1>1 DEF ContentOf, Content, Made
<1>2. ASSUME NEW magic \in Nat, NEW modules \in Pointer(AppModuleCoutInfoList),
             NEW users \in Pointer(UserList), m = Made(magic, modules, users),
             modules = << >> \/ users = << >>, modules = << >> \/ 2 \in K, users = << >> \/ 3 \in K
      PROVE  m \in ContentOf(K)
  <2>1. m.magic = magic /\ m.app_module_list = modules /\ m.user_list = users
    BY <1>2 DEF Made
  <2>2. m \in [magic : Nat, app_module_list : Pointer(AppModuleCoutInfoList),
               user_list : Pointer(UserList)]
    BY <1>2 DEF Made
  <2> QED
    BY <1>2, <2>1, <2>2 DEF ContentOf, Content
<1> QED
  BY <1>1, <1>2

\* What each field does to it: setting one list clears the other.
\* (Content::_InternalParse, clear_app_content)
LEMMA ContentTakes ==
  ASSUME NEW magic, NEW modules, NEW users, NEW field
  PROVE  /\ field.number = 1 =>
              TakeContent(Made(magic, modules, users), field) = Made(field.value, modules, users)
         /\ field.number = 2 =>
              TakeContent(Made(magic, modules, users), field)
                = Made(magic, OfAppModuleCoutInfoList!TakePointer(modules, field), << >>)
         /\ field.number = 3 =>
              TakeContent(Made(magic, modules, users), field)
                = Made(magic, << >>, OfUserList!TakePointer(users, field))
<1> DEFINE m == Made(magic, modules, users)
<1>1. m.magic = magic /\ m.app_module_list = modules /\ m.user_list = users
  BY DEF Made
<1>2. \A x : [m EXCEPT !.magic = x] = Made(x, modules, users)
  BY DEF Made
<1>3. ASSUME NEW x
      PROVE  [m EXCEPT !.user_list = << >>, !.app_module_list = x] = Made(magic, x, << >>)
  <2>1. [m EXCEPT !.user_list = << >>] = Made(magic, modules, << >>)
    BY DEF Made
  <2>2. [Made(magic, modules, << >>) EXCEPT !.app_module_list = x] = Made(magic, x, << >>)
    BY DEF Made
  <2> HIDE DEF m
  <2> QED
    BY <2>1, <2>2
<1>4. ASSUME NEW x
      PROVE  [m EXCEPT !.app_module_list = << >>, !.user_list = x] = Made(magic, << >>, x)
  <2>1. [m EXCEPT !.app_module_list = << >>] = Made(magic, << >>, users)
    BY DEF Made
  <2>2. [Made(magic, << >>, users) EXCEPT !.user_list = x] = Made(magic, << >>, x)
    BY DEF Made
  <2> HIDE DEF m
  <2> QED
    BY <2>1, <2>2
<1> HIDE DEF m
<1>5. CASE field.number = 1
  <2>1. field.number # 2 /\ field.number # 3
    BY <1>5
  <2>2. TakeContent(m, field) = [m EXCEPT !.magic = field.value]
    BY <1>5, <2>1 DEF TakeContent
  <2> QED
    BY <1>2, <2>1, <2>2 DEF m
<1>6. CASE field.number = 2
  <2>1. field.number # 1 /\ field.number # 3
    BY <1>6
  <2>2. TakeContent(m, field)
          = [m EXCEPT !.user_list = << >>, !.app_module_list =
               OfAppModuleCoutInfoList!TakePointer(m.app_module_list, field)]
    BY <1>6, <2>1, AppModuleCoutInfoListLoop DEF TakeContent
  <2> QED
    BY <1>1, <1>3, <2>1, <2>2 DEF m
<1>7. CASE field.number = 3
  <2>1. field.number # 1 /\ field.number # 2
    BY <1>7
  <2>2. TakeContent(m, field)
          = [m EXCEPT !.app_module_list = << >>,
                      !.user_list = OfUserList!TakePointer(m.user_list, field)]
    BY <1>7, <2>1, UserListLoop DEF TakeContent
  <2> QED
    BY <1>1, <1>4, <2>1, <2>2 DEF m
<1> QED
  BY <1>5, <1>6, <1>7

\* What merging does to it: the list of from replaces the other one of to.
\* (Content::MergeFrom)
LEMMA ContentMerges ==
  ASSUME NEW magic, NEW modules, NEW users, NEW magic2, NEW modules2, NEW users2
  PROVE  MergeContent(Made(magic, modules, users), Made(magic2, modules2, users2))
           = Made(MergeScalar(magic, magic2, 0),
                  IF users2 = << >>
                  THEN OfAppModuleCoutInfoList!MergePointers(modules, modules2) ELSE << >>,
                  IF modules2 = << >> THEN OfUserList!MergePointers(users, users2) ELSE << >>)
<1> DEFINE to == Made(magic, modules, users)
           from == Made(magic2, modules2, users2)
<1>1. /\ to.magic = magic /\ to.app_module_list = modules /\ to.user_list = users
      /\ from.magic = magic2 /\ from.app_module_list = modules2 /\ from.user_list = users2
  BY DEF Made
<1> HIDE DEF to, from
<1>2. MergeContent(to, from)
        = Made(MergeScalar(to.magic, from.magic, 0),
               IF from.user_list = << >>
               THEN OfAppModuleCoutInfoList!MergePointers(to.app_module_list, from.app_module_list)
               ELSE << >>,
               IF from.app_module_list = << >>
               THEN OfUserList!MergePointers(to.user_list, from.user_list) ELSE << >>)
  BY AppModuleCoutInfoListLoop, UserListLoop DEF MergeContent, Made
<1> QED
  BY <1>1, <1>2 DEF to, from

\* The pointers to the two lists.
LEMMA ModulesPointer ==
  /\ << >> \in Pointer(AppModuleCoutInfoList)
  /\ \A to \in Pointer(AppModuleCoutInfoList) :
       OfAppModuleCoutInfoList!MergePointers(to, << >>) = to
  /\ \A from \in Pointer(AppModuleCoutInfoList) : \A field :
       field.value \in Seq(AppModuleCoutInfoListWire) =>
         OfAppModuleCoutInfoList!TakePointer(from, field) \in Pointer(AppModuleCoutInfoList)
  /\ \A to, from \in Pointer(AppModuleCoutInfoList) : \A field :
       field.value \in Seq(AppModuleCoutInfoListWire) =>
         OfAppModuleCoutInfoList!MergePointers(to, OfAppModuleCoutInfoList!TakePointer(from, field))
           = OfAppModuleCoutInfoList!TakePointer(
               OfAppModuleCoutInfoList!MergePointers(to, from), field)
  /\ \A from, field : OfAppModuleCoutInfoList!TakePointer(from, field) # << >>
<1>1. Pointer(AppModuleCoutInfoList) = OfAppModuleCoutInfoList!Pointer(AppModuleCoutInfoList)
  BY DEF Pointer, OfAppModuleCoutInfoList!Pointer
<1>2. \A from, field : OfAppModuleCoutInfoList!TakePointer(from, field) # << >>
  BY DEF OfAppModuleCoutInfoList!TakePointer, OfAppModuleCoutInfoList!TakeMessage
<1> QED
  BY <1>1, <1>2, AppModuleCoutInfoListSound, OfAppModuleCoutInfoList!PointerSound

\* What is needed of the pointer to the list of users.
LEMMA UsersPointer ==
  /\ << >> \in Pointer(UserList)
  /\ \A to \in Pointer(UserList) : OfUserList!MergePointers(to, << >>) = to
  /\ \A from \in Pointer(UserList) : \A field :
       field.value \in Seq(UserListWire) =>
         OfUserList!TakePointer(from, field) \in Pointer(UserList)
  /\ \A to, from \in Pointer(UserList) : \A field :
       field.value \in Seq(UserListWire) =>
         OfUserList!MergePointers(to, OfUserList!TakePointer(from, field))
           = OfUserList!TakePointer(OfUserList!MergePointers(to, from), field)
  /\ \A from, field : OfUserList!TakePointer(from, field) # << >>
<1>1. Pointer(UserList) = OfUserList!Pointer(UserList)
  BY DEF Pointer, OfUserList!Pointer
<1>2. \A from, field : OfUserList!TakePointer(from, field) # << >>
  BY DEF OfUserList!TakePointer, OfUserList!TakeMessage
<1> QED
  BY <1>1, <1>2, UserListSound, OfUserList!PointerSound

\* What its fields look like.
LEMMA ContentField ==
  ASSUME NEW K, NEW field \in ContentWire(K)
  PROVE  \/ field.number = 1 /\ field.value \in Nat /\ field.value # 0
         \/ field.number = 2 /\ 2 \in K /\ field.value \in Seq(AppModuleCoutInfoListWire)
         \/ field.number = 3 /\ 3 \in K /\ field.value \in Seq(UserListWire)
BY DEF ContentWire

\* The cleared content.
LEMMA ContentNew == NewContent = Made(0, << >>, << >>)
BY DEF NewContent, Made

\* Its fields lead out of no set of lists that they belong to.
\* (Content::_InternalParse)
LEMMA ContentClosed ==
  ASSUME NEW K
  PROVE  OfContent!Closed(ContentOf(K), ContentWire(K))
<1>1. NewContent \in ContentOf(K)
  BY ContentNew, ContentIs, ModulesPointer, UsersPointer
<1>2. ASSUME NEW m \in ContentOf(K), NEW field \in ContentWire(K)
      PROVE  TakeContent(m, field) \in ContentOf(K)
  <2>1. PICK magic \in Nat, modules \in Pointer(AppModuleCoutInfoList), users \in Pointer(UserList) :
          /\ m = Made(magic, modules, users)
          /\ modules = << >> \/ users = << >>
          /\ modules = << >> \/ 2 \in K
          /\ users = << >> \/ 3 \in K
    BY ContentIs
  <2>2. CASE field.number = 1 /\ field.value \in Nat
    BY <2>1, <2>2, ContentIs, ContentTakes
  <2>3. CASE field.number = 2 /\ 2 \in K /\ field.value \in Seq(AppModuleCoutInfoListWire)
    <3>1. OfAppModuleCoutInfoList!TakePointer(modules, field) \in Pointer(AppModuleCoutInfoList)
      BY <2>3, ModulesPointer
    <3>2. TakeContent(m, field)
            = Made(magic, OfAppModuleCoutInfoList!TakePointer(modules, field), << >>)
      BY <2>1, <2>3, ContentTakes
    <3> QED
      BY <2>3, <3>1, <3>2, ContentIs, UsersPointer
  <2>4. CASE field.number = 3 /\ 3 \in K /\ field.value \in Seq(UserListWire)
    <3>1. OfUserList!TakePointer(users, field) \in Pointer(UserList)
      BY <2>4, UsersPointer
    <3>2. TakeContent(m, field) = Made(magic, << >>, OfUserList!TakePointer(users, field))
      BY <2>1, <2>4, ContentTakes
    <3> QED
      BY <2>4, <3>1, <3>2, ContentIs, ModulesPointer
  <2> QED
    BY <2>2, <2>3, <2>4, ContentField
<1> QED
  BY <1>1, <1>2 DEF OfContent!Closed

\* Merging and taking a field can be exchanged, but where a list is taken
\* away and set again: that is what Compatible leaves out.  (Content::MergeFrom)
LEMMA ContentMergeable ==
  ASSUME NEW K, NEW L, Compatible(K, L)
  PROVE  OfContent!Mergeable(ContentOf(K), ContentOf(L), ContentWire(L))
<1>1. NewContent \in ContentOf(K)
  BY ContentClosed DEF OfContent!Closed
<1>2. ASSUME NEW m \in ContentOf(K) PROVE MergeContent(m, NewContent) = m
  <2>1. PICK magic \in Nat, modules \in Pointer(AppModuleCoutInfoList), users \in Pointer(UserList) :
          m = Made(magic, modules, users)
    BY ContentIs
  <2>2. MergeScalar(magic, 0, 0) = magic
    BY DEF MergeScalar
  <2> QED
    BY <2>1, <2>2, ContentNew, ContentMerges, ModulesPointer, UsersPointer
<1>3. ASSUME NEW to \in ContentOf(K), NEW from \in ContentOf(L), NEW field \in ContentWire(L)
      PROVE  MergeContent(to, TakeContent(from, field)) = TakeContent(MergeContent(to, from), field)
  <2>1. PICK magic \in Nat, modules \in Pointer(AppModuleCoutInfoList), users \in Pointer(UserList) :
          /\ to = Made(magic, modules, users)
          /\ modules = << >> \/ users = << >>
          /\ modules = << >> \/ 2 \in K
          /\ users = << >> \/ 3 \in K
    BY ContentIs
  <2>2. PICK magic2 \in Nat, modules2 \in Pointer(AppModuleCoutInfoList), users2 \in Pointer(UserList) :
          /\ from = Made(magic2, modules2, users2)
          /\ modules2 = << >> \/ users2 = << >>
          /\ modules2 = << >> \/ 2 \in L
          /\ users2 = << >> \/ 3 \in L
    BY ContentIs
  <2> DEFINE merged == IF users2 = << >>
                       THEN OfAppModuleCoutInfoList!MergePointers(modules, modules2) ELSE << >>
             merged2 == IF modules2 = << >>
                        THEN OfUserList!MergePointers(users, users2) ELSE << >>
  <2>3. MergeContent(to, from) = Made(MergeScalar(magic, magic2, 0), merged, merged2)
    BY <2>1, <2>2, ContentMerges
  <2>4. CASE field.number = 1 /\ field.value \in Nat /\ field.value # 0
    <3>1. TakeContent(from, field) = Made(field.value, modules2, users2)
      BY <2>2, <2>4, ContentTakes
    <3>2. MergeContent(to, TakeContent(from, field))
            = Made(MergeScalar(magic, field.value, 0), merged, merged2)
      BY <2>1, <3>1, ContentMerges
    <3>3. MergeScalar(magic, field.value, 0) = field.value
      BY <2>4 DEF MergeScalar
    <3> HIDE DEF merged, merged2
    <3>4. TakeContent(MergeContent(to, from), field) = Made(field.value, merged, merged2)
      BY <2>3, <2>4, ContentTakes
    <3> QED
      BY <3>2, <3>3, <3>4
  <2>5. CASE field.number = 2 /\ 2 \in L /\ field.value \in Seq(AppModuleCoutInfoListWire)
    <3> DEFINE taken == OfAppModuleCoutInfoList!TakePointer(modules2, field)
    <3>1. TakeContent(from, field) = Made(magic2, taken, << >>)
      BY <2>2, <2>5, ContentTakes
    <3>2. taken # << >>
      BY ModulesPointer
    <3>3. MergeContent(to, TakeContent(from, field))
            = Made(MergeScalar(magic, magic2, 0),
                   OfAppModuleCoutInfoList!MergePointers(modules, taken), << >>)
      <4> HIDE DEF taken
      <4> QED
        BY <2>1, <3>1, <3>2, ContentMerges
    <3>4. TakeContent(MergeContent(to, from), field)
            = Made(MergeScalar(magic, magic2, 0),
                   OfAppModuleCoutInfoList!TakePointer(merged, field), << >>)
      <4> HIDE DEF merged, merged2
      <4> QED
        BY <2>3, <2>5, ContentTakes
    <3>5. OfAppModuleCoutInfoList!MergePointers(modules, taken)
            = OfAppModuleCoutInfoList!TakePointer(
                OfAppModuleCoutInfoList!MergePointers(modules, modules2), field)
      BY <2>5, ModulesPointer
    <3>6. CASE users2 = << >>
      BY <3>3, <3>4, <3>5, <3>6
    <3>7. CASE users2 # << >>
      <4>1. K = {}
        BY <2>2, <2>5, <3>7 DEF Compatible, ListNumbers
      <4>2. modules = << >> /\ modules2 = << >> /\ merged = << >>
        BY <2>1, <2>2, <3>7, <4>1
      <4>3. OfAppModuleCoutInfoList!MergePointers(<< >>, << >>) = << >>
        BY ModulesPointer
      <4> HIDE DEF merged, taken
      <4> QED
        BY <3>3, <3>4, <3>5, <4>2, <4>3
    <3> QED
      BY <3>6, <3>7
  <2>6. CASE field.number = 3 /\ 3 \in L /\ field.value \in Seq(UserListWire)
    <3> DEFINE taken == OfUserList!TakePointer(users2, field)
    <3>1. TakeContent(from, field) = Made(magic2, << >>, taken)
      BY <2>2, <2>6, ContentTakes
    <3>2. taken # << >>
      BY UsersPointer
    <3>3. MergeContent(to, TakeContent(from, field))
            = Made(MergeScalar(magic, magic2, 0), << >>, OfUserList!MergePointers(users, taken))
      <4> HIDE DEF taken
      <4> QED
        BY <2>1, <3>1, <3>2, ContentMerges
    <3>4. TakeContent(MergeContent(to, from), field)
            = Made(MergeScalar(magic, magic2, 0), << >>, OfUserList!TakePointer(merged2, field))
      <4> HIDE DEF merged, merged2
      <4> QED
        BY <2>3, <2>6, ContentTakes
    <3>5. OfUserList!MergePointers(users, taken)
            = OfUserList!TakePointer(OfUserList!MergePointers(users, users2), field)
      BY <2>6, UsersPointer
    <3>6. CASE modules2 = << >>
      BY <3>3, <3>4, <3>5, <3>6
    <3>7. CASE modules2 # << >>
      <4>1. K = {}
        BY <2>2, <2>6, <3>7 DEF Compatible, ListNumbers
      <4>2. users = << >> /\ users2 = << >> /\ merged2 = << >>
        BY <2>1, <2>2, <3>7, <4>1
      <4>3. OfUserList!MergePointers(<< >>, << >>) = << >>
        BY UsersPointer
      <4> HIDE DEF merged2, taken
      <4> QED
        BY <3>3, <3>4, <3>5, <4>2, <4>3
    <3> QED
      BY <3>6, <3>7
  <2> QED
    BY <2>4, <2>5, <2>6, ContentField
<1>4. OfContent!Closed(ContentOf(L), ContentWire(L))
  BY ContentClosed
<1> QED
  BY <1>1, <1>2, <1>3, <1>4 DEF OfContent!Mergeable

\* A content reads back as it was written.  (Content::_InternalSerialize)
LEMMA ContentRoundTrips ==
  ASSUME NEW K
  PROVE  OfContent!RoundTrips(ContentOf(K), ContentWire(K))
<1> SUFFICES ASSUME NEW m \in ContentOf(K)
             PROVE  OfContent!Reads(SerializeContent(m), ContentWire(K), m)
  BY DEF OfContent!RoundTrips
<1> DEFINE F == ContentWire(K)
<1>1. PICK magic \in Nat, modules \in Pointer(AppModuleCoutInfoList), users \in Pointer(UserList) :
        /\ m = Made(magic, modules, users)
        /\ modules = << >> \/ users = << >>
        /\ modules = << >> \/ 2 \in K
        /\ users = << >> \/ 3 \in K
  BY ContentIs
<1> DEFINE put1 == PutScalar(1, magic, 0)
           put2 == OfAppModuleCoutInfoList!PutPointer(2, modules)
           put3 == OfUserList!PutPointer(3, users)
<1>2. SerializeContent(m) = put1 \o put2 \o put3
  <2>1. m.magic = magic /\ m.app_module_list = modules /\ m.user_list = users
    BY <1>1 DEF Made
  <2> QED
    BY <2>1, AppModuleCoutInfoListLoop, UserListLoop DEF SerializeContent
<1>3. put1 \in Seq(F) /\ OfContent!Parse(NewContent, put1) = Made(magic, << >>, << >>)
  <2>1. CASE magic = 0
    <3>1. put1 = << >>
      BY <2>1 DEF PutScalar
    <3> HIDE DEF F, put1
    <3> QED
      BY <2>1, <3>1, OfContent!ParseNothing, ContentNew
  <2>2. CASE magic # 0
    <3> DEFINE field == [number |-> 1, value |-> magic]
    <3>1. put1 = <<field>> /\ field \in F /\ field.number = 1 /\ field.value = magic
      BY <2>2 DEF PutScalar, Field, ContentWire
    <3> HIDE DEF F, field, put1
    <3> QED
      BY <3>1, OfContent!ParseOne, ContentNew, ContentTakes
  <2> QED
    BY <2>1, <2>2
<1>4. /\ put2 \in Seq(F)
      /\ OfContent!Parse(Made(magic, << >>, << >>), put2) = Made(magic, modules, << >>)
  <2>1. CASE modules = << >>
    <3>1. put2 = << >>
      BY <2>1 DEF OfAppModuleCoutInfoList!PutPointer, OfAppModuleCoutInfoList!PutMessage
    <3> HIDE DEF F, put2
    <3> QED
      BY <2>1, <3>1, OfContent!ParseNothing
  <2>2. CASE modules # << >>
    <3>1. modules \in OfAppModuleCoutInfoList!Pointer(AppModuleCoutInfoList) \ {<< >>}
      BY <2>2 DEF Pointer, OfAppModuleCoutInfoList!Pointer
    <3>2. PICK field \in [number : {2}, value : Seq(AppModuleCoutInfoListWire)] :
            put2 = <<field>> /\ OfAppModuleCoutInfoList!TakePointer(<< >>, field) = modules
      BY <3>1, AppModuleCoutInfoListSound, OfAppModuleCoutInfoList!PointerReads
    <3>3. field \in F /\ field.number = 2
      BY <1>1, <2>2 DEF ContentWire
    <3> HIDE DEF F, put2
    <3> QED
      BY <3>2, <3>3, OfContent!ParseOne, ContentTakes
  <2> QED
    BY <2>1, <2>2
<1>5. /\ put3 \in Seq(F)
      /\ OfContent!Parse(Made(magic, modules, << >>), put3) = Made(magic, modules, users)
  <2>1. CASE users = << >>
    <3>1. put3 = << >>
      BY <2>1 DEF OfUserList!PutPointer, OfUserList!PutMessage
    <3> HIDE DEF F, put3
    <3> QED
      BY <2>1, <3>1, OfContent!ParseNothing
  <2>2. CASE users # << >>
    <3>1. users \in OfUserList!Pointer(UserList) \ {<< >>}
      BY <2>2 DEF Pointer, OfUserList!Pointer
    <3>2. PICK field \in [number : {3}, value : Seq(UserListWire)] :
            put3 = <<field>> /\ OfUserList!TakePointer(<< >>, field) = users
      BY <3>1, UserListSound, OfUserList!PointerReads
    <3>3. field \in F /\ field.number = 3 /\ modules = << >>
      BY <1>1, <2>2 DEF ContentWire
    <3> HIDE DEF F, put3
    <3> QED
      BY <3>2, <3>3, OfContent!ParseOne, ContentTakes
  <2> QED
    BY <2>1, <2>2
<1> HIDE DEF F, put1, put2, put3
<1> DEFINE puts == put1 \o put2
<1>6. puts \in Seq(F) /\ OfContent!Parse(NewContent, puts) = Made(magic, modules, << >>)
  BY <1>3, <1>4, OfContent!ParseParts
<1> HIDE DEF puts
<1>7. /\ puts \o put3 \in Seq(F)
      /\ OfContent!Parse(NewContent, puts \o put3) = Made(magic, modules, users)
  BY <1>5, <1>6, OfContent!ParseParts
<1> QED
  BY <1>1, <1>2, <1>7 DEF OfContent!Reads, F, puts

\* What is written of a Content is read back, and reading more of it is merging.
\* (Content::_InternalParse, MergeFrom, _InternalSerialize)
LEMMA ContentSound ==
  ASSUME NEW K, NEW L, Compatible(K, L)
  PROVE  OfContent!Sound(ContentOf(K), ContentOf(L), ContentWire(L))
BY ContentMergeable, ContentRoundTrips DEF OfContent!Sound

-----------------------------------------------------------------------------
(* Body.                                                                   *)

BodyNames == <<"user_session", "url", "method", "content">>
BodyNumbers == [user_session |-> 1, url |-> 2, method |-> 3, content |-> 5]
BodyTakePart(x, old, field) ==
  CASE x = "user_session" -> OfUserSessionMsg!TakePointer(old, field)
    [] x = "content" -> OfContent!TakePointer(old, field)
    [] OTHER -> field.value
BodyMergePart(x, to, from) ==
  CASE x = "user_session" -> OfUserSessionMsg!MergePointers(to, from)
    [] x = "content" -> OfContent!MergePointers(to, from)
    [] OTHER -> MergeScalar(to, from, NewBody[x])
BodyPutPart(x, value) ==
  CASE x = "user_session" -> OfUserSessionMsg!PutPointer(BodyNumbers[x], value)
    [] x = "content" -> OfContent!PutPointer(BodyNumbers[x], value)
    [] OTHER -> PutScalar(BodyNumbers[x], value, NewBody[x])
OfBody ==
  INSTANCE ProtoWire_proof
  WITH New <- NewBody, Take <- TakeBody, Merge <- MergeBody, Serialize <- SerializeBody,
       Names <- BodyNames, Numbers <- BodyNumbers, TakePart <- BodyTakePart,
       MergePart <- BodyMergePart, PutPart <- BodyPutPart
BodyOf(K) ==
  [user_session : Pointer(UserSessionMsg), url : STRING, method : Nat,
     content : Pointer(ContentOf(K))]
BodyTypes(K) ==
  [user_session |-> Pointer(UserSessionMsg), url |-> STRING, method |-> Nat,
   content |-> Pointer(ContentOf(K))]
BodyValues(K) ==
  [x \in DOMAIN NewBody |->
     CASE x = "user_session" -> Seq(UserSessionMsgWire)
       [] x = "content" -> Seq(ContentWire(K))
       [] OTHER -> BodyTypes(K)[x] \ {NewBody[x]}]
BodyWire(K) == OfBody!Wire(BodyValues(K))

\* Its operators are those of the general theory.
LEMMA BodyLoop ==
  ASSUME NEW m, NEW fields, NEW p, NEW q, NEW field, NEW number
  PROVE  /\ ParseBody(m, fields) = OfBody!Parse(m, fields)
         /\ TakeMessage(p, field, ParseBody, NewBody) = OfBody!TakePointer(p, field)
         /\ MergeMessage(p, q, MergeBody, NewBody) = OfBody!MergePointers(p, q)
         /\ PutMessage(number, p, SerializeBody) = OfBody!PutPointer(number, p)
<1>1. \A n, fs : ParseBody(n, fs) = OfBody!Parse(n, fs)
  BY DEF ParseBody, TakeFields, OfBody!Parse, OfBody!TakeFields
<1> QED
  BY <1>1 DEF TakeMessage, MergeMessage, PutMessage, Deref, Field, OfBody!TakePointer,
    OfBody!TakeMessage, OfBody!Deref, OfBody!MergePointers, OfBody!MergeMessage, OfBody!PutPointer,
    OfBody!PutMessage, OfBody!Field

\* A Body has these parts, each of its type.
LEMMA BodyTyped == \A K : OfBody!Typed(BodyOf(K), BodyTypes(K))
BY DEF OfBody!Typed, OfBody!HasParts, OfBody!Parts, BodyOf, BodyTypes, NewBody

\* What is written of a Body is read back, and reading more of it is merging.
\* (Body::_InternalParse, MergeFrom, _InternalSerialize)
LEMMA BodySound ==
  ASSUME NEW K, NEW L, Compatible(K, L)
  PROVE  OfBody!Sound(BodyOf(K), BodyOf(L), BodyWire(L))
<1>1. OfBody!Parts = {"user_session", "url", "method", "content"} /\ OfBody!HasParts(NewBody)
  BY DEF OfBody!Parts, OfBody!HasParts, NewBody
<1>2. /\ Len(BodyNames) = 4 /\ DOMAIN BodyNames = 1 .. 4 /\ BodyNames[1] = "user_session"
      /\ BodyNames[2] = "url" /\ BodyNames[3] = "method" /\ BodyNames[4] = "content"
  BY DEF BodyNames
<1>3. /\ BodyNumbers["user_session"] = 1 /\ BodyNumbers["url"] = 2 /\ BodyNumbers["method"] = 3
      /\ BodyNumbers["content"] = 5
  BY DEF BodyNumbers
<1>4. /\ NewBody["user_session"] = << >> /\ NewBody["url"] = "" /\ NewBody["method"] = 0
      /\ NewBody["content"] = << >>
  BY DEF NewBody
<1>5. OfBody!AllWritten
  BY <1>1, <1>2 DEF OfBody!AllWritten
<1>6. ASSUME NEW x \in OfBody!Parts, NEW m, NEW field, field.number = BodyNumbers[x]
      PROVE  TakeBody(m, field) = OfBody!With(m, x, BodyTakePart(x, m[x], field))
  <2>1. CASE x = "user_session"
    <3>1. /\ field.number = 1 /\ field.number # 2 /\ field.number # 3 /\ field.number # 5
      BY <1>3, <1>6, <2>1
    <3> QED
      BY <2>1, <3>1, UserSessionMsgLoop DEF TakeBody, OfBody!With, BodyTakePart
  <2>2. CASE x = "url"
    <3>1. /\ field.number = 2 /\ field.number # 1 /\ field.number # 3 /\ field.number # 5
      BY <1>3, <1>6, <2>2
    <3> QED
      BY <2>2, <3>1 DEF TakeBody, OfBody!With, BodyTakePart
  <2>3. CASE x = "method"
    <3>1. /\ field.number = 3 /\ field.number # 1 /\ field.number # 2 /\ field.number # 5
      BY <1>3, <1>6, <2>3
    <3> QED
      BY <2>3, <3>1 DEF TakeBody, OfBody!With, BodyTakePart
  <2>4. CASE x = "content"
    <3>1. /\ field.number = 5 /\ field.number # 1 /\ field.number # 2 /\ field.number # 3
      BY <1>3, <1>6, <2>4
    <3> QED
      BY <2>4, <3>1, ContentLoop DEF TakeBody, OfBody!With, BodyTakePart
  <2> QED
    BY <1>1, <2>1, <2>2, <2>3, <2>4
<1>7. ASSUME NEW to, NEW from
      PROVE  MergeBody(to, from) = [x \in OfBody!Parts |-> BodyMergePart(x, to[x], from[x])]
  BY <1>1, ContentLoop, UserSessionMsgLoop DEF MergeBody, MergeScalars, BodyMergePart, OfBody!Parts
<1>8. ASSUME NEW m PROVE \E puts : OfBody!WrittenInOrder(m, puts)
  <2> DEFINE put(x) == BodyPutPart(x, m[x])
             put2 == put("user_session") \o put("url")
             put3 == put2 \o put("method")
             put4 == put3 \o put("content")
             puts == <<put("user_session"), put2, put3, put4>>
  <2>1. SerializeBody(m) = put4
    BY <1>3, <1>4, ContentLoop, UserSessionMsgLoop DEF SerializeBody, BodyPutPart
  <2> HIDE DEF put
  <2>2. /\ puts[1] = put("user_session") /\ puts[2] = puts[1] \o put("url")
        /\ puts[3] = puts[2] \o put("method") /\ puts[4] = puts[3] \o put("content")
        /\ puts[4] = put4
    OBVIOUS
  <2> HIDE DEF puts, put4
  <2>3. ASSUME NEW i \in 2 .. 4
        PROVE  puts[i] = puts[i - 1] \o put(BodyNames[i])
    <3>1. (i = 2 /\ i - 1 = 1) \/ (i = 3 /\ i - 1 = 2) \/ (i = 4 /\ i - 1 = 3)
      OBVIOUS
    <3> QED
      BY <1>2, <2>2, <3>1
  <2>4. OfBody!WrittenInOrder(m, puts)
    BY <1>2, <2>1, <2>2, <2>3 DEF OfBody!WrittenInOrder, put
  <2> QED
    BY <2>4
<1>9. OfBody!ByParts
  BY <1>1, <1>5, <1>6, <1>7, <1>8 DEF OfBody!ByParts
<1>10. NewBody \in BodyOf(K) /\ NewBody \in BodyOf(L)
  BY NewTexts, NoPointer DEF NewBody, BodyOf
<1>11. ASSUME NEW x \in OfBody!Parts
       PROVE  OfBody!PartSound(x, BodyTypes(K)[x], BodyTypes(L)[x], BodyValues(L)[x])
  <2>1. CASE x \notin {"user_session", "content"}
    <3>1. /\ NewBody[x] \in BodyTypes(L)[x] /\ BodyTypes(K)[x] = BodyTypes(L)[x]
           /\ BodyValues(L)[x] = BodyTypes(L)[x] \ {NewBody[x]}
      <4>1. NewBody[x] \in BodyTypes(L)[x]
        BY <1>10, BodyTyped DEF OfBody!Typed, OfBody!Parts
      <4>2. x = "url" \/ x = "method"
        BY <1>1, <2>1
      <4>3. BodyTypes(K)[x] = BodyTypes(L)[x]
        BY <4>2 DEF BodyTypes
      <4>4. BodyValues(L)[x] = BodyTypes(L)[x] \ {NewBody[x]}
        BY <4>2 DEF BodyValues, OfBody!Parts
      <4> QED
        BY <4>1, <4>3, <4>4
    <3>2. OfBody!ScalarPart(x)
      BY <2>1 DEF OfBody!ScalarPart, BodyTakePart, BodyMergePart, BodyPutPart, MergeScalar,
        PutScalar, Field
    <3> QED
      BY <1>9, <3>1, <3>2, OfBody!ScalarSound
  <2>2. CASE x = "user_session"
    <3>1. /\ \A p, field : BodyTakePart(x, p, field) = OfUserSessionMsg!TakePointer(p, field)
          /\ \A p, q : BodyMergePart(x, p, q) = OfUserSessionMsg!MergePointers(p, q)
          /\ \A p : BodyPutPart(x, p) = OfUserSessionMsg!PutPointer(BodyNumbers[x], p)
          /\ NewBody[x] = << >>
      BY <1>3, <1>4, <2>2 DEF BodyTakePart, BodyMergePart, BodyPutPart
    <3>2. /\ BodyTypes(K)[x] = OfUserSessionMsg!Pointer(UserSessionMsg)
          /\ BodyTypes(L)[x] = OfUserSessionMsg!Pointer(UserSessionMsg)
          /\ BodyValues(L)[x] = Seq(UserSessionMsgWire)
      BY <1>1, <2>2 DEF BodyTypes, BodyValues, OfBody!Parts, Pointer, OfUserSessionMsg!Pointer
    <3> QED
      BY <1>9, <3>1, <3>2, UserSessionMsgSound, OfUserSessionMsg!PointerSound, OfBody!OneFieldSound
  <2>3. CASE x = "content"
    <3>1. /\ \A p, field : BodyTakePart(x, p, field) = OfContent!TakePointer(p, field)
          /\ \A p, q : BodyMergePart(x, p, q) = OfContent!MergePointers(p, q)
          /\ \A p : BodyPutPart(x, p) = OfContent!PutPointer(BodyNumbers[x], p)
          /\ NewBody[x] = << >>
      BY <1>3, <1>4, <2>3 DEF BodyTakePart, BodyMergePart, BodyPutPart
    <3>2. /\ BodyTypes(K)[x] = OfContent!Pointer(ContentOf(K))
          /\ BodyTypes(L)[x] = OfContent!Pointer(ContentOf(L))
          /\ BodyValues(L)[x] = Seq(ContentWire(L))
      BY <1>1, <2>3 DEF BodyTypes, BodyValues, OfBody!Parts, Pointer, OfContent!Pointer
    <3> QED
      BY <1>9, <3>1, <3>2, ContentSound, OfContent!PointerSound, OfBody!OneFieldSound
  <2> QED
    BY <1>1, <2>1, <2>2, <2>3
<1> QED
  BY <1>9, <1>11, BodyTyped, OfBody!ByPartsSound DEF BodyWire

-----------------------------------------------------------------------------
(* Sdk.                                                                    *)

SdkNames == <<"header", "body", "footer">>
SdkNumbers == [header |-> 1, body |-> 2, footer |-> 3]
SdkTakePart(x, old, field) ==
  CASE x = "header" -> OfHeader!TakePointer(old, field)
    [] x = "body" -> OfBody!TakePointer(old, field)
    [] OTHER -> OfFooter!TakePointer(old, field)
SdkMergePart(x, to, from) ==
  CASE x = "header" -> OfHeader!MergePointers(to, from)
    [] x = "body" -> OfBody!MergePointers(to, from)
    [] OTHER -> OfFooter!MergePointers(to, from)
SdkPutPart(x, value) ==
  CASE x = "header" -> OfHeader!PutPointer(SdkNumbers[x], value)
    [] x = "body" -> OfBody!PutPointer(SdkNumbers[x], value)
    [] OTHER -> OfFooter!PutPointer(SdkNumbers[x], value)
OfSdk ==
  INSTANCE ProtoWire_proof
  WITH New <- NewSdk, Take <- TakeSdk, Merge <- MergeSdk, Serialize <- SerializeSdk,
       Names <- SdkNames, Numbers <- SdkNumbers, TakePart <- SdkTakePart, MergePart <- SdkMergePart,
       PutPart <- SdkPutPart
SdkOf(K) ==
  [header : Pointer(Header), body : Pointer(BodyOf(K)), footer : Pointer(Footer)]
SdkTypes(K) ==
  [header |-> Pointer(Header), body |-> Pointer(BodyOf(K)),
   footer |-> Pointer(Footer)]
SdkValues(K) ==
  [x \in DOMAIN NewSdk |->
     CASE x = "header" -> Seq(HeaderWire)
       [] x = "body" -> Seq(BodyWire(K))
       [] OTHER -> Seq(FooterWire)]
SdkWire(K) == OfSdk!Wire(SdkValues(K))

\* Its operators are those of the general theory.
LEMMA SdkLoop ==
  ASSUME NEW m, NEW fields, NEW p, NEW q, NEW field, NEW number
  PROVE  /\ ParseSdk(m, fields) = OfSdk!Parse(m, fields)
         /\ TakeMessage(p, field, ParseSdk, NewSdk) = OfSdk!TakePointer(p, field)
         /\ MergeMessage(p, q, MergeSdk, NewSdk) = OfSdk!MergePointers(p, q)
         /\ PutMessage(number, p, SerializeSdk) = OfSdk!PutPointer(number, p)
<1>1. \A n, fs : ParseSdk(n, fs) = OfSdk!Parse(n, fs)
  BY DEF ParseSdk, TakeFields, OfSdk!Parse, OfSdk!TakeFields
<1> QED
  BY <1>1 DEF TakeMessage, MergeMessage, PutMessage, Deref, Field, OfSdk!TakePointer,
    OfSdk!TakeMessage, OfSdk!Deref, OfSdk!MergePointers, OfSdk!MergeMessage, OfSdk!PutPointer,
    OfSdk!PutMessage, OfSdk!Field

\* A Sdk has these parts, each of its type.
LEMMA SdkTyped == \A K : OfSdk!Typed(SdkOf(K), SdkTypes(K))
BY DEF OfSdk!Typed, OfSdk!HasParts, OfSdk!Parts, SdkOf, SdkTypes, NewSdk

\* What is written of a Sdk is read back, and reading more of it is merging.
\* (Sdk::_InternalParse, MergeFrom, _InternalSerialize)
LEMMA SdkSound ==
  ASSUME NEW K, NEW L, Compatible(K, L)
  PROVE  OfSdk!Sound(SdkOf(K), SdkOf(L), SdkWire(L))
<1>1. OfSdk!Parts = {"header", "body", "footer"} /\ OfSdk!HasParts(NewSdk)
  BY DEF OfSdk!Parts, OfSdk!HasParts, NewSdk
<1>2. /\ Len(SdkNames) = 3 /\ DOMAIN SdkNames = 1 .. 3 /\ SdkNames[1] = "header"
      /\ SdkNames[2] = "body" /\ SdkNames[3] = "footer"
  BY DEF SdkNames
<1>3. /\ SdkNumbers["header"] = 1 /\ SdkNumbers["body"] = 2 /\ SdkNumbers["footer"] = 3
  BY DEF SdkNumbers
<1>4. /\ NewSdk["header"] = << >> /\ NewSdk["body"] = << >> /\ NewSdk["footer"] = << >>
  BY DEF NewSdk
<1>5. OfSdk!AllWritten
  BY <1>1, <1>2 DEF OfSdk!AllWritten
<1>6. ASSUME NEW x \in OfSdk!Parts, NEW m, NEW field, field.number = SdkNumbers[x]
      PROVE  TakeSdk(m, field) = OfSdk!With(m, x, SdkTakePart(x, m[x], field))
  <2>1. CASE x = "header"
    <3>1. /\ field.number = 1 /\ field.number # 2 /\ field.number # 3
      BY <1>3, <1>6, <2>1
    <3> QED
      BY <2>1, <3>1, HeaderLoop DEF TakeSdk, OfSdk!With, SdkTakePart
  <2>2. CASE x = "body"
    <3>1. /\ field.number = 2 /\ field.number # 1 /\ field.number # 3
      BY <1>3, <1>6, <2>2
    <3> QED
      BY <2>2, <3>1, BodyLoop DEF TakeSdk, OfSdk!With, SdkTakePart
  <2>3. CASE x = "footer"
    <3>1. /\ field.number = 3 /\ field.number # 1 /\ field.number # 2
      BY <1>3, <1>6, <2>3
    <3> QED
      BY <2>3, <3>1, FooterLoop DEF TakeSdk, OfSdk!With, SdkTakePart
  <2> QED
    BY <1>1, <2>1, <2>2, <2>3
<1>7. ASSUME NEW to, NEW from
      PROVE  MergeSdk(to, from) = [x \in OfSdk!Parts |-> SdkMergePart(x, to[x], from[x])]
  <2> DEFINE merged(x) == SdkMergePart(x, to[x], from[x])
  <2>1. MergeSdk(to, from)
          = [header |-> merged("header"), body |-> merged("body"), footer |-> merged("footer")]
    BY <1>4, BodyLoop, FooterLoop, HeaderLoop DEF MergeSdk, SdkMergePart
  <2> HIDE DEF merged
  <2>2. [header |-> merged("header"), body |-> merged("body"), footer |-> merged("footer")]
          = [x \in {"header", "body", "footer"} |-> merged(x)]
    OBVIOUS
  <2> QED
    BY <1>1, <2>1, <2>2 DEF merged
<1>8. ASSUME NEW m PROVE \E puts : OfSdk!WrittenInOrder(m, puts)
  <2> DEFINE put(x) == SdkPutPart(x, m[x])
             put2 == put("header") \o put("body")
             put3 == put2 \o put("footer")
             puts == <<put("header"), put2, put3>>
  <2>1. SerializeSdk(m) = put3
    BY <1>3, <1>4, BodyLoop, FooterLoop, HeaderLoop DEF SerializeSdk, SdkPutPart
  <2> HIDE DEF put
  <2>2. /\ puts[1] = put("header") /\ puts[2] = puts[1] \o put("body")
        /\ puts[3] = puts[2] \o put("footer") /\ puts[3] = put3
    OBVIOUS
  <2> HIDE DEF puts, put3
  <2>3. ASSUME NEW i \in 2 .. 3
        PROVE  puts[i] = puts[i - 1] \o put(SdkNames[i])
    <3>1. (i = 2 /\ i - 1 = 1) \/ (i = 3 /\ i - 1 = 2)
      OBVIOUS
    <3> QED
      BY <1>2, <2>2, <3>1
  <2>4. OfSdk!WrittenInOrder(m, puts)
    BY <1>2, <2>1, <2>2, <2>3 DEF OfSdk!WrittenInOrder, put
  <2> QED
    BY <2>4
<1>9. OfSdk!ByParts
  BY <1>1, <1>5, <1>6, <1>7, <1>8 DEF OfSdk!ByParts
<1>10. NewSdk \in SdkOf(K) /\ NewSdk \in SdkOf(L)
  BY NewTexts, NoPointer DEF NewSdk, SdkOf
<1>11. ASSUME NEW x \in OfSdk!Parts
       PROVE  OfSdk!PartSound(x, SdkTypes(K)[x], SdkTypes(L)[x], SdkValues(L)[x])
  <2>1. CASE x = "header"
    <3>1. /\ \A p, field : SdkTakePart(x, p, field) = OfHeader!TakePointer(p, field)
          /\ \A p, q : SdkMergePart(x, p, q) = OfHeader!MergePointers(p, q)
          /\ \A p : SdkPutPart(x, p) = OfHeader!PutPointer(SdkNumbers[x], p)
          /\ NewSdk[x] = << >>
      BY <1>3, <1>4, <2>1 DEF SdkTakePart, SdkMergePart, SdkPutPart
    <3>2. /\ SdkTypes(K)[x] = OfHeader!Pointer(Header) /\ SdkTypes(L)[x] = OfHeader!Pointer(Header)
          /\ SdkValues(L)[x] = Seq(HeaderWire)
      BY <1>1, <2>1 DEF SdkTypes, SdkValues, OfSdk!Parts, Pointer, OfHeader!Pointer
    <3> QED
      BY <1>9, <3>1, <3>2, HeaderSound, OfHeader!PointerSound, OfSdk!OneFieldSound
  <2>2. CASE x = "body"
    <3>1. /\ \A p, field : SdkTakePart(x, p, field) = OfBody!TakePointer(p, field)
          /\ \A p, q : SdkMergePart(x, p, q) = OfBody!MergePointers(p, q)
          /\ \A p : SdkPutPart(x, p) = OfBody!PutPointer(SdkNumbers[x], p)
          /\ NewSdk[x] = << >>
      BY <1>3, <1>4, <2>2 DEF SdkTakePart, SdkMergePart, SdkPutPart
    <3>2. /\ SdkTypes(K)[x] = OfBody!Pointer(BodyOf(K))
          /\ SdkTypes(L)[x] = OfBody!Pointer(BodyOf(L)) /\ SdkValues(L)[x] = Seq(BodyWire(L))
      BY <1>1, <2>2 DEF SdkTypes, SdkValues, OfSdk!Parts, Pointer, OfBody!Pointer
    <3> QED
      BY <1>9, <3>1, <3>2, BodySound, OfBody!PointerSound, OfSdk!OneFieldSound
  <2>3. CASE x = "footer"
    <3>1. /\ \A p, field : SdkTakePart(x, p, field) = OfFooter!TakePointer(p, field)
          /\ \A p, q : SdkMergePart(x, p, q) = OfFooter!MergePointers(p, q)
          /\ \A p : SdkPutPart(x, p) = OfFooter!PutPointer(SdkNumbers[x], p)
          /\ NewSdk[x] = << >>
      BY <1>3, <1>4, <2>3 DEF SdkTakePart, SdkMergePart, SdkPutPart
    <3>2. /\ SdkTypes(K)[x] = OfFooter!Pointer(Footer) /\ SdkTypes(L)[x] = OfFooter!Pointer(Footer)
          /\ SdkValues(L)[x] = Seq(FooterWire)
      BY <1>1, <2>3 DEF SdkTypes, SdkValues, OfSdk!Parts, Pointer, OfFooter!Pointer
    <3> QED
      BY <1>9, <3>1, <3>2, FooterSound, OfFooter!PointerSound, OfSdk!OneFieldSound
  <2> QED
    BY <1>1, <2>1, <2>2, <2>3
<1> QED
  BY <1>9, <1>11, SdkTyped, OfSdk!ByPartsSound DEF SdkWire

-----------------------------------------------------------------------------
(* What this says of the message that is exchanged.                        *)

\* With both lists allowed these are the messages of InSdk.
LEMMA AllLists ==
  /\ Content = ContentOf(ListNumbers)
  /\ Body = BodyOf(ListNumbers)
  /\ Sdk = SdkOf(ListNumbers)
<1>1. Content = ContentOf(ListNumbers)
  BY DEF ContentOf, ListNumbers
<1>2. Body = BodyOf(ListNumbers)
  BY <1>1 DEF Body, BodyOf
<1> QED
  BY <1>1, <1>2 DEF Sdk, SdkOf

\* What the fields are parsed to, and that they can be written.
LEMMA SdkIsSound ==
  ASSUME NEW K \in SUBSET ListNumbers
  PROVE  /\ OfSdk!Closed(SdkOf(K), SdkWire(K))
         /\ OfSdk!RoundTrips(SdkOf(K), SdkWire(K))
<1>1. Compatible({}, K)
  BY DEF Compatible
<1>2. OfSdk!Sound(SdkOf({}), SdkOf(K), SdkWire(K))
  BY <1>1, SdkSound
<1> QED
  BY <1>2 DEF OfSdk!Sound, OfSdk!Mergeable

\* Whatever message of the generated types is written, it reads back as it
\* was: no part of it is lost or mistaken for another, whatever its cleared
\* parts and its lists.  (SerializeAsString and ParseFromString, as
\* sdk_protocol_do.cpp uses them)
THEOREM SerializedReadsBack == \A m \in Sdk : ParseSdk(NewSdk, SerializeSdk(m)) = m
<1>1. ASSUME NEW m \in Sdk PROVE OfSdk!Parse(NewSdk, SerializeSdk(m)) = m
  BY AllLists, SdkIsSound DEF OfSdk!RoundTrips, OfSdk!Reads
<1> QED
  BY <1>1, SdkLoop

\* Reading a second message of the generated types where a first one was read
\* merges it into the first, provided that the first has no list or the second
\* has none to take away.  (Sdk::_InternalParse and MergeFrom)
THEOREM ReadTogetherMerges ==
  ASSUME NEW K, NEW L, Compatible(K, L), NEW first \in SdkOf(K), NEW second \in SdkOf(L)
  PROVE  ParseSdk(first, SerializeSdk(second)) = MergeSdk(first, second)
<1>1. OfSdk!Sound(SdkOf(K), SdkOf(L), SdkWire(L))
  BY SdkSound
<1>2. OfSdk!Reads(SerializeSdk(second), SdkWire(L), second)
  BY <1>1 DEF OfSdk!Sound, OfSdk!RoundTrips
<1>3. OfSdk!Parse(first, SerializeSdk(second)) = MergeSdk(first, second)
  BY <1>1, <1>2, OfSdk!ParseIsMerge DEF OfSdk!Sound, OfSdk!Reads
<1> QED
  BY <1>3, SdkLoop

-----------------------------------------------------------------------------
(* Bodies that are read as one.                                            *)

\* The session a body asks for.
UserType(body) == Deref(body.user_session, NewUserSessionMsg).user_type

\* A session type that is read after another one replaces it, if it is set.
LEMMA SessionAfter ==
  ASSUME NEW x \in UserSessionMsg, NEW y \in UserSessionMsg
  PROVE  ParseUserSessionMsg(x, SerializeUserSessionMsg(y)).user_type
           = MergeScalar(x.user_type, y.user_type, 0)
<1>1. /\ OfUserSessionMsg!Parse(NewUserSessionMsg, SerializeUserSessionMsg(y)) = y
      /\ SerializeUserSessionMsg(y) \in Seq(UserSessionMsgWire)
  BY UserSessionMsgSound DEF OfUserSessionMsg!Sound, OfUserSessionMsg!RoundTrips, OfUserSessionMsg!Reads
<1>2. OfUserSessionMsg!Mergeable(UserSessionMsg, UserSessionMsg, UserSessionMsgWire)
  BY UserSessionMsgSound DEF OfUserSessionMsg!Sound
<1>3. OfUserSessionMsg!Parse(x, SerializeUserSessionMsg(y)) = MergeUserSessionMsg(x, y)
  BY <1>1, <1>2, OfUserSessionMsg!ParseIsMerge
<1>4. MergeUserSessionMsg(x, y).user_type = MergeScalar(x.user_type, y.user_type, 0)
  <2> DEFINE scalars == MergeScalars(x, y, NewUserSessionMsg)
  <2>1. scalars.user_type = MergeScalar(x.user_type, y.user_type, 0)
    BY DEF MergeScalars, NewUserSessionMsg
  <2> HIDE DEF scalars
  <2>2. \A u : [scalars EXCEPT !.user = u].user_type = scalars.user_type
    OBVIOUS
  <2> QED
    BY <2>1, <2>2 DEF MergeUserSessionMsg, scalars
<1> QED
  BY <1>3, <1>4, UserSessionMsgLoop

\* No field, or one.
LEMMA ParseBodyShort ==
  ASSUME NEW m, NEW field
  PROVE  ParseBody(m, << >>) = m /\ ParseBody(m, <<field>>) = TakeBody(m, field)
BY BodyLoop, OfBody!ParseNothing, OfBody!ParseOne

\* Two parts, one after the other.
LEMMA ParseBodyParts ==
  ASSUME NEW F, NEW first \in Seq(F), NEW second \in Seq(F)
  PROVE  \A m : ParseBody(m, first \o second) = ParseBody(ParseBody(m, first), second)
<1> TAKE m
<1>1. OfBody!Parse(m, first \o second) = OfBody!Parse(OfBody!Parse(m, first), second)
  BY OfBody!ParseParts
<1> QED
  BY <1>1, BodyLoop

\* Of the bodies of several messages that are read as one, each field that is
\* not repeated has the value that was set last.  (Body::_InternalParse)
LEMMA BodyAfter ==
  ASSUME NEW b \in Body, NEW c \in Body
  PROVE  LET d == ParseBody(b, SerializeBody(c))
         IN  /\ d.url = MergeScalar(b.url, c.url, "")
             /\ d.method = MergeScalar(b.method, c.method, 0)
             /\ UserType(d) = MergeScalar(UserType(b), UserType(c), 0)
<1> DEFINE f1 == Field(1, SerializeUserSessionMsg(c.user_session[1]))
           f2 == Field(2, c.url)
           f3 == Field(3, c.method)
           f5 == Field(5, SerializeContent(c.content[1]))
           F == {f1, f2, f3, f5}
           s1 == IF c.user_session = << >> THEN << >> ELSE <<f1>>
           s2 == IF c.url = "" THEN << >> ELSE <<f2>>
           s3 == IF c.method = 0 THEN << >> ELSE <<f3>>
           s5 == IF c.content = << >> THEN << >> ELSE <<f5>>
           made(u, v, w, x) == [user_session |-> u, url |-> v, method |-> w, content |-> x]
           session == IF c.user_session = << >> THEN b.user_session
                      ELSE TakeMessage(b.user_session, f1, ParseUserSessionMsg, NewUserSessionMsg)
           url == MergeScalar(b.url, c.url, "")
           method == MergeScalar(b.method, c.method, 0)
           content == IF c.content = << >> THEN b.content
                      ELSE TakeMessage(b.content, f5, ParseContent, NewContent)
<1>1. SerializeBody(c) = ((s1 \o s2) \o s3) \o s5
  BY DEF SerializeBody, PutMessage, PutScalar, Field
<1>2. s1 \in Seq(F) /\ s2 \in Seq(F) /\ s3 \in Seq(F) /\ s5 \in Seq(F)
  <2>1. f1 \in F /\ f2 \in F /\ f3 \in F /\ f5 \in F
    OBVIOUS
  <2> HIDE DEF f1, f2, f3, f5, F
  <2> QED
    BY <2>1, ShortSeq
<1>3. b = made(b.user_session, b.url, b.method, b.content)
  BY DEF Body
<1>4. ParseBody(b, s1) = made(session, b.url, b.method, b.content)
  <2>1. f1.number = 1
    BY DEF Field
  <2>2. TakeBody(b, f1) = [b EXCEPT !.user_session = TakeMessage(@, f1, ParseUserSessionMsg, NewUserSessionMsg)]
    BY <2>1 DEF TakeBody
  <2>3. \A u : [b EXCEPT !.user_session = u] = made(u, b.url, b.method, b.content)
    BY <1>3
  <2> HIDE DEF f1, made
  <2>4. TakeBody(b, f1) = made(TakeMessage(b.user_session, f1, ParseUserSessionMsg, NewUserSessionMsg), b.url, b.method, b.content)
    BY <2>2, <2>3
  <2> QED
    BY <1>3, <2>4, ParseBodyShort
<1> HIDE DEF session
<1>5. ParseBody(made(session, b.url, b.method, b.content), s2) = made(session, url, b.method, b.content)
  <2>1. f2.number = 2 /\ f2.value = c.url
    BY DEF Field
  <2>2. \A m : TakeBody(m, f2) = [m EXCEPT !.url = c.url]
    BY <2>1 DEF TakeBody
  <2> HIDE DEF f2
  <2>3. TakeBody(made(session, b.url, b.method, b.content), f2) = made(session, c.url, b.method, b.content)
    BY <2>2
  <2> QED
    BY <2>3, ParseBodyShort DEF MergeScalar
<1>6. ParseBody(made(session, url, b.method, b.content), s3) = made(session, url, method, b.content)
  <2>1. f3.number = 3 /\ f3.value = c.method
    BY DEF Field
  <2>2. \A m : TakeBody(m, f3) = [m EXCEPT !.method = c.method]
    BY <2>1 DEF TakeBody
  <2> HIDE DEF f3, url
  <2>3. TakeBody(made(session, url, b.method, b.content), f3) = made(session, url, c.method, b.content)
    BY <2>2
  <2> QED
    BY <2>3, ParseBodyShort DEF MergeScalar
<1>7. ParseBody(made(session, url, method, b.content), s5) = made(session, url, method, content)
  <2>1. f5.number = 5
    BY DEF Field
  <2>2. \A m : TakeBody(m, f5) = [m EXCEPT !.content = TakeMessage(@, f5, ParseContent, NewContent)]
    BY <2>1 DEF TakeBody
  <2> HIDE DEF f5, url, method
  <2>3. TakeBody(made(session, url, method, b.content), f5)
          = made(session, url, method, TakeMessage(b.content, f5, ParseContent, NewContent))
    BY <2>2
  <2> QED
    BY <2>3, ParseBodyShort
<1> HIDE DEF s1, s2, s3, s5, F, made, url, method, content
<1>8. ParseBody(b, SerializeBody(c)) = made(session, url, method, content)
  <2> DEFINE s12 == s1 \o s2
             s123 == s12 \o s3
  <2>1. s12 \in Seq(F)
    BY <1>2
  <2>2. ParseBody(b, s12) = ParseBody(ParseBody(b, s1), s2)
    BY <1>2, ParseBodyParts
  <2> HIDE DEF s12
  <2>3. s123 \in Seq(F)
    BY <1>2, <2>1
  <2>4. ParseBody(b, s123) = ParseBody(ParseBody(b, s12), s3)
    BY <1>2, <2>1, ParseBodyParts
  <2> HIDE DEF s123
  <2>5. ParseBody(b, s123 \o s5) = ParseBody(ParseBody(b, s123), s5)
    BY <1>2, <2>3, ParseBodyParts
  <2>6. SerializeBody(c) = s123 \o s5
    BY <1>1 DEF s12, s123
  <2> QED
    BY <1>4, <1>5, <1>6, <1>7, <2>2, <2>4, <2>5, <2>6
<1>9. Deref(session, NewUserSessionMsg).user_type = MergeScalar(UserType(b), UserType(c), 0)
  <2>1. CASE c.user_session = << >>
    BY <2>1 DEF session, UserType, Deref, NewUserSessionMsg, MergeScalar
  <2>2. CASE c.user_session # << >>
    <3> DEFINE x == Deref(b.user_session, NewUserSessionMsg)
               y == c.user_session[1]
    <3>1. NewUserSessionMsg \in UserSessionMsg
      BY UserSessionMsgSound DEF OfUserSessionMsg!Sound, OfUserSessionMsg!Mergeable, OfUserSessionMsg!Closed
    <3>2. x \in UserSessionMsg /\ y \in UserSessionMsg
      BY <2>2, <3>1 DEF Body, Pointer, Deref
    <3>3. session = <<ParseUserSessionMsg(x, SerializeUserSessionMsg(y))>>
      BY <2>2 DEF session, TakeMessage, Field
    <3>4. UserType(b) = x.user_type /\ UserType(c) = y.user_type
      BY <2>2 DEF UserType, Deref
    <3> HIDE DEF x, y
    <3> QED
      BY <3>2, <3>3, <3>4, SessionAfter DEF Deref
  <2> QED
    BY <2>1, <2>2
<1> HIDE DEF f1, f2, f3, f5
<1>10. /\ made(session, url, method, content).url = url
       /\ made(session, url, method, content).method = method
       /\ UserType(made(session, url, method, content)) = Deref(session, NewUserSessionMsg).user_type
  BY DEF made, UserType
<1> QED
  BY <1>8, <1>9, <1>10 DEF url, method

-----------------------------------------------------------------------------
(* Responses.                                                             *)

\* What pack leaves of a new message with a header and a body.  (SdkProtocolDo)
LEMMA SdkOfParts ==
  ASSUME NEW h, NEW b
  PROVE  [NewSdk EXCEPT !.header = h, !.body = b] = [header |-> h, body |-> b, footer |-> << >>]
<1> DEFINE new == [header |-> << >>, body |-> << >>, footer |-> << >>]
           m == [header |-> h, body |-> << >>, footer |-> << >>]
<1>1. [new EXCEPT !.header = h] = m
  OBVIOUS
<1>2. [m EXCEPT !.body = b] = [header |-> h, body |-> b, footer |-> << >>]
  OBVIOUS
<1>3. NewSdk = new
  BY DEF NewSdk
<1> HIDE DEF new, m
<1> QED
  BY <1>1, <1>2, <1>3

\* What a response tells: the url and the method asked for, and the two results.
Told(m) ==
  LET body == Deref(m.body, NewBody)
      result == Deref(Deref(m.footer, NewFooter).result, NewResult)
  IN  [url |-> body.url, method |-> body.method,
       sdk |-> IF result.sdk_result = << >> THEN "unset"
               ELSE IF result.sdk_result[1].status_code = 0 THEN "OK" ELSE "ERROR",
       content |-> IF result.content_result = << >> THEN "unset"
                   ELSE IF result.content_result[1].status_code = 0
                        THEN "R_CODE_OK" ELSE "R_CODE_ERROR"]

\* The parts of a message, and that of a response a handler may set.
LEMMA SdkParts ==
  ASSUME NEW m \in Sdk
  PROVE  /\ m = [header |-> m.header, body |-> m.body, footer |-> m.footer]
         /\ m.header \in Pointer(Header) /\ m.body \in Pointer(Body) /\ m.footer \in Pointer(Footer)
         /\ Deref(m.body, NewBody) \in Body /\ Deref(m.footer, NewFooter) \in Footer
         /\ Deref(Deref(m.footer, NewFooter).result, NewResult) \in Result
<1>1. /\ m = [header |-> m.header, body |-> m.body, footer |-> m.footer]
      /\ m.header \in Pointer(Header) /\ m.body \in Pointer(Body) /\ m.footer \in Pointer(Footer)
  BY DEF Sdk
<1>2. NewBody \in Body /\ NewFooter \in Footer /\ NewResult \in Result
  BY NewTexts, NoPointer DEF NewBody, Body, NewFooter, Footer, NewResult, Result
<1>3. Deref(m.body, NewBody) \in Body /\ Deref(m.footer, NewFooter) \in Footer
  BY <1>1, <1>2 DEF Pointer, Deref
<1> DEFINE footer == Deref(m.footer, NewFooter)
<1> HIDE DEF footer
<1>4. footer.result \in Pointer(Result)
  BY <1>3 DEF Footer, footer
<1>5. Deref(footer.result, NewResult) \in Result
  BY <1>2, <1>4 DEF Pointer, Deref
<1> QED
  BY <1>1, <1>3, <1>5 DEF footer

\* A footer with another result, and a message with another footer.
LEMMA OtherResult ==
  ASSUME NEW m \in Sdk, NEW result \in Result
  PROVE  LET footer == [Deref(m.footer, NewFooter) EXCEPT !.result = <<result>>]
             n == [m EXCEPT !.footer = <<footer>>]
         IN  /\ n \in Sdk /\ n.header = m.header /\ n.body = m.body
             /\ Deref(Deref(n.footer, NewFooter).result, NewResult) = result
<1> DEFINE old == Deref(m.footer, NewFooter)
           footer == [old EXCEPT !.result = <<result>>]
           n == [m EXCEPT !.footer = <<footer>>]
<1>1. /\ m = [header |-> m.header, body |-> m.body, footer |-> m.footer]
      /\ m.header \in Pointer(Header) /\ m.body \in Pointer(Body) /\ m.footer \in Pointer(Footer)
  BY SdkParts
<1>2. old \in Footer
  BY SdkParts
<1> HIDE DEF old
<1>3. <<result>> \in Pointer(Result)
  BY SomePointer
<1>4. footer \in Footer /\ footer.result = <<result>>
  BY <1>2, <1>3 DEF Footer
<1> HIDE DEF footer
<1>5. <<footer>> \in Pointer(Footer)
  BY <1>4, SomePointer
<1>6. n = [header |-> m.header, body |-> m.body, footer |-> <<footer>>]
  BY <1>1
<1> HIDE DEF n
<1>7. n \in Sdk /\ n.header = m.header /\ n.body = m.body /\ n.footer = <<footer>>
  BY <1>1, <1>5, <1>6 DEF Sdk
<1>8. Deref(Deref(n.footer, NewFooter).result, NewResult) = result
  <2>1. Deref(<<footer>>, NewFooter) = footer
    BY DEF Deref
  <2>2. Deref(<<result>>, NewResult) = result
    BY DEF Deref
  <2> QED
    BY <1>4, <1>7, <2>1, <2>2
<1> QED
  BY <1>7, <1>8 DEF n, footer, old

\* A new body with a url and a method.
LEMMA BodyOfParts ==
  ASSUME NEW u, NEW v
  PROVE  [NewBody EXCEPT !.url = u, !.method = v]
           = [user_session |-> << >>, url |-> u, method |-> v, content |-> << >>]
<1> DEFINE new(e) == [user_session |-> << >>, url |-> e, method |-> 0, content |-> << >>]
           m == [user_session |-> << >>, url |-> u, method |-> 0, content |-> << >>]
<1>1. \A e : [new(e) EXCEPT !.url = u] = m
  OBVIOUS
<1>2. [m EXCEPT !.method = v]
        = [user_session |-> << >>, url |-> u, method |-> v, content |-> << >>]
  OBVIOUS
<1>3. NewBody = new("")
  BY DEF NewBody
<1> HIDE DEF new, m
<1> QED
  BY <1>1, <1>2, <1>3

\* The response before anything is done: it has the url and the method of the request.
LEMMA EchoIs ==
  ASSUME NEW url \in STRING, NEW method \in Nat
  PROVE  LET echo == [NewSdk EXCEPT !.body = <<[NewBody EXCEPT !.url = url, !.method = method]>>]
         IN  /\ echo \in Sdk
             /\ Told(echo) = [url |-> url, method |-> method, sdk |-> "unset", content |-> "unset"]
<1> DEFINE body == [NewBody EXCEPT !.url = url, !.method = method]
           echo == [NewSdk EXCEPT !.body = <<body>>]
<1>1. body = [user_session |-> << >>, url |-> url, method |-> method, content |-> << >>]
  BY BodyOfParts
<1> HIDE DEF body
<1>2. body \in Body /\ body.url = url /\ body.method = method
  <2>1. << >> \in Pointer(UserSessionMsg) /\ << >> \in Pointer(Content)
    BY NoPointer
  <2> QED
    BY <1>1, <2>1 DEF Body
<1>3. <<body>> \in Pointer(Body)
  BY <1>2, SomePointer
<1>4. echo = [header |-> << >>, body |-> <<body>>, footer |-> << >>]
  BY DEF NewSdk
<1> HIDE DEF echo
<1>5. echo \in Sdk
  <2>1. << >> \in Pointer(Header) /\ << >> \in Pointer(Footer)
    BY NoPointer
  <2> QED
    BY <1>3, <1>4, <2>1 DEF Sdk
<1>6. Deref(echo.body, NewBody) = body
  <2>1. <<body>> # << >> /\ <<body>>[1] = body
    OBVIOUS
  <2> QED
    BY <1>4, <2>1 DEF Deref
<1>7. Deref(Deref(echo.footer, NewFooter).result, NewResult) = NewResult
  <2>1. Deref(echo.footer, NewFooter) = NewFooter
    BY <1>4 DEF Deref
  <2> QED
    BY <2>1 DEF Deref, NewFooter
<1>8. Told(echo) = [url |-> url, method |-> method, sdk |-> "unset", content |-> "unset"]
  BY <1>2, <1>6, <1>7 DEF Told, NewResult
<1> QED
  BY <1>5, <1>8 DEF echo, body

\* A response that is not empty is on the wire, and the client reads what it tells.
LEMMA ReplyIs ==
  ASSUME NEW m \in Sdk, m.header # << >>, NEW r
  PROVE  /\ SerializeSdk(m) # << >>
         /\ LET read == ParseSdk(NewSdk, SerializeSdk(m))
                body == Deref(read.body, NewBody)
                result == Deref(Deref(read.footer, NewFooter).result, NewResult)
            IN  [pack |-> Deref(read.header, NewHeader).pack_id,
                 url |-> body.url, method |-> body.method,
                 sdk |-> IF result.sdk_result = << >> THEN "unset"
                         ELSE IF result.sdk_result[1].status_code = 0 THEN "OK" ELSE "ERROR",
                 content |-> IF result.content_result = << >> THEN "unset"
                             ELSE IF result.content_result[1].status_code = 0
                                  THEN "R_CODE_OK" ELSE "R_CODE_ERROR",
                 ran |-> r]
                = [pack |-> m.header[1].pack_id, url |-> Told(m).url, method |-> Told(m).method,
                   sdk |-> Told(m).sdk, content |-> Told(m).content, ran |-> r]
<1>1. ParseSdk(NewSdk, SerializeSdk(m)) = m
  BY SerializedReadsBack
<1>2. SerializeSdk(m) # << >>
  <2>1. ParseSdk(NewSdk, << >>) = NewSdk
    BY SdkLoop, OfSdk!ParseNothing
  <2>2. NewSdk.header = << >>
    BY DEF NewSdk
  <2> QED
    BY <1>1, <2>1, <2>2
<1>3. Deref(m.header, NewHeader) = m.header[1]
  BY DEF Deref
<1> QED
  BY <1>1, <1>2, <1>3 DEF Told

-----------------------------------------------------------------------------
(* Where a zero byte is: which parts are written as nothing.               *)

IsSeq(s) == \E F : s \in Seq(F)

\* The values of fields that are written one after the other.
LEMMA ValuesConcat ==
  ASSUME NEW a, NEW b, IsSeq(a), IsSeq(b)
  PROVE  IsSeq(a \o b) /\ \A k : Values(a \o b, k) = Values(a, k) \cup Values(b, k)
<1>1. PICK F : a \in Seq(F)
  BY DEF IsSeq
<1>2. PICK G : b \in Seq(G)
  BY DEF IsSeq
<1> DEFINE H == F \cup G
           c == a \o b
<1>3. a \in Seq(H) /\ b \in Seq(H)
  BY <1>1, <1>2
<1> HIDE DEF H
<1>4. /\ c \in Seq(H) /\ Len(c) = Len(a) + Len(b) /\ Len(a) \in Nat /\ Len(b) \in Nat
      /\ \A i \in 1 .. Len(c) : c[i] = IF i <= Len(a) THEN a[i] ELSE b[i - Len(a)]
  BY <1>3, ConcatProperties
<1> HIDE DEF c
<1>5. DOMAIN a = 1 .. Len(a) /\ DOMAIN b = 1 .. Len(b) /\ DOMAIN c = 1 .. Len(c)
  BY <1>3, <1>4
<1>6. ASSUME NEW k, NEW v
      PROVE  v \in Values(c, k) <=> v \in Values(a, k) \/ v \in Values(b, k)
  <2>1. \A s : v \in Values(s, k) <=> \E i \in DOMAIN s : s[i].number = k /\ s[i].value = v
    BY DEF Values
  <2>2. ASSUME NEW i \in DOMAIN c, c[i].number = k, c[i].value = v
        PROVE  v \in Values(a, k) \/ v \in Values(b, k)
    <3>1. CASE i <= Len(a)
      BY <1>4, <1>5, <2>1, <2>2, <3>1
    <3>2. CASE ~(i <= Len(a))
      <4>1. c[i] = b[i - Len(a)] /\ i - Len(a) \in DOMAIN b
        BY <1>4, <1>5, <2>2, <3>2
      <4> QED
        BY <2>1, <2>2, <4>1
    <3> QED
      BY <3>1, <3>2
  <2>3. ASSUME NEW i \in DOMAIN a, a[i].number = k, a[i].value = v
        PROVE  v \in Values(c, k)
    BY <1>4, <1>5, <2>1, <2>3
  <2>4. ASSUME NEW i \in DOMAIN b, b[i].number = k, b[i].value = v
        PROVE  v \in Values(c, k)
    <3>1. c[i + Len(a)] = b[i] /\ i + Len(a) \in DOMAIN c
      BY <1>4, <1>5
    <3> QED
      BY <2>1, <2>4, <3>1
  <2> QED
    BY <2>1, <2>2, <2>3, <2>4
<1> QED
  BY <1>4, <1>6 DEF IsSeq, c

\* Those of no field, and of one.
LEMMA ValuesShort ==
  ASSUME NEW number, NEW value
  PROVE  /\ IsSeq(<< >>) /\ \A k : Values(<< >>, k) = {}
         /\ IsSeq(<<Field(number, value)>>)
         /\ \A k : Values(<<Field(number, value)>>, k) = IF k = number THEN {value} ELSE {}
<1>1. IsSeq(<< >>) /\ \A k : Values(<< >>, k) = {}
  BY ShortSeq DEF IsSeq, Values
<1> DEFINE field == Field(number, value)
<1>2. field.number = number /\ field.value = value
  BY DEF Field
<1> HIDE DEF field
<1>3. IsSeq(<<field>>)
  BY ShortSeq DEF IsSeq
<1>4. DOMAIN <<field>> = {1} /\ <<field>>[1] = field
  OBVIOUS
<1> QED
  BY <1>1, <1>2, <1>3, <1>4 DEF Values, field

\* Those of a number, a text or a flag, which have no other number.
LEMMA ValuesScalar ==
  ASSUME NEW number, NEW value, NEW default
  PROVE  /\ IsSeq(PutScalar(number, value, default))
         /\ \A k : k = number \/ Values(PutScalar(number, value, default), k) = {}
BY ValuesShort DEF PutScalar

\* Fields written in three steps, or in four.
LEMMA ValuesOfThree ==
  ASSUME NEW a, NEW b, NEW c, IsSeq(a), IsSeq(b), IsSeq(c)
  PROVE  IsSeq(a \o b \o c)
         /\ \A k : Values(a \o b \o c, k) = Values(a, k) \cup Values(b, k) \cup Values(c, k)
<1> DEFINE ab == a \o b
<1>1. IsSeq(ab) /\ \A k : Values(ab, k) = Values(a, k) \cup Values(b, k)
  BY ValuesConcat
<1> HIDE DEF ab
<1>2. IsSeq(ab \o c) /\ \A k : Values(ab \o c, k) = Values(ab, k) \cup Values(c, k)
  BY <1>1, ValuesConcat
<1> QED
  BY <1>1, <1>2 DEF ab

LEMMA ValuesOfFour ==
  ASSUME NEW a, NEW b, NEW c, NEW d, IsSeq(a), IsSeq(b), IsSeq(c), IsSeq(d)
  PROVE  \A k : Values(a \o b \o c \o d, k)
                  = Values(a, k) \cup Values(b, k) \cup Values(c, k) \cup Values(d, k)
<1> DEFINE abc == a \o b \o c
<1>1. IsSeq(abc) /\ \A k : Values(abc, k) = Values(a, k) \cup Values(b, k) \cup Values(c, k)
  BY ValuesOfThree
<1> HIDE DEF abc
<1>2. \A k : Values(abc \o d, k) = Values(abc, k) \cup Values(d, k)
  BY <1>1, ValuesConcat
<1> QED
  BY <1>1, <1>2 DEF abc

\* No fields after no fields.
LEMMA NoFields == << >> \o << >> = << >>
BY ShortSeq, ConcatEmptySeq

-----------------------------------------------------------------------------
(* A message is written as nothing only if it is a cleared one.            *)

\* (DataTime::_InternalSerialize)
LEMMA EmptyDataTime ==
  \A m \in DataTime : SerializeDataTime(m) = << >> <=> m = NewDataTime
<1>1. SerializeDataTime(NewDataTime) = << >>
  BY NoFields DEF SerializeDataTime, NewDataTime, PutScalar
<1>2. \A m \in DataTime : OfDataTime!Parse(NewDataTime, SerializeDataTime(m)) = m
  BY DataTimeSound DEF OfDataTime!Sound, OfDataTime!RoundTrips, OfDataTime!Reads
<1> QED
  BY <1>1, <1>2, OfDataTime!ParseNothing

\* (Host::_InternalSerialize)
LEMMA EmptyHost ==
  \A m \in Host : SerializeHost(m) = << >> <=> m = NewHost
<1>1. SerializeHost(NewHost) = << >>
  BY NoFields DEF SerializeHost, NewHost, PutScalar
<1>2. \A m \in Host : OfHost!Parse(NewHost, SerializeHost(m)) = m
  BY HostSound DEF OfHost!Sound, OfHost!RoundTrips, OfHost!Reads
<1> QED
  BY <1>1, <1>2, OfHost!ParseNothing

\* (Header::_InternalSerialize)
LEMMA EmptyHeader ==
  \A m \in Header : SerializeHeader(m) = << >> <=> m = NewHeader
<1>1. SerializeHeader(NewHeader) = << >>
  BY NoFields DEF SerializeHeader, NewHeader, PutScalar, PutMessage
<1>2. \A m \in Header : OfHeader!Parse(NewHeader, SerializeHeader(m)) = m
  BY HeaderSound DEF OfHeader!Sound, OfHeader!RoundTrips, OfHeader!Reads
<1> QED
  BY <1>1, <1>2, OfHeader!ParseNothing

\* (UserBaseInfo::_InternalSerialize)
LEMMA EmptyUserBaseInfo ==
  \A m \in UserBaseInfo : SerializeUserBaseInfo(m) = << >> <=> m = NewUserBaseInfo
<1>1. SerializeUserBaseInfo(NewUserBaseInfo) = << >>
  BY NoFields DEF SerializeUserBaseInfo, NewUserBaseInfo, PutScalar
<1>2. \A m \in UserBaseInfo : OfUserBaseInfo!Parse(NewUserBaseInfo, SerializeUserBaseInfo(m)) = m
  BY UserBaseInfoSound DEF OfUserBaseInfo!Sound, OfUserBaseInfo!RoundTrips, OfUserBaseInfo!Reads
<1> QED
  BY <1>1, <1>2, OfUserBaseInfo!ParseNothing

\* (UserAllInfo::_InternalSerialize)
LEMMA EmptyUserAllInfo ==
  \A m \in UserAllInfo : SerializeUserAllInfo(m) = << >> <=> m = NewUserAllInfo
<1>1. SerializeUserAllInfo(NewUserAllInfo) = << >>
  BY NoFields DEF SerializeUserAllInfo, NewUserAllInfo, PutScalar, PutMessage
<1>2. \A m \in UserAllInfo : OfUserAllInfo!Parse(NewUserAllInfo, SerializeUserAllInfo(m)) = m
  BY UserAllInfoSound DEF OfUserAllInfo!Sound, OfUserAllInfo!RoundTrips, OfUserAllInfo!Reads
<1> QED
  BY <1>1, <1>2, OfUserAllInfo!ParseNothing

\* (UserList::_InternalSerialize)
LEMMA EmptyUserList ==
  \A m \in UserList : SerializeUserList(m) = << >> <=> m = NewUserList
<1>1. SerializeUserList(NewUserList) = << >>
  BY DEF SerializeUserList, NewUserList, PutRepeated
<1>2. \A m \in UserList : OfUserList!Parse(NewUserList, SerializeUserList(m)) = m
  BY UserListSound DEF OfUserList!Sound, OfUserList!RoundTrips, OfUserList!Reads
<1> QED
  BY <1>1, <1>2, OfUserList!ParseNothing

\* (UserSessionMsg::_InternalSerialize)
LEMMA EmptyUserSessionMsg ==
  \A m \in UserSessionMsg : SerializeUserSessionMsg(m) = << >> <=> m = NewUserSessionMsg
<1>1. SerializeUserSessionMsg(NewUserSessionMsg) = << >>
  BY NoFields DEF SerializeUserSessionMsg, NewUserSessionMsg, PutScalar, PutMessage
<1>2. \A m \in UserSessionMsg : OfUserSessionMsg!Parse(NewUserSessionMsg, SerializeUserSessionMsg(m)) = m
  BY UserSessionMsgSound DEF OfUserSessionMsg!Sound, OfUserSessionMsg!RoundTrips, OfUserSessionMsg!Reads
<1> QED
  BY <1>1, <1>2, OfUserSessionMsg!ParseNothing

\* (AppModuleBaseInfo::_InternalSerialize)
LEMMA EmptyAppModuleBaseInfo ==
  \A m \in AppModuleBaseInfo : SerializeAppModuleBaseInfo(m) = << >> <=> m = NewAppModuleBaseInfo
<1>1. SerializeAppModuleBaseInfo(NewAppModuleBaseInfo) = << >>
  BY NoFields DEF SerializeAppModuleBaseInfo, NewAppModuleBaseInfo, PutScalar
<1>2. \A m \in AppModuleBaseInfo : OfAppModuleBaseInfo!Parse(NewAppModuleBaseInfo, SerializeAppModuleBaseInfo(m)) = m
  BY AppModuleBaseInfoSound DEF OfAppModuleBaseInfo!Sound, OfAppModuleBaseInfo!RoundTrips, OfAppModuleBaseInfo!Reads
<1> QED
  BY <1>1, <1>2, OfAppModuleBaseInfo!ParseNothing

\* (AppModuleCoutInfo::_InternalSerialize)
LEMMA EmptyAppModuleCoutInfo ==
  \A m \in AppModuleCoutInfo : SerializeAppModuleCoutInfo(m) = << >> <=> m = NewAppModuleCoutInfo
<1>1. SerializeAppModuleCoutInfo(NewAppModuleCoutInfo) = << >>
  BY NoFields DEF SerializeAppModuleCoutInfo, NewAppModuleCoutInfo, PutScalar, PutMessage
<1>2. \A m \in AppModuleCoutInfo : OfAppModuleCoutInfo!Parse(NewAppModuleCoutInfo, SerializeAppModuleCoutInfo(m)) = m
  BY AppModuleCoutInfoSound DEF OfAppModuleCoutInfo!Sound, OfAppModuleCoutInfo!RoundTrips, OfAppModuleCoutInfo!Reads
<1> QED
  BY <1>1, <1>2, OfAppModuleCoutInfo!ParseNothing

\* (AppModuleCoutInfoList::_InternalSerialize)
LEMMA EmptyAppModuleCoutInfoList ==
  \A m \in AppModuleCoutInfoList : SerializeAppModuleCoutInfoList(m) = << >> <=> m = NewAppModuleCoutInfoList
<1>1. SerializeAppModuleCoutInfoList(NewAppModuleCoutInfoList) = << >>
  BY DEF SerializeAppModuleCoutInfoList, NewAppModuleCoutInfoList, PutRepeated
<1>2. \A m \in AppModuleCoutInfoList : OfAppModuleCoutInfoList!Parse(NewAppModuleCoutInfoList, SerializeAppModuleCoutInfoList(m)) = m
  BY AppModuleCoutInfoListSound DEF OfAppModuleCoutInfoList!Sound, OfAppModuleCoutInfoList!RoundTrips, OfAppModuleCoutInfoList!Reads
<1> QED
  BY <1>1, <1>2, OfAppModuleCoutInfoList!ParseNothing

\* (Content::_InternalSerialize)
LEMMA EmptyContent ==
  \A m \in Content : SerializeContent(m) = << >> <=> m = NewContent
<1>1. SerializeContent(NewContent) = << >>
  BY NoFields DEF SerializeContent, NewContent, PutScalar, PutMessage
<1>2. \A m \in Content : OfContent!Parse(NewContent, SerializeContent(m)) = m
  <2>1. Compatible({}, ListNumbers)
    BY DEF Compatible
  <2> QED
    BY <2>1, AllLists, ContentSound DEF OfContent!Sound, OfContent!RoundTrips, OfContent!Reads
<1> QED
  BY <1>1, <1>2, OfContent!ParseNothing

\* (Body::_InternalSerialize)
LEMMA EmptyBody ==
  \A m \in Body : SerializeBody(m) = << >> <=> m = NewBody
<1>1. SerializeBody(NewBody) = << >>
  BY NoFields DEF SerializeBody, NewBody, PutScalar, PutMessage
<1>2. \A m \in Body : OfBody!Parse(NewBody, SerializeBody(m)) = m
  <2>1. Compatible({}, ListNumbers)
    BY DEF Compatible
  <2> QED
    BY <2>1, AllLists, BodySound DEF OfBody!Sound, OfBody!RoundTrips, OfBody!Reads
<1> QED
  BY <1>1, <1>2, OfBody!ParseNothing

-----------------------------------------------------------------------------
(* A zero byte is in a message where an empty part is.                     *)

\* (UserAllInfo::_InternalSerialize)
LEMMA NulOfUserAllInfo ==
  ASSUME NEW m \in UserAllInfo
  PROVE  NulInUserAllInfo(SerializeUserAllInfo(m)) <=> m.user_base_info = <<NewUserBaseInfo>>
<1> DEFINE a == PutMessage(1, m.user_base_info, SerializeUserBaseInfo)
           b == PutScalar(2, m.in_blacklist, FALSE)
           c == PutScalar(3, m.valid, FALSE)
           value == SerializeUserBaseInfo(m.user_base_info[1])
<1>1. IsSeq(a) /\ Values(a, 1) = IF m.user_base_info # << >> THEN {value} ELSE {}
  <2>1. a = IF m.user_base_info = << >> THEN << >> ELSE <<Field(1, value)>>
    BY DEF PutMessage
  <2> HIDE DEF a, value
  <2>2. CASE m.user_base_info = << >>
    BY <2>1, <2>2, ValuesShort
  <2>3. CASE m.user_base_info # << >>
    <3>1. a = <<Field(1, value)>>
      BY <2>1, <2>3
    <3>2. IsSeq(a) /\ \A k : Values(a, k) = IF k = 1 THEN {value} ELSE {}
      BY <3>1, ValuesShort
    <3> QED
      BY <2>3, <3>2
  <2> QED
    BY <2>2, <2>3
<1>2. IsSeq(b) /\ Values(b, 1) = {}
  <2>1. \A x : IsSeq(PutScalar(2, m.in_blacklist, x)) /\ Values(PutScalar(2, m.in_blacklist, x), 1) = {}
    BY ValuesScalar
  <2> QED
    BY <2>1
<1>3. IsSeq(c) /\ Values(c, 1) = {}
  <2>1. \A x : IsSeq(PutScalar(3, m.valid, x)) /\ Values(PutScalar(3, m.valid, x), 1) = {}
    BY ValuesScalar
  <2> QED
    BY <2>1
<1>4. SerializeUserAllInfo(m) = a \o b \o c
  BY DEF SerializeUserAllInfo
<1> HIDE DEF a, b, c, value
<1>5. Values(a \o b \o c, 1)
          = Values(a, 1) \cup Values(b, 1) \cup Values(c, 1)
  BY <1>1, <1>2, <1>3, ValuesOfThree
<1>6. Values(SerializeUserAllInfo(m), 1) = IF m.user_base_info # << >> THEN {value} ELSE {}
  BY <1>1, <1>2, <1>3, <1>4, <1>5
<1>7. m.user_base_info \in Pointer(UserBaseInfo)
  BY DEF UserAllInfo
<1>8. m.user_base_info # << >> => m.user_base_info[1] \in UserBaseInfo /\ m.user_base_info = <<m.user_base_info[1]>>
  BY <1>7 DEF Pointer
<1> QED
  BY <1>6, <1>8, EmptyUserBaseInfo DEF NulInUserAllInfo, value

\* (UserSessionMsg::_InternalSerialize)
LEMMA NulOfUserSessionMsg ==
  ASSUME NEW m \in UserSessionMsg
  PROVE  NulInUserSessionMsg(SerializeUserSessionMsg(m)) <=> m.user = <<NewUserBaseInfo>>
<1> DEFINE a == PutScalar(1, m.user_type, 0)
           b == PutMessage(2, m.user, SerializeUserBaseInfo)
           c == PutScalar(3, m.token, "")
           d == PutScalar(4, m.alive_time, 0)
           value == SerializeUserBaseInfo(m.user[1])
<1>1. IsSeq(a) /\ Values(a, 2) = {}
  <2>1. \A x : IsSeq(PutScalar(1, m.user_type, x)) /\ Values(PutScalar(1, m.user_type, x), 2) = {}
    BY ValuesScalar
  <2> QED
    BY <2>1
<1>2. IsSeq(b) /\ Values(b, 2) = IF m.user # << >> THEN {value} ELSE {}
  <2>1. b = IF m.user = << >> THEN << >> ELSE <<Field(2, value)>>
    BY DEF PutMessage
  <2> HIDE DEF b, value
  <2>2. CASE m.user = << >>
    BY <2>1, <2>2, ValuesShort
  <2>3. CASE m.user # << >>
    <3>1. b = <<Field(2, value)>>
      BY <2>1, <2>3
    <3>2. IsSeq(b) /\ \A k : Values(b, k) = IF k = 2 THEN {value} ELSE {}
      BY <3>1, ValuesShort
    <3> QED
      BY <2>3, <3>2
  <2> QED
    BY <2>2, <2>3
<1>3. IsSeq(c) /\ Values(c, 2) = {}
  <2>1. \A x : IsSeq(PutScalar(3, m.token, x)) /\ Values(PutScalar(3, m.token, x), 2) = {}
    BY ValuesScalar
  <2> QED
    BY <2>1
<1>4. IsSeq(d) /\ Values(d, 2) = {}
  <2>1. \A x : IsSeq(PutScalar(4, m.alive_time, x)) /\ Values(PutScalar(4, m.alive_time, x), 2) = {}
    BY ValuesScalar
  <2> QED
    BY <2>1
<1>5. SerializeUserSessionMsg(m) = a \o b \o c \o d
  BY DEF SerializeUserSessionMsg
<1> HIDE DEF a, b, c, d, value
<1>6. Values(a \o b \o c \o d, 2)
          = Values(a, 2) \cup Values(b, 2) \cup Values(c, 2) \cup Values(d, 2)
  BY <1>1, <1>2, <1>3, <1>4, ValuesOfFour
<1>7. Values(SerializeUserSessionMsg(m), 2) = IF m.user # << >> THEN {value} ELSE {}
  BY <1>1, <1>2, <1>3, <1>4, <1>5, <1>6
<1>8. m.user \in Pointer(UserBaseInfo)
  BY DEF UserSessionMsg
<1>9. m.user # << >> => m.user[1] \in UserBaseInfo /\ m.user = <<m.user[1]>>
  BY <1>8 DEF Pointer
<1> QED
  BY <1>7, <1>9, EmptyUserBaseInfo DEF NulInUserSessionMsg, value

\* (AppModuleCoutInfo::_InternalSerialize)
LEMMA NulOfAppModuleCoutInfo ==
  ASSUME NEW m \in AppModuleCoutInfo
  PROVE  NulInAppModuleCoutInfo(SerializeAppModuleCoutInfo(m)) <=> m.base_info = <<NewAppModuleBaseInfo>>
<1> DEFINE a == PutScalar(1, m.id, 0)
           b == PutScalar(2, m.run_state, 0)
           c == PutMessage(3, m.base_info, SerializeAppModuleBaseInfo)
           value == SerializeAppModuleBaseInfo(m.base_info[1])
<1>1. IsSeq(a) /\ Values(a, 3) = {}
  <2>1. \A x : IsSeq(PutScalar(1, m.id, x)) /\ Values(PutScalar(1, m.id, x), 3) = {}
    BY ValuesScalar
  <2> QED
    BY <2>1
<1>2. IsSeq(b) /\ Values(b, 3) = {}
  <2>1. \A x : IsSeq(PutScalar(2, m.run_state, x)) /\ Values(PutScalar(2, m.run_state, x), 3) = {}
    BY ValuesScalar
  <2> QED
    BY <2>1
<1>3. IsSeq(c) /\ Values(c, 3) = IF m.base_info # << >> THEN {value} ELSE {}
  <2>1. c = IF m.base_info = << >> THEN << >> ELSE <<Field(3, value)>>
    BY DEF PutMessage
  <2> HIDE DEF c, value
  <2>2. CASE m.base_info = << >>
    BY <2>1, <2>2, ValuesShort
  <2>3. CASE m.base_info # << >>
    <3>1. c = <<Field(3, value)>>
      BY <2>1, <2>3
    <3>2. IsSeq(c) /\ \A k : Values(c, k) = IF k = 3 THEN {value} ELSE {}
      BY <3>1, ValuesShort
    <3> QED
      BY <2>3, <3>2
  <2> QED
    BY <2>2, <2>3
<1>4. SerializeAppModuleCoutInfo(m) = a \o b \o c
  BY DEF SerializeAppModuleCoutInfo
<1> HIDE DEF a, b, c, value
<1>5. Values(a \o b \o c, 3)
          = Values(a, 3) \cup Values(b, 3) \cup Values(c, 3)
  BY <1>1, <1>2, <1>3, ValuesOfThree
<1>6. Values(SerializeAppModuleCoutInfo(m), 3) = IF m.base_info # << >> THEN {value} ELSE {}
  BY <1>1, <1>2, <1>3, <1>4, <1>5
<1>7. m.base_info \in Pointer(AppModuleBaseInfo)
  BY DEF AppModuleCoutInfo
<1>8. m.base_info # << >> => m.base_info[1] \in AppModuleBaseInfo /\ m.base_info = <<m.base_info[1]>>
  BY <1>7 DEF Pointer
<1> QED
  BY <1>6, <1>8, EmptyAppModuleBaseInfo DEF NulInAppModuleCoutInfo, value

\* Rows that are empty, or have an empty part.  (UserList::_InternalSerialize)
LEMMA NulOfUserList ==
  ASSUME NEW m \in UserList
  PROVE  NulInUserList(SerializeUserList(m))
           <=> \E i \in DOMAIN m.user_info :
                 m.user_info[i] = NewUserAllInfo \/ m.user_info[i].user_base_info = <<NewUserBaseInfo>>
<1> DEFINE rows == m.user_info
           put == [i \in DOMAIN rows |-> Field(1, SerializeUserAllInfo(rows[i]))]
<1>1. SerializeUserList(m) = put
  BY DEF SerializeUserList, PutRepeated
<1>2. rows \in Seq(UserAllInfo)
  BY DEF UserList
<1> HIDE DEF rows
<1>3. DOMAIN put = DOMAIN rows
      /\ \A i \in DOMAIN rows : put[i].number = 1 /\ put[i].value = SerializeUserAllInfo(rows[i])
  BY DEF Field
<1> HIDE DEF put
<1>4. \A v : v \in Values(put, 1) <=> \E i \in DOMAIN rows : v = SerializeUserAllInfo(rows[i])
  BY <1>3 DEF Values
<1>5. ASSUME NEW i \in DOMAIN rows
      PROVE  /\ SerializeUserAllInfo(rows[i]) = << >> <=> rows[i] = NewUserAllInfo
             /\ NulInUserAllInfo(SerializeUserAllInfo(rows[i])) <=> rows[i].user_base_info = <<NewUserBaseInfo>>
  <2>1. rows[i] \in UserAllInfo
    BY <1>2
  <2> QED
    BY <2>1, EmptyUserAllInfo, NulOfUserAllInfo
<1>6. NulInUserList(put)
        <=> \E i \in DOMAIN rows : SerializeUserAllInfo(rows[i]) = << >> \/ NulInUserAllInfo(SerializeUserAllInfo(rows[i]))
  BY <1>4 DEF NulInUserList
<1> QED
  BY <1>1, <1>5, <1>6 DEF rows

\* Rows that are empty, or have an empty part.  (AppModuleCoutInfoList::_InternalSerialize)
LEMMA NulOfAppModuleCoutInfoList ==
  ASSUME NEW m \in AppModuleCoutInfoList
  PROVE  NulInAppModuleCoutInfoList(SerializeAppModuleCoutInfoList(m))
           <=> \E i \in DOMAIN m.app_modules :
                 m.app_modules[i] = NewAppModuleCoutInfo \/ m.app_modules[i].base_info = <<NewAppModuleBaseInfo>>
<1> DEFINE rows == m.app_modules
           put == [i \in DOMAIN rows |-> Field(1, SerializeAppModuleCoutInfo(rows[i]))]
<1>1. SerializeAppModuleCoutInfoList(m) = put
  BY DEF SerializeAppModuleCoutInfoList, PutRepeated
<1>2. rows \in Seq(AppModuleCoutInfo)
  BY DEF AppModuleCoutInfoList
<1> HIDE DEF rows
<1>3. DOMAIN put = DOMAIN rows
      /\ \A i \in DOMAIN rows : put[i].number = 1 /\ put[i].value = SerializeAppModuleCoutInfo(rows[i])
  BY DEF Field
<1> HIDE DEF put
<1>4. \A v : v \in Values(put, 1) <=> \E i \in DOMAIN rows : v = SerializeAppModuleCoutInfo(rows[i])
  BY <1>3 DEF Values
<1>5. ASSUME NEW i \in DOMAIN rows
      PROVE  /\ SerializeAppModuleCoutInfo(rows[i]) = << >> <=> rows[i] = NewAppModuleCoutInfo
             /\ NulInAppModuleCoutInfo(SerializeAppModuleCoutInfo(rows[i])) <=> rows[i].base_info = <<NewAppModuleBaseInfo>>
  <2>1. rows[i] \in AppModuleCoutInfo
    BY <1>2
  <2> QED
    BY <2>1, EmptyAppModuleCoutInfo, NulOfAppModuleCoutInfo
<1>6. NulInAppModuleCoutInfoList(put)
        <=> \E i \in DOMAIN rows : SerializeAppModuleCoutInfo(rows[i]) = << >> \/ NulInAppModuleCoutInfo(SerializeAppModuleCoutInfo(rows[i]))
  BY <1>4 DEF NulInAppModuleCoutInfoList
<1> QED
  BY <1>1, <1>5, <1>6 DEF rows

\* A list that is set but empty, or has such rows.  (Content::_InternalSerialize)
LEMMA NulOfContent ==
  ASSUME NEW m \in Content
  PROVE  NulInContent(SerializeContent(m))
           <=> \/ /\ m.app_module_list # << >>
                  /\ \/ m.app_module_list[1] = NewAppModuleCoutInfoList
                     \/ NulInAppModuleCoutInfoList(SerializeAppModuleCoutInfoList(m.app_module_list[1]))
               \/ /\ m.user_list # << >>
                  /\ \/ m.user_list[1] = NewUserList
                     \/ NulInUserList(SerializeUserList(m.user_list[1]))
<1> DEFINE a == PutScalar(1, m.magic, 0)
           b == PutMessage(2, m.app_module_list, SerializeAppModuleCoutInfoList)
           c == PutMessage(3, m.user_list, SerializeUserList)
           modules == SerializeAppModuleCoutInfoList(m.app_module_list[1])
           users == SerializeUserList(m.user_list[1])
<1>1. IsSeq(a) /\ Values(a, 2) = {} /\ Values(a, 3) = {}
  <2>1. \A x : /\ IsSeq(PutScalar(1, m.magic, x))
               /\ Values(PutScalar(1, m.magic, x), 2) = {} /\ Values(PutScalar(1, m.magic, x), 3) = {}
    BY ValuesScalar
  <2> QED
    BY <2>1
<1>2. /\ IsSeq(b) /\ Values(b, 3) = {}
      /\ Values(b, 2) = IF m.app_module_list # << >> THEN {modules} ELSE {}
  <2>1. b = IF m.app_module_list = << >> THEN << >> ELSE <<Field(2, modules)>>
    BY DEF PutMessage
  <2> HIDE DEF b, modules
  <2>2. CASE m.app_module_list = << >>
    BY <2>1, <2>2, ValuesShort
  <2>3. CASE m.app_module_list # << >>
    <3>1. b = <<Field(2, modules)>>
      BY <2>1, <2>3
    <3>2. IsSeq(b) /\ \A k : Values(b, k) = IF k = 2 THEN {modules} ELSE {}
      BY <3>1, ValuesShort
    <3> QED
      BY <2>3, <3>2
  <2> QED
    BY <2>2, <2>3
<1>3. /\ IsSeq(c) /\ Values(c, 2) = {}
      /\ Values(c, 3) = IF m.user_list # << >> THEN {users} ELSE {}
  <2>1. c = IF m.user_list = << >> THEN << >> ELSE <<Field(3, users)>>
    BY DEF PutMessage
  <2> HIDE DEF c, users
  <2>2. CASE m.user_list = << >>
    BY <2>1, <2>2, ValuesShort
  <2>3. CASE m.user_list # << >>
    <3>1. c = <<Field(3, users)>>
      BY <2>1, <2>3
    <3>2. IsSeq(c) /\ \A k : Values(c, k) = IF k = 3 THEN {users} ELSE {}
      BY <3>1, ValuesShort
    <3> QED
      BY <2>3, <3>2
  <2> QED
    BY <2>2, <2>3
<1>4. SerializeContent(m) = a \o b \o c
  BY DEF SerializeContent
<1>5. /\ m.app_module_list # << >> => m.app_module_list[1] \in AppModuleCoutInfoList
      /\ m.user_list # << >> => m.user_list[1] \in UserList
  BY DEF Content, Pointer
<1>6. /\ m.app_module_list # << >> => (modules = << >> <=> m.app_module_list[1] = NewAppModuleCoutInfoList)
      /\ m.user_list # << >> => (users = << >> <=> m.user_list[1] = NewUserList)
  BY <1>5, EmptyAppModuleCoutInfoList, EmptyUserList
<1> DEFINE fields == SerializeContent(m)
<1> HIDE DEF a, b, c
<1>7. \A k : Values(a \o b \o c, k) = Values(a, k) \cup Values(b, k) \cup Values(c, k)
  BY <1>1, <1>2, <1>3, ValuesOfThree
<1> HIDE DEF modules, users, fields
<1>8. /\ Values(fields, 2) = IF m.app_module_list # << >> THEN {modules} ELSE {}
      /\ Values(fields, 3) = IF m.user_list # << >> THEN {users} ELSE {}
  BY <1>1, <1>2, <1>3, <1>4, <1>7 DEF fields
<1>9. NulInContent(fields)
        <=> \/ m.app_module_list # << >> /\ (modules = << >> \/ NulInAppModuleCoutInfoList(modules))
            \/ m.user_list # << >> /\ (users = << >> \/ NulInUserList(users))
  BY <1>8 DEF NulInContent
<1> QED
  BY <1>6, <1>9 DEF modules, users, fields

\* A session or a content that is set but empty, or has such parts.
\* (Body::_InternalSerialize)
LEMMA NulOfBody ==
  ASSUME NEW m \in Body
  PROVE  NulInBody(SerializeBody(m))
           <=> \/ /\ m.user_session # << >>
                  /\ \/ m.user_session[1] = NewUserSessionMsg
                     \/ m.user_session[1].user = <<NewUserBaseInfo>>
               \/ /\ m.content # << >>
                  /\ \/ m.content[1] = NewContent
                     \/ NulInContent(SerializeContent(m.content[1]))
<1> DEFINE a == PutMessage(1, m.user_session, SerializeUserSessionMsg)
           b == PutScalar(2, m.url, "")
           c == PutScalar(3, m.method, 0)
           d == PutMessage(5, m.content, SerializeContent)
           session == SerializeUserSessionMsg(m.user_session[1])
           content == SerializeContent(m.content[1])
<1>1. /\ IsSeq(a) /\ Values(a, 5) = {}
      /\ Values(a, 1) = IF m.user_session # << >> THEN {session} ELSE {}
  <2>1. a = IF m.user_session = << >> THEN << >> ELSE <<Field(1, session)>>
    BY DEF PutMessage
  <2> HIDE DEF a, session
  <2>2. CASE m.user_session = << >>
    BY <2>1, <2>2, ValuesShort
  <2>3. CASE m.user_session # << >>
    <3>1. a = <<Field(1, session)>>
      BY <2>1, <2>3
    <3>2. IsSeq(a) /\ \A k : Values(a, k) = IF k = 1 THEN {session} ELSE {}
      BY <3>1, ValuesShort
    <3> QED
      BY <2>3, <3>2
  <2> QED
    BY <2>2, <2>3
<1>2. IsSeq(b) /\ Values(b, 1) = {} /\ Values(b, 5) = {}
  <2>1. \A x : /\ IsSeq(PutScalar(2, m.url, x))
               /\ Values(PutScalar(2, m.url, x), 1) = {} /\ Values(PutScalar(2, m.url, x), 5) = {}
    BY ValuesScalar
  <2> QED
    BY <2>1
<1>3. IsSeq(c) /\ Values(c, 1) = {} /\ Values(c, 5) = {}
  <2>1. \A x : /\ IsSeq(PutScalar(3, m.method, x))
               /\ Values(PutScalar(3, m.method, x), 1) = {} /\ Values(PutScalar(3, m.method, x), 5) = {}
    BY ValuesScalar
  <2> QED
    BY <2>1
<1>4. /\ IsSeq(d) /\ Values(d, 1) = {}
      /\ Values(d, 5) = IF m.content # << >> THEN {content} ELSE {}
  <2>1. d = IF m.content = << >> THEN << >> ELSE <<Field(5, content)>>
    BY DEF PutMessage
  <2> HIDE DEF d, content
  <2>2. CASE m.content = << >>
    BY <2>1, <2>2, ValuesShort
  <2>3. CASE m.content # << >>
    <3>1. d = <<Field(5, content)>>
      BY <2>1, <2>3
    <3>2. IsSeq(d) /\ \A k : Values(d, k) = IF k = 5 THEN {content} ELSE {}
      BY <3>1, ValuesShort
    <3> QED
      BY <2>3, <3>2
  <2> QED
    BY <2>2, <2>3
<1>5. SerializeBody(m) = a \o b \o c \o d
  BY DEF SerializeBody
<1>6. /\ m.user_session # << >> => m.user_session[1] \in UserSessionMsg
      /\ m.content # << >> => m.content[1] \in Content
  BY DEF Body, Pointer
<1>7. /\ m.user_session # << >> => (session = << >> <=> m.user_session[1] = NewUserSessionMsg)
      /\ m.user_session # << >> => (NulInUserSessionMsg(session) <=> m.user_session[1].user = <<NewUserBaseInfo>>)
      /\ m.content # << >> => (content = << >> <=> m.content[1] = NewContent)
  BY <1>6, EmptyUserSessionMsg, EmptyContent, NulOfUserSessionMsg
<1> DEFINE fields == SerializeBody(m)
<1> HIDE DEF a, b, c, d
<1>8. \A k : Values(a \o b \o c \o d, k)
               = Values(a, k) \cup Values(b, k) \cup Values(c, k) \cup Values(d, k)
  BY <1>1, <1>2, <1>3, <1>4, ValuesOfFour
<1> HIDE DEF session, content, fields
<1>9. /\ Values(fields, 1) = IF m.user_session # << >> THEN {session} ELSE {}
      /\ Values(fields, 5) = IF m.content # << >> THEN {content} ELSE {}
  BY <1>1, <1>2, <1>3, <1>4, <1>5, <1>8 DEF fields
<1>10. NulInBody(fields)
         <=> \/ m.user_session # << >> /\ (session = << >> \/ NulInUserSessionMsg(session))
             \/ m.content # << >> /\ (content = << >> \/ NulInContent(content))
  BY <1>9 DEF NulInBody
<1> QED
  BY <1>7, <1>10 DEF session, content, fields

\* No zero byte is in a header whose parts are set and not empty.
\* (Header::_InternalSerialize)
LEMMA NulOfHeader ==
  ASSUME NEW m \in Header,
         m.time # << >>, m.time[1] # NewDataTime, m.host # << >>, m.host[1] # NewHost,
         m.dest # << >>, m.dest[1] # NewHost
  PROVE  ~NulInHeader(SerializeHeader(m))
<1> DEFINE a == PutScalar(1, m.msg_magic, 0)
           b == PutScalar(2, m.version, 0)
           c == PutScalar(3, m.pack_id, 0)
           d == PutMessage(4, m.time, SerializeDataTime)
           e == PutScalar(5, m.data_dir, 0)
           f == PutMessage(6, m.host, SerializeHost)
           g == PutMessage(7, m.dest, SerializeHost)
           h == PutScalar(8, m.trans_proto, 0)
           fields == SerializeHeader(m)
           Holds(s) == IsSeq(s) /\ \A k \in {4, 6, 7} : << >> \notin Values(s, k)
<1>1. ASSUME NEW n, NEW value, NEW x, n \notin {4, 6, 7} PROVE Holds(PutScalar(n, value, x))
  BY <1>1, ValuesScalar
<1> HIDE DEF Holds
<1>2. m.time[1] \in DataTime /\ m.host[1] \in Host /\ m.dest[1] \in Host
  BY DEF Header, Pointer
<1>3. SerializeDataTime(m.time[1]) # << >> /\ SerializeHost(m.host[1]) # << >> /\ SerializeHost(m.dest[1]) # << >>
  BY <1>2, EmptyDataTime, EmptyHost
<1>4. Holds(a)
  BY <1>1
<1>5. Holds(b)
  BY <1>1
<1>6. Holds(c)
  BY <1>1
<1>7. Holds(d)
  <2> DEFINE value == SerializeDataTime(m.time[1])
  <2>1. d = <<Field(4, value)>>
    BY DEF PutMessage
  <2> HIDE DEF d, value
  <2>2. IsSeq(d) /\ \A number : Values(d, number) = IF number = 4 THEN {value} ELSE {}
    BY <2>1, ValuesShort
  <2> QED
    BY <1>3, <2>2 DEF value, Holds
<1>8. Holds(e)
  BY <1>1
<1>9. Holds(f)
  <2> DEFINE value == SerializeHost(m.host[1])
  <2>1. f = <<Field(6, value)>>
    BY DEF PutMessage
  <2> HIDE DEF f, value
  <2>2. IsSeq(f) /\ \A number : Values(f, number) = IF number = 6 THEN {value} ELSE {}
    BY <2>1, ValuesShort
  <2> QED
    BY <1>3, <2>2 DEF value, Holds
<1>10. Holds(g)
  <2> DEFINE value == SerializeHost(m.dest[1])
  <2>1. g = <<Field(7, value)>>
    BY DEF PutMessage
  <2> HIDE DEF g, value
  <2>2. IsSeq(g) /\ \A number : Values(g, number) = IF number = 7 THEN {value} ELSE {}
    BY <2>1, ValuesShort
  <2> QED
    BY <1>3, <2>2 DEF value, Holds
<1>11. Holds(h)
  BY <1>1
<1>12. fields = a \o b \o c \o d \o e \o f \o g \o h
  BY DEF SerializeHeader
<1> HIDE DEF a, b, c, d, e, f, g, h, fields
<1>13. ASSUME NEW s, NEW t, Holds(s), Holds(t) PROVE Holds(s \o t)
  BY <1>13, ValuesConcat DEF Holds
<1>14. Holds(a \o b \o c \o d)
  BY <1>4, <1>5, <1>6, <1>7, <1>13
<1>15. Holds(a \o b \o c \o d \o e \o f \o g \o h)
  BY <1>8, <1>9, <1>10, <1>11, <1>13, <1>14
<1> QED
  BY <1>12, <1>15 DEF NulInHeader, Holds, fields

\* A zero byte is in a message of such a header and a body where it is in the body.
\* (Sdk::_InternalSerialize)
LEMMA NulOfSdk ==
  ASSUME NEW header \in Header, NEW body \in Body,
         header.time # << >>, header.time[1] # NewDataTime, header.host # << >>,
         header.host[1] # NewHost, header.dest # << >>, header.dest[1] # NewHost
  PROVE  LET fields == <<Field(1, SerializeHeader(header)), Field(2, SerializeBody(body))>>
         IN  NulInSdk(fields) <=> body = NewBody \/ NulInBody(SerializeBody(body))
<1> DEFINE f1 == Field(1, SerializeHeader(header))
           f2 == Field(2, SerializeBody(body))
           fields == <<f1, f2>>
<1>1. header # NewHeader
  BY DEF NewHeader
<1>2. SerializeHeader(header) # << >> /\ ~NulInHeader(SerializeHeader(header))
  BY <1>1, EmptyHeader, NulOfHeader
<1>3. SerializeBody(body) = << >> <=> body = NewBody
  BY EmptyBody
<1>4. /\ f1.number = 1 /\ f1.value = SerializeHeader(header)
      /\ f2.number = 2 /\ f2.value = SerializeBody(body)
  BY DEF Field
<1> HIDE DEF f1, f2
<1>5. DOMAIN fields = {1, 2} /\ fields[1] = f1 /\ fields[2] = f2
  OBVIOUS
<1> HIDE DEF fields
<1>6. \A k, v : v \in Values(fields, k) <=> \E i \in DOMAIN fields : fields[i].number = k /\ fields[i].value = v
  BY DEF Values
<1>7. /\ \A v : v \in Values(fields, 1) <=> v = SerializeHeader(header)
      /\ \A v : v \in Values(fields, 2) <=> v = SerializeBody(body)
      /\ \A v : v \notin Values(fields, 3)
  BY <1>4, <1>5, <1>6
<1>8. NulInSdk(fields) <=> body = NewBody \/ NulInBody(SerializeBody(body))
  BY <1>2, <1>3, <1>7 DEF NulInSdk
<1> QED
  BY <1>8 DEF fields, f1, f2
====
