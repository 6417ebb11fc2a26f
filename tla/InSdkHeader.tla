------------------------------ MODULE InSdkHeader ------------------------------
(***************************************************************************)
(* The messages of in_sdk_header.proto, as in_sdk_header.pb has them.  For *)
(* each message: its values, a cleared one, parsing into one that may      *)
(* already hold something, serialising, and merging another one in.  Of a  *)
(* message with parts that are messages also whether a zero byte is in it. *)
(* Numbers, lengths and tags are varints, and no zero is written: the only *)
(* zero byte is the length of a part that holds nothing.  (Texts are taken *)
(* to have no NUL.)                                                        *)
(***************************************************************************)
EXTENDS ProtoWire

Host == [ip_version : Nat, port : Nat, ip : STRING]
NewHost == [ip_version |-> 0, port |-> 0, ip |-> ""]
HostFields == <<"ip_version", "port", "ip">>
ParseHost(m, fields) == TakeScalars(m, fields, HostFields)
SerializeHost(m) ==
  PutScalar(1, m.ip_version, 0) \o PutScalar(2, m.port, 0) \o PutScalar(3, m.ip, "")
MergeHost(to, from) == MergeScalars(to, from, NewHost)

DataTime == [in_time : Nat, out_time : Nat]
NewDataTime == [in_time |-> 0, out_time |-> 0]
DataTimeFields == <<"in_time", "out_time">>
ParseDataTime(m, fields) == TakeScalars(m, fields, DataTimeFields)
SerializeDataTime(m) ==
  PutScalar(1, m.in_time, 0) \o PutScalar(2, m.out_time, 0)
MergeDataTime(to, from) == MergeScalars(to, from, NewDataTime)

Header ==
  [msg_magic : Nat, version : Nat, pack_id : Nat, time : Pointer(DataTime), data_dir : Nat,
   host : Pointer(Host), dest : Pointer(Host), trans_proto : Nat]

NewHeader ==
  [msg_magic |-> 0, version |-> 0, pack_id |-> 0, time |-> << >>, data_dir |-> 0,
   host |-> << >>, dest |-> << >>, trans_proto |-> 0]

HeaderFields ==
  <<"msg_magic", "version", "pack_id", "time", "data_dir", "host", "dest", "trans_proto">>

TakeHeader(m, field) ==
  CASE field.number = 4 -> [m EXCEPT !.time = TakeMessage(@, field, ParseDataTime, NewDataTime)]
    [] field.number = 6 -> [m EXCEPT !.host = TakeMessage(@, field, ParseHost, NewHost)]
    [] field.number = 7 -> [m EXCEPT !.dest = TakeMessage(@, field, ParseHost, NewHost)]
    [] OTHER -> TakeScalar(m, field, HeaderFields)

ParseHeader(m, fields) == TakeFields(TakeHeader, m, fields)

SerializeHeader(m) ==
  PutScalar(1, m.msg_magic, 0) \o PutScalar(2, m.version, 0) \o PutScalar(3, m.pack_id, 0)
  \o PutMessage(4, m.time, SerializeDataTime) \o PutScalar(5, m.data_dir, 0)
  \o PutMessage(6, m.host, SerializeHost) \o PutMessage(7, m.dest, SerializeHost)
  \o PutScalar(8, m.trans_proto, 0)

NulInHeader(fields) == \E number \in {4, 6, 7} : << >> \in Values(fields, number)

MergeHeader(to, from) ==
  [MergeScalars(to, from, NewHeader) EXCEPT
     !.time = MergeMessage(to.time, from.time, MergeDataTime, NewDataTime),
     !.host = MergeMessage(to.host, from.host, MergeHost, NewHost),
     !.dest = MergeMessage(to.dest, from.dest, MergeHost, NewHost)]
=============================================================================
