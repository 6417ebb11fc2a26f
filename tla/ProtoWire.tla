------------------------------- MODULE ProtoWire -------------------------------
(***************************************************************************)
(* What the generated message classes (core/base/sdk_protocol/in_sdk*.pb)  *)
(* use of the protobuf library: fields on the wire and the loop that takes *)
(* them one after the other.                                               *)
(*                                                                         *)
(* A message on the wire is a sequence of fields, each a number and a      *)
(* value; the value of a sub-message is a sequence of fields again.  In    *)
(* memory it is a record.  A pointer to a sub-message is an empty sequence *)
(* (nullptr) or one of length 1.                                           *)
(***************************************************************************)
EXTENDS Naturals, Sequences

Field(number, value) == [number |-> number, value |-> value]

\* A pointer to a sub-message of this type.
Pointer(type) == {s \in Seq(type) : Len(s) <= 1}

\* What is read through a pointer: the default instance when there is none.
Deref(pointer, new) == IF pointer = << >> THEN new ELSE pointer[1]

\* The loop of _InternalParse: into m, one field after the other.  (FoldLeft,
\* without its search for the next element, which TLC would repeat for each.)
TakeFields(Take(_, _), m, fields) ==
  LET taken[i \in 0 .. Len(fields)] == IF i = 0 THEN m ELSE Take(taken[i - 1], fields[i])
  IN  taken[Len(fields)]

\* What the fields of this number hold.
Values(fields, number) == {fields[i].value : i \in {j \in DOMAIN fields : fields[j].number = number}}

-----------------------------------------------------------------------------
(* Messages of numbers, strings and flags only.  names lists the fields in *)
(* the order of their numbers, which are 1, 2, ...                         *)

\* A field that is not known is put aside.
TakeScalar(m, field, names) ==
  IF field.number \in DOMAIN names
  THEN [m EXCEPT ![names[field.number]] = field.value] ELSE m

TakeScalars(m, fields, names) ==
  TakeFields(LAMBDA n, field : TakeScalar(n, field, names), m, fields)

\* A default is not transmitted.
PutScalar(number, value, default) ==
  IF value = default THEN << >> ELSE <<Field(number, value)>>

\* A default does not replace what is there.
MergeScalar(to, from, default) == IF from = default THEN to ELSE from

MergeScalars(to, from, new) == [name \in DOMAIN new |-> MergeScalar(to[name], from[name], new[name])]

-----------------------------------------------------------------------------
(* Sub-messages: ParseMessage(mutable_...()), InternalWriteMessageToArray. *)

TakeMessage(pointer, field, Parse(_, _), new) ==
  <<Parse(Deref(pointer, new), field.value)>>

PutMessage(number, pointer, Serialize(_)) ==
  IF pointer = << >> THEN << >> ELSE <<Field(number, Serialize(pointer[1]))>>

MergeMessage(to, from, Merge(_, _), new) ==
  IF from = << >> THEN to ELSE <<Merge(Deref(to, new), from[1])>>

TakeRepeated(messages, field, Parse(_, _), new) == Append(messages, Parse(new, field.value))

PutRepeated(number, messages, Serialize(_)) ==
  [i \in DOMAIN messages |-> Field(number, Serialize(messages[i]))]
=============================================================================
