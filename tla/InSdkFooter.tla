------------------------------ MODULE InSdkFooter ------------------------------
(***************************************************************************)
(* The messages of in_sdk_footer.proto, the results of a request, as       *)
(* in_sdk_footer.pb has them.  The operators are those of InSdkHeader.     *)
(***************************************************************************)
EXTENDS ProtoWire

SdkResult == [status_code : Nat, code : STRING]
NewSdkResult == [status_code |-> 0, code |-> ""]
SdkResultFields == <<"status_code", "code">>
ParseSdkResult(m, fields) == TakeScalars(m, fields, SdkResultFields)
SerializeSdkResult(m) ==
  PutScalar(1, m.status_code, 0) \o PutScalar(2, m.code, "")
MergeSdkResult(to, from) == MergeScalars(to, from, NewSdkResult)

ContentResult == [status_code : Nat, code : STRING]
NewContentResult == [status_code |-> 0, code |-> ""]
ContentResultFields == <<"status_code", "code">>
ParseContentResult(m, fields) == TakeScalars(m, fields, ContentResultFields)
SerializeContentResult(m) ==
  PutScalar(1, m.status_code, 0) \o PutScalar(2, m.code, "")
MergeContentResult(to, from) == MergeScalars(to, from, NewContentResult)

Result == [sdk_result : Pointer(SdkResult), content_result : Pointer(ContentResult)]
NewResult == [sdk_result |-> << >>, content_result |-> << >>]

TakeResult(m, field) ==
  CASE field.number = 1 ->
         [m EXCEPT !.sdk_result = TakeMessage(@, field, ParseSdkResult, NewSdkResult)]
    [] field.number = 2 ->
         [m EXCEPT !.content_result = TakeMessage(@, field, ParseContentResult, NewContentResult)]
    [] OTHER -> m

ParseResult(m, fields) == TakeFields(TakeResult, m, fields)

SerializeResult(m) ==
  PutMessage(1, m.sdk_result, SerializeSdkResult)
  \o PutMessage(2, m.content_result, SerializeContentResult)

NulInResult(fields) == \E number \in {1, 2} : << >> \in Values(fields, number)

MergeResult(to, from) ==
  [sdk_result |-> MergeMessage(to.sdk_result, from.sdk_result, MergeSdkResult, NewSdkResult),
   content_result |->
     MergeMessage(to.content_result, from.content_result, MergeContentResult, NewContentResult)]

Footer == [res : Nat, result : Pointer(Result)]
NewFooter == [res |-> 0, result |-> << >>]

TakeFooter(m, field) ==
  IF field.number = 2 THEN [m EXCEPT !.result = TakeMessage(@, field, ParseResult, NewResult)]
  ELSE TakeScalar(m, field, <<"res">>)

ParseFooter(m, fields) == TakeFields(TakeFooter, m, fields)
SerializeFooter(m) == PutScalar(1, m.res, 0) \o PutMessage(2, m.result, SerializeResult)
NulInFooter(fields) == \E value \in Values(fields, 2) : value = << >> \/ NulInResult(value)
MergeFooter(to, from) ==
  [res |-> MergeScalar(to.res, from.res, 0),
   result |-> MergeMessage(to.result, from.result, MergeResult, NewResult)]
=============================================================================
