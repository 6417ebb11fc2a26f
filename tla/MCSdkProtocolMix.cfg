\* Two requests and reads that end between the fields.
SPECIFICATION Spec
CONSTANTS
  Sessions = {2}
  Urls <- MCUrls
  Methods = {1, 16}
  Routes <- MCRoutes
  IllegalUrls = {"/a.b"}
  MaxSent = 2
INVARIANTS AnswerIsForItsRequest
\* The client stops after MaxSent requests.
CHECK_DEADLOCK FALSE
