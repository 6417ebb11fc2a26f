\* A client that waits and one whose messages may be cut and joined anywhere.
\* Sessions: login and a type nobody serves; methods: GET, which
\* has a route, and one above DELETE.
SPECIFICATION Spec
CONSTANTS
  Sessions = {0, 4}
  Urls <- MCUrls
  Methods = {1, 16}
  Routes <- MCRoutes
  IllegalUrls = {"/a.b"}
  MaxSent = 3
INVARIANTS AnswersInOrder WaitingIsUnmixed WaitingIsAnswered
PROPERTIES RefusedIsNotRun
\* The client stops after MaxSent requests.
CHECK_DEADLOCK FALSE
