----------------------------- MODULE TokenLease -----------------------------
(***************************************************************************)
(* What the session table promises its clients, without its vector, its    *)
(* timer or its lock: a user holds at most one token, a token is issued    *)
(* once, to one user, and a token that has ended never comes back.         *)
(***************************************************************************)
CONSTANTS Users, Tokens, NoToken

VARIABLES
  holds,    \* the token each user holds, or NoToken
  used      \* every token ever issued

vars == <<holds, used>>

Init == holds = [u \in Users |-> NoToken] /\ used = {}

\* A user without a token gets a new one.
Grant(u, t) ==
  /\ holds[u] = NoToken
  /\ t \notin used
  /\ holds' = [holds EXCEPT ![u] = t]
  /\ used' = used \cup {t}

\* Some users lose their tokens: one logs out, or time runs out for several.
Finish(ended) ==
  /\ holds' = [u \in Users |-> IF u \in ended THEN NoToken ELSE holds[u]]
  /\ UNCHANGED used

Next ==
  \/ \E u \in Users, t \in Tokens : Grant(u, t)
  \/ \E ended \in SUBSET Users : Finish(ended)

Spec == Init /\ [][Next]_vars
=============================================================================
