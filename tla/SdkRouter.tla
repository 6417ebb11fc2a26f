------------------------------ MODULE SdkRouter ------------------------------
(***************************************************************************)
(* The routing tree (sdk_router.cpp).  Static initialisers append routers, *)
(* which are trees themselves, to the root; a lookup matches a prefix of   *)
(* the url with a node and the rest with the node's children, depth first. *)
(*                                                                         *)
(* A url is a sequence of pieces: what matters is which url is a prefix of *)
(* which.  Urls of nodes are taken literally, without the operators of     *)
(* regular expressions.                                                    *)
(***************************************************************************)
EXTENDS Naturals, SequencesExt

CONSTANTS
  Declared,    \* the routers sdk_router.cpp registers, in the order of the file
  Depth,       \* bound: levels of the whole tree, the root's included
  Queries      \* the urls that are looked up

GET == 1
POST == 2
Methods == {GET, POST}
NoFun == "nullptr"

\* A node: its url, its fun_, the methods it supports, its children.
Node(url, fun, methods, next) == [url |-> url, fun |-> fun, methods |-> methods, next |-> next]

\* The trees of so many levels at most.  A node is given its children when it
\* is made: there are no cycles.
Trees[levels \in 0 .. Depth] ==
  IF levels = 0 THEN {}
  ELSE [url : Seq(STRING), fun : STRING, methods : SUBSET Nat, next : Seq(Trees[levels - 1])]

ASSUME RouterAssumption ==
  /\ Depth \in Nat /\ Depth >= 3
  /\ Declared \in Seq(Trees[Depth - 1])
  /\ Queries \subseteq Seq(STRING)

\* The texts of this module are strings, which no prover knows of a literal.
ASSUME RouterTexts == {"/", "slash", "root", NoFun} \subseteq STRING

Routers == ToSet(Declared)

VARIABLE registered   \* the routers appended to root_router so far

RouterInit == registered = << >>

\* root_router: the initializer list makes "" -> "/" a child of a root that
\* has no handler; registered routers come after it.
RootRouter(routers) ==
  Node(<< >>, NoFun, {GET},
       <<Node(<< >>, "root", {GET}, <<Node(<<"/">>, "slash", {GET}, << >>)>>)>> \o routers)

-----------------------------------------------------------------------------
Rest(url, prefix) == SubSeq(url, Len(prefix) + 1, Len(url))

\* router_lookup, what a node answers to a url and a method; a null handler
\* is NoFun.
RouterLookup[node \in Trees[Depth]] ==
  [url \in Seq(STRING) |-> [method \in Nat |->
     IF ~IsPrefix(node.url, url) THEN NoFun
     ELSE IF url = node.url THEN (IF method \in node.methods THEN node.fun ELSE NoFun)
     ELSE LET rest == Rest(url, node.url)
              found == {i \in DOMAIN node.next : RouterLookup[node.next[i]][rest][method] # NoFun}
          IN  IF found = {} THEN NoFun ELSE RouterLookup[node.next[Min(found)]][rest][method]]]

\* Mutant: the loop goes on after a child that answers, and the last one counts.
LastFound[node \in Trees[Depth]] ==
  [url \in Seq(STRING) |-> [method \in Nat |->
     IF ~IsPrefix(node.url, url) THEN NoFun
     ELSE IF url = node.url THEN (IF method \in node.methods THEN node.fun ELSE NoFun)
     ELSE LET rest == Rest(url, node.url)
              found == {i \in DOMAIN node.next : LastFound[node.next[i]][rest][method] # NoFun}
          IN  IF found = {} THEN NoFun ELSE LastFound[node.next[Max(found)]][rest][method]]]

SdkRouterLookup_LastWins(routers, url, method) ==   \* mutant
  LastFound[RootRouter(routers)][url][method]

SdkRouterLookup(routers, url, method) == RouterLookup[RootRouter(routers)][url][method]

Register_Front(router) == registered' = <<router>> \o registered   \* mutant

\* register_router, append.
Register(router) == registered' = Append(registered, router)

\* The static initialisers of the file run in the order they are written in:
\* the root, of which RouterInit has the outcome, then router after router.
StaticInit ==
  /\ Len(registered) < Len(Declared)
  /\ Register(Declared[Len(registered) + 1])

-----------------------------------------------------------------------------
(* The reference: all nodes of a tree with their whole urls, and where they *)
(* are: the way down from the root, a child's index on each level.          *)

\* A row of a child, seen from its parent.
Below(node, i, row) == [row EXCEPT !.at = <<i>> \o @, !.url = node.url \o @]

\* A node with its parent's url answers to nothing: the parent does.
Rows[node \in Trees[Depth]] ==
  {[at |-> << >>, url |-> node.url, fun |-> node.fun, methods |-> node.methods]}
  \cup UNION {{Below(node, i, row) : row \in {r \in Rows[node.next[i]] : r.url # << >>}} :
                i \in DOMAIN node.next}

\* Depth first: a node before those below it, these before its later siblings.
Before(p, q) ==
  \E k \in 1 .. Len(q) :
    /\ Len(p) >= k - 1
    /\ \A j \in 1 .. k - 1 : p[j] = q[j]
    /\ Len(p) >= k => p[k] < q[k]

Hits(node, url, method) ==
  {row \in Rows[node] : row.url = url /\ method \in row.methods /\ row.fun # NoFun}

\* What the first of these rows has; a null handler when there is none.
FirstFun(rows, fun) ==
  \/ rows = {} /\ fun = NoFun
  \/ \E row \in rows : fun = row.fun /\ \A other \in rows \ {row} : Before(row.at, other.at)

\* Whatever trees are registered, with paths that are prefixes of one another
\* and the same url for several methods, a lookup gives the first node of the
\* tree that has that url and supports the method, whatever the nodes on the
\* way to it support.  (router_lookup)
RouterIsTable ==
  \A url \in Queries, method \in Methods :
    FirstFun(Hits(RootRouter(registered), url, method),
             SdkRouterLookup(registered, url, method))

\* A registration never takes over a url: "以先查找到的为准(先添加)", the
\* first added counts (sdk_net/doc/readme.md:449).  (register_router)
FirstAddedWins ==
  [][\A url \in Queries, method \in Methods :
       LET fun == SdkRouterLookup(registered, url, method)
       IN  fun # NoFun => SdkRouterLookup(registered', url, method) = fun]_registered
=============================================================================
