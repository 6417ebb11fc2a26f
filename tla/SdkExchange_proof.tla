-------------------------- MODULE SdkExchange_proof ---------------------------
(***************************************************************************)
(* Proofs about SdkExchange and the router it extends.  The first part is  *)
(* about SdkRouter, for trees of any shape: what a lookup does to a tree   *)
(* follows by induction on the levels, after the recursive functions       *)
(* Trees, RouterLookup and Rows have been shown to exist.  The second part *)
(* is about the exchange, whatever the clients send, whatever routers have *)
(* been added and wherever the bytes are cut; what it needs of the         *)
(* messages is in InSdk_proof.                                             *)
(***************************************************************************)
EXTENDS SdkExchange, InSdk_proof, TLAPS, SequenceTheorems, WellFoundedInduction

-----------------------------------------------------------------------------
(* The router.                                                             *)

\* Induction on the natural numbers, with the induction hypothesis as a set.
LEMMA NatSetInduction ==
  ASSUME NEW S \in SUBSET Nat, 0 \in S, \A n \in S : n + 1 \in S
  PROVE  \A n \in Nat : n \in S
<1> SUFFICES ASSUME Nat \ S # {} PROVE FALSE
  OBVIOUS
<1> DEFINE R == {pair \in Nat \X Nat : pair[1] < pair[2]}
<1>1. IsWellFoundedOn(R, Nat)
  BY NatLessThanWellFounded DEF OpToRel
<1> HIDE DEF R
<1>2. PICK m \in Nat \ S : \A y \in Nat \ S : ~(<<y, m>> \in R)
  BY <1>1, WFMin
<1>3. \A y \in Nat \ S : ~(y < m)
  BY <1>2 DEF R
<1>4. m # 0 /\ m - 1 \in Nat
  BY <1>2
<1>5. m - 1 \in S
  BY <1>2, <1>3, <1>4
<1>6. (m - 1) + 1 \in S
  BY <1>5
<1> QED
  BY <1>2, <1>4, <1>6

\* A set of indices that is not empty has a least one.
LEMMA LeastIndex ==
  ASSUME NEW S \in SUBSET Nat, S # {}
  PROVE  Min(S) \in S /\ \A y \in S : Min(S) <= y
<1> DEFINE R == {pair \in Nat \X Nat : pair[1] < pair[2]}
<1>1. IsWellFoundedOn(R, Nat)
  BY NatLessThanWellFounded DEF OpToRel
<1> HIDE DEF R
<1>2. PICK m \in S : \A y \in S : ~(<<y, m>> \in R)
  BY <1>1, WFMin
<1>3. \A y \in S : m <= y
  <2> SUFFICES ASSUME NEW y \in S PROVE m <= y
    OBVIOUS
  <2>1. y \in Nat /\ m \in Nat
    OBVIOUS
  <2>2. ~(<<y, m>> \in R)
    BY <1>2
  <2> QED
    BY <2>1, <2>2 DEF R
<1> QED
  BY <1>2, <1>3 DEF Min

-----------------------------------------------------------------------------
(* Trees.                                                                  *)

TreeOver(children) ==
  [url : Seq(STRING), fun : STRING, methods : SUBSET Nat, next : Seq(children)]

\* Trees satisfies its equation.
LEMMA TreesDef ==
  Trees = [levels \in 0 .. Depth |-> IF levels = 0 THEN {} ELSE TreeOver(Trees[levels - 1])]
<1> DEFINE Part(g, n) == g = [l \in 0 .. n |-> IF l = 0 THEN {} ELSE TreeOver(g[l - 1])]
           S == {n \in Nat : \E g : Part(g, n)}
<1>1. 0 \in S
  <2>1. Part([l \in 0 .. 0 |-> {}], 0)
    OBVIOUS
  <2> QED
    BY <2>1
<1>2. ASSUME NEW n \in S PROVE n + 1 \in S
  <2>1. PICK g : Part(g, n)
    BY <1>2
  <2>2. n \in Nat
    OBVIOUS
  <2>3. \A l \in 0 .. n : g[l] = IF l = 0 THEN {} ELSE TreeOver(g[l - 1])
    BY <2>1
  <2> DEFINE h == [l \in 0 .. n + 1 |-> IF l <= n THEN g[l] ELSE TreeOver(g[n])]
  <2> HIDE DEF S, Part
  <2>4. ASSUME NEW l \in 0 .. n + 1
        PROVE  h[l] = IF l = 0 THEN {} ELSE TreeOver(h[l - 1])
    <3>1. CASE l = 0
      BY <2>2, <2>3, <3>1
    <3>2. CASE l # 0 /\ l <= n
      BY <2>2, <2>3, <3>2
    <3>3. CASE l = n + 1
      BY <2>2, <3>3
    <3> QED
      BY <2>2, <3>1, <3>2, <3>3
  <2>5. h = [l \in 0 .. n + 1 |-> h[l]]
    OBVIOUS
  <2> HIDE DEF h
  <2>6. Part(h, n + 1)
    BY <2>4, <2>5 DEF Part
  <2> QED
    BY <2>2, <2>6 DEF S
<1>3. \E g : Part(g, Depth)
  <2> HIDE DEF Part
  <2>1. S \subseteq Nat
    OBVIOUS
  <2> HIDE DEF S
  <2>2. Depth \in S
    BY <1>1, <1>2, <2>1, NatSetInduction, RouterAssumption
  <2> QED
    BY <2>2 DEF S
<1>4. Trees = CHOOSE g : Part(g, Depth)
  BY DEF Trees, TreeOver
<1> HIDE DEF Part
<1>5. Part(Trees, Depth)
  BY <1>3, <1>4
<1> QED
  BY <1>5 DEF Part

\* Its equation level by level.
LEMMA TreesAt == Trees[0] = {} /\ \A n \in 1 .. Depth : Trees[n] = TreeOver(Trees[n - 1])
<1> DEFINE T == [levels \in 0 .. Depth |-> IF levels = 0 THEN {} ELSE TreeOver(Trees[levels - 1])]
<1>1. T[0] = {} /\ \A n \in 1 .. Depth : T[n] = TreeOver(Trees[n - 1])
  BY RouterAssumption
<1>2. T = Trees
  BY TreesDef
<1> HIDE DEF T
<1> QED
  BY <1>1, <1>2

\* More trees of fewer levels, more trees.
LEMMA TreeOverGrows ==
  ASSUME NEW A, NEW B, A \subseteq B
  PROVE  TreeOver(A) \subseteq TreeOver(B)
<1>1. Seq(A) \subseteq Seq(B)
  BY SeqMonotonic
<1> QED
  BY <1>1 DEF TreeOver

\* A tree of so many levels is also one of more; its children have fewer.
LEMMA TreesGrow ==
  \A n \in 0 .. Depth : \A k \in 0 .. n : Trees[k] \subseteq Trees[n]
<1> DEFINE S == {n \in Nat : n > Depth \/ \A k \in 0 .. n : Trees[k] \subseteq Trees[n]}
<1>1. 0 \in S
  OBVIOUS
<1>2. ASSUME NEW n \in S PROVE n + 1 \in S
  <2>1. CASE n + 1 > Depth
    BY <2>1
  <2>2. CASE n + 1 <= Depth
    <3>1. n \in Nat /\ \A k \in 0 .. n : Trees[k] \subseteq Trees[n]
      BY <2>2, RouterAssumption
    <3>2. Trees[n] \subseteq Trees[n + 1]
      <4>1. CASE n = 0
        BY <4>1, TreesAt
      <4>2. CASE n # 0
        <5>1. Trees[n] = TreeOver(Trees[n - 1]) /\ Trees[n + 1] = TreeOver(Trees[n])
          <6>1. n \in 1 .. Depth /\ n + 1 \in 1 .. Depth /\ (n + 1) - 1 = n
            BY <2>2, <3>1, <4>2, RouterAssumption
          <6> QED
            BY <6>1, TreesAt
        <5>2. Trees[n - 1] \subseteq Trees[n]
          BY <3>1, <4>2
        <5> QED
          BY <5>1, <5>2, TreeOverGrows
      <4> QED
        BY <4>1, <4>2
    <3> QED
      BY <3>1, <3>2
  <2> QED
    BY <2>1, <2>2, RouterAssumption
<1>3. S \subseteq Nat
  OBVIOUS
<1>4. \A n \in Nat : n \in S
  <2> HIDE DEF S
  <2> QED
    BY <1>1, <1>2, <1>3, NatSetInduction
<1> QED
  BY <1>4, RouterAssumption

\* What a node is made of, and where its children are.
LEMMA NodeType ==
  ASSUME NEW n \in 1 .. Depth, NEW node \in Trees[n]
  PROVE  /\ n - 1 \in 0 .. Depth
         /\ node \in TreeOver(Trees[n - 1]) /\ node \in Trees[Depth]
         /\ node.url \in Seq(STRING)
         /\ DOMAIN node.next \subseteq Nat
         /\ \A i \in DOMAIN node.next : node.next[i] \in Trees[n - 1] /\ node.next[i] \in Trees[Depth]
<1>1. n - 1 \in 0 .. Depth /\ n # 0
  BY RouterAssumption
<1>2. node \in TreeOver(Trees[n - 1])
  BY TreesAt
<1>3. node \in Trees[Depth] /\ Trees[n - 1] \subseteq Trees[Depth]
  BY <1>1, TreesGrow, RouterAssumption
<1>4. node.url \in Seq(STRING) /\ node.next \in Seq(Trees[n - 1])
  BY <1>2 DEF TreeOver
<1>5. DOMAIN node.next = 1 .. Len(node.next) /\ Len(node.next) \in Nat
      /\ \A i \in DOMAIN node.next : node.next[i] \in Trees[n - 1]
  BY <1>4
<1> QED
  BY <1>1, <1>2, <1>3, <1>4, <1>5

-----------------------------------------------------------------------------
(* RouterLookup and Rows satisfy their equations.                          *)

\* What a node answers, with f for what the nodes below it answer.
Answer(f, node, url, method) ==
  IF ~IsPrefix(node.url, url) THEN NoFun
  ELSE IF url = node.url THEN (IF method \in node.methods THEN node.fun ELSE NoFun)
  ELSE LET rest == Rest(url, node.url)
           found == {i \in DOMAIN node.next : f[node.next[i]][rest][method] # NoFun}
       IN  IF found = {} THEN NoFun ELSE f[node.next[Min(found)]][rest][method]

Answers(f, node) == [url \in Seq(STRING) |-> [method \in Nat |-> Answer(f, node, url, method)]]

\* The rest of a url is a url.  (SdkRouterNode::search)
LEMMA RestType ==
  ASSUME NEW url \in Seq(STRING), NEW prefix \in Seq(STRING)
  PROVE  Rest(url, prefix) \in Seq(STRING)
<1>1. \A i \in Len(prefix) + 1 .. Len(url) : url[i] \in STRING
  OBVIOUS
<1>2. Len(prefix) + 1 \in Int /\ Len(url) \in Int
  OBVIOUS
<1> QED
  BY <1>1, <1>2, SubSeqProperties DEF Rest

\* A node's answers depend on those of its children only.
LEMMA AnswersLocal ==
  ASSUME NEW n \in 1 .. Depth, NEW node \in Trees[n], NEW f, NEW g,
         \A child \in Trees[n - 1] : f[child] = g[child]
  PROVE  Answers(f, node) = Answers(g, node)
<1>1. \A i \in DOMAIN node.next : f[node.next[i]] = g[node.next[i]]
  BY NodeType
<1> SUFFICES ASSUME NEW url \in Seq(STRING), NEW method \in Nat
             PROVE  Answer(f, node, url, method) = Answer(g, node, url, method)
  BY DEF Answers
<1> DEFINE rest == Rest(url, node.url)
           found(h) == {i \in DOMAIN node.next : h[node.next[i]][rest][method] # NoFun}
<1>2. found(f) = found(g)
  <2> HIDE DEF rest
  <2> QED
    BY <1>1
<1>3. found(f) # {} => Min(found(f)) \in DOMAIN node.next
  <2>1. found(f) \in SUBSET Nat
    BY NodeType
  <2> QED
    BY <2>1, LeastIndex
<1>4. (IF found(f) = {} THEN NoFun ELSE f[node.next[Min(found(f))]][rest][method])
      = (IF found(g) = {} THEN NoFun ELSE g[node.next[Min(found(g))]][rest][method])
  <2> HIDE DEF rest, found
  <2> QED
    BY <1>1, <1>2, <1>3
<1> QED
  BY <1>4, Zenon DEF Answer

\* A function on nodes whose values depend on those of the children exists.
LEMMA LookupDef ==
  RouterLookup = [node \in Trees[Depth] |-> Answers(RouterLookup, node)]
<1> DEFINE Step(f) == [node \in Trees[Depth] |-> Answers(f, node)]
           Upto(f, n) == \A node \in Trees[n] : f[node] = Answers(f, node)
           S == {n \in Nat : n > Depth \/ \E f : Upto(f, n)}
<1>1. 0 \in S
  BY TreesAt, RouterAssumption
<1>2. ASSUME NEW n \in S PROVE n + 1 \in S
  <2>1. CASE n + 1 > Depth
    BY <2>1
  <2>2. CASE n + 1 <= Depth
    <3>1. PICK f : Upto(f, n)
      BY <2>2, RouterAssumption
    <3>2. n \in Nat /\ n \in 0 .. Depth /\ n + 1 \in 1 .. Depth /\ (n + 1) - 1 = n
      BY <2>2, RouterAssumption
    <3> DEFINE g == Step(f)
    <3>3. \A node \in Trees[Depth] : g[node] = Answers(f, node)
      OBVIOUS
    <3> HIDE DEF g, S, Step
    <3>4. Trees[n] \subseteq Trees[Depth] /\ Trees[n + 1] \subseteq Trees[Depth]
      BY <3>2, TreesGrow, RouterAssumption
    <3>5. \A node \in Trees[n] : f[node] = g[node]
      BY <3>1, <3>3, <3>4
    <3>6. \A node \in Trees[n + 1] : Answers(f, node) = Answers(g, node)
      BY <3>2, <3>5, AnswersLocal
    <3>7. Upto(g, n + 1)
      BY <3>3, <3>4, <3>6
    <3> HIDE DEF Upto
    <3> QED
      BY <3>2, <3>7 DEF S
  <2> QED
    BY <2>1, <2>2, RouterAssumption
<1>3. PICK f : Upto(f, Depth)
  <2>1. S \subseteq Nat
    OBVIOUS
  <2>2. Depth \in S
    <3> HIDE DEF S
    <3> QED
      BY <1>1, <1>2, <2>1, NatSetInduction, RouterAssumption
  <2> QED
    BY <2>2, RouterAssumption
<1> DEFINE F == Step(f)
<1>4. F = Step(F)
  <2>1. \A node \in Trees[Depth] : F[node] = f[node]
    BY <1>3
  <2>2. Depth \in 1 .. Depth /\ Trees[Depth - 1] \subseteq Trees[Depth]
    BY TreesGrow, RouterAssumption
  <2>3. \A node \in Trees[Depth] : Answers(f, node) = Answers(F, node)
    <3> HIDE DEF F
    <3> QED
      BY <2>1, <2>2, AnswersLocal
  <2> QED
    BY <2>3
<1>5. RouterLookup = CHOOSE g : g = Step(g)
  BY DEF RouterLookup, Answers, Answer
<1> HIDE DEF F, Step
<1>6. RouterLookup = Step(RouterLookup)
  BY <1>4, <1>5
<1> QED
  BY <1>6 DEF Step

\* Its equation node by node.
LEMMA LookupAt ==
  ASSUME NEW node \in Trees[Depth], NEW url \in Seq(STRING), NEW method \in Nat
  PROVE  RouterLookup[node][url][method] = Answer(RouterLookup, node, url, method)
<1> DEFINE F == [x \in Trees[Depth] |-> Answers(RouterLookup, x)]
<1>1. F[node] = Answers(RouterLookup, node)
  OBVIOUS
<1>2. F = RouterLookup
  BY LookupDef
<1> HIDE DEF F
<1> QED
  BY <1>1, <1>2 DEF Answers

-----------------------------------------------------------------------------
(* The same for Rows.                                                      *)

Own(node) == [at |-> << >>, url |-> node.url, fun |-> node.fun, methods |-> node.methods]

\* The rows of a node, with f for those of the nodes below it.
RowsOver(f, node) ==
  {Own(node)}
  \cup UNION {{Below(node, i, row) : row \in {r \in f[node.next[i]] : r.url # << >>}} :
                i \in DOMAIN node.next}

\* The rows of a node depend on those of its children only.
LEMMA RowsLocal ==
  ASSUME NEW n \in 1 .. Depth, NEW node \in Trees[n], NEW f, NEW g,
         \A child \in Trees[n - 1] : f[child] = g[child]
  PROVE  RowsOver(f, node) = RowsOver(g, node)
<1>1. \A i \in DOMAIN node.next : f[node.next[i]] = g[node.next[i]]
  BY NodeType
<1> QED
  BY <1>1 DEF RowsOver

\* So does a function of the rows of all nodes.
LEMMA RowsDef == Rows = [node \in Trees[Depth] |-> RowsOver(Rows, node)]
<1> DEFINE Step(f) == [node \in Trees[Depth] |-> RowsOver(f, node)]
           Upto(f, n) == \A node \in Trees[n] : f[node] = RowsOver(f, node)
           S == {n \in Nat : n > Depth \/ \E f : Upto(f, n)}
<1>1. 0 \in S
  BY TreesAt, RouterAssumption
<1>2. ASSUME NEW n \in S PROVE n + 1 \in S
  <2>1. CASE n + 1 > Depth
    BY <2>1
  <2>2. CASE n + 1 <= Depth
    <3>1. PICK f : Upto(f, n)
      BY <2>2, RouterAssumption
    <3>2. n \in Nat /\ n \in 0 .. Depth /\ n + 1 \in 1 .. Depth /\ (n + 1) - 1 = n
      BY <2>2, RouterAssumption
    <3> DEFINE g == Step(f)
    <3>3. \A node \in Trees[Depth] : g[node] = RowsOver(f, node)
      OBVIOUS
    <3> HIDE DEF g, S, Step
    <3>4. Trees[n] \subseteq Trees[Depth] /\ Trees[n + 1] \subseteq Trees[Depth]
      BY <3>2, TreesGrow, RouterAssumption
    <3>5. \A node \in Trees[n] : f[node] = g[node]
      BY <3>1, <3>3, <3>4
    <3>6. \A node \in Trees[n + 1] : RowsOver(f, node) = RowsOver(g, node)
      BY <3>2, <3>5, RowsLocal
    <3>7. Upto(g, n + 1)
      BY <3>3, <3>4, <3>6
    <3> HIDE DEF Upto
    <3> QED
      BY <3>2, <3>7 DEF S
  <2> QED
    BY <2>1, <2>2, RouterAssumption
<1>3. PICK f : Upto(f, Depth)
  <2>1. S \subseteq Nat
    OBVIOUS
  <2>2. Depth \in S
    <3> HIDE DEF S
    <3> QED
      BY <1>1, <1>2, <2>1, NatSetInduction, RouterAssumption
  <2> QED
    BY <2>2, RouterAssumption
<1> DEFINE F == Step(f)
<1>4. F = Step(F)
  <2>1. \A node \in Trees[Depth] : F[node] = f[node]
    BY <1>3
  <2>2. Depth \in 1 .. Depth /\ Trees[Depth - 1] \subseteq Trees[Depth]
    BY TreesGrow, RouterAssumption
  <2>3. \A node \in Trees[Depth] : RowsOver(f, node) = RowsOver(F, node)
    <3> HIDE DEF F
    <3> QED
      BY <2>1, <2>2, RowsLocal
  <2> QED
    BY <2>3
<1>5. Rows = CHOOSE g : g = Step(g)
  BY DEF Rows, RowsOver, Own
<1> HIDE DEF F, Step
<1>6. Rows = Step(Rows)
  BY <1>4, <1>5
<1> QED
  BY <1>6 DEF Step

\* Its equation node by node.
LEMMA RowsAt ==
  ASSUME NEW node \in Trees[Depth]
  PROVE  Rows[node] = RowsOver(Rows, node)
<1> DEFINE F == [x \in Trees[Depth] |-> RowsOver(Rows, x)]
<1>1. F[node] = RowsOver(Rows, node)
  OBVIOUS
<1>2. F = Rows
  BY RowsDef
<1> HIDE DEF F
<1> QED
  BY <1>1, <1>2

Row == [at : Seq(Nat), url : Seq(STRING), fun : STRING, methods : SUBSET Nat]

\* What Below makes of a row.
LEMMA BelowType ==
  ASSUME NEW node, node.url \in Seq(STRING), NEW i \in Nat, NEW row \in Row
  PROVE  /\ Below(node, i, row) \in Row
         /\ Below(node, i, row).at = <<i>> \o row.at
         /\ Below(node, i, row).url = node.url \o row.url
         /\ Below(node, i, row).fun = row.fun
         /\ Below(node, i, row).methods = row.methods
<1>1. <<i>> \o row.at \in Seq(Nat) /\ node.url \o row.url \in Seq(STRING)
  BY ConcatProperties DEF Row
<1> QED
  BY <1>1 DEF Below, Row

\* Which rows a node has.
LEMMA RowsAre ==
  ASSUME NEW node \in Trees[Depth], NEW row
  PROVE  row \in Rows[node] <=>
           \/ row = Own(node)
           \/ \E i \in DOMAIN node.next : \E r \in Rows[node.next[i]] :
                r.url # << >> /\ row = Below(node, i, r)
BY RowsAt DEF RowsOver

\* Every row of a tree is a row.
LEMMA RowsType == \A node \in Trees[Depth] : Rows[node] \subseteq Row
<1> DEFINE S == {n \in Nat : n > Depth \/ \A node \in Trees[n] : Rows[node] \subseteq Row}
<1>1. 0 \in S
  BY TreesAt, RouterAssumption
<1>2. ASSUME NEW n \in S PROVE n + 1 \in S
  <2>1. CASE n + 1 > Depth
    BY <2>1
  <2>2. CASE n + 1 <= Depth
    <3>1. n + 1 \in 1 .. Depth /\ (n + 1) - 1 = n
      BY <2>2, RouterAssumption
    <3>2. \A node \in Trees[n] : Rows[node] \subseteq Row
      BY <2>2, RouterAssumption
    <3>3. ASSUME NEW node \in Trees[n + 1], NEW row \in Rows[node] PROVE row \in Row
      <4>1. node \in TreeOver(Trees[n]) /\ node \in Trees[Depth]
        BY <3>1, NodeType
      <4>2. CASE row = Own(node)
        BY <4>1, <4>2, EmptySeq DEF Own, Row, TreeOver
      <4>3. ASSUME NEW i \in DOMAIN node.next, NEW r \in Rows[node.next[i]], row = Below(node, i, r)
            PROVE  row \in Row
        <5>1. i \in Nat /\ r \in Row /\ node.url \in Seq(STRING)
          BY <3>1, <3>2, NodeType
        <5> QED
          BY <4>3, <5>1, BelowType
      <4> QED
        BY <4>1, <4>2, <4>3, RowsAre
    <3> QED
      BY <3>3
  <2> QED
    BY <2>1, <2>2, RouterAssumption
<1>3. Depth \in S
  <2>1. S \subseteq Nat
    OBVIOUS
  <2> HIDE DEF S
  <2> QED
    BY <1>1, <1>2, <2>1, NatSetInduction, RouterAssumption
<1> QED
  BY <1>3, RouterAssumption

-----------------------------------------------------------------------------
(* Urls and positions.                                                     *)

\* A url is its prefix and the rest.
LEMMA PrefixRest ==
  ASSUME NEW url \in Seq(STRING), NEW prefix \in Seq(STRING)
  PROVE  /\ IsPrefix(prefix, url) => url = prefix \o Rest(url, prefix)
         /\ \A x \in Seq(STRING) : url = prefix \o x => IsPrefix(prefix, url) /\ Rest(url, prefix) = x
<1>1. ASSUME IsPrefix(prefix, url) PROVE url = prefix \o Rest(url, prefix)
  <2>1. Len(prefix) <= Len(url) /\ SubSeq(prefix, 1, Len(prefix)) = SubSeq(url, 1, Len(prefix))
    BY <1>1 DEF IsPrefix
  <2>2. SubSeq(url, 1, Len(prefix)) \o SubSeq(url, Len(prefix) + 1, Len(url)) = SubSeq(url, 1, Len(url))
    <3>1. 1 \in 1 .. Len(url) + 1 /\ Len(prefix) \in 1 - 1 .. Len(url) /\ Len(url) \in Len(prefix) .. Len(url)
      BY <2>1
    <3> QED
      BY <3>1, ConcatAdjacentSubSeq
  <2>3. SubSeq(prefix, 1, Len(prefix)) = prefix /\ SubSeq(url, 1, Len(url)) = url
    BY SubSeqFull
  <2> QED
    BY <2>1, <2>2, <2>3, Zenon DEF Rest
<1>2. ASSUME NEW x \in Seq(STRING), url = prefix \o x
      PROVE  IsPrefix(prefix, url) /\ Rest(url, prefix) = x
  <2>1. Len(url) = Len(prefix) + Len(x) /\ Len(prefix) <= Len(url)
    BY <1>2, ConcatProperties
  <2>2. SubSeq(url, 1, Len(prefix)) \o SubSeq(url, Len(prefix) + 1, Len(url)) = SubSeq(url, 1, Len(url))
    <3>1. 1 \in 1 .. Len(url) + 1 /\ Len(prefix) \in 1 - 1 .. Len(url) /\ Len(url) \in Len(prefix) .. Len(url)
      BY <2>1
    <3> QED
      BY <3>1, ConcatAdjacentSubSeq
  <2>3. SubSeq(url, 1, Len(prefix)) = prefix
    <3>1. \A i \in 1 .. Len(prefix) : url[i] = prefix[i] /\ url[i] \in STRING
      BY <1>2, ConcatProperties
    <3>2. /\ SubSeq(url, 1, Len(prefix)) \in Seq(STRING)
          /\ Len(SubSeq(url, 1, Len(prefix))) = Len(prefix)
          /\ \A i \in 1 .. Len(prefix) : SubSeq(url, 1, Len(prefix))[i] = url[i]
      <4>1. 1 \in Int /\ Len(prefix) \in Int /\ Len(prefix) >= 0 /\ Len(prefix) - 1 + 1 = Len(prefix)
        OBVIOUS
      <4> QED
        BY <3>1, <4>1, SubSeqProperties
    <3> QED
      BY <3>1, <3>2, SeqEqual
  <2>4. SubSeq(prefix, 1, Len(prefix)) = prefix /\ SubSeq(url, 1, Len(url)) = url
    BY SubSeqFull
  <2>5. Rest(url, prefix) \in Seq(STRING) /\ prefix \o Rest(url, prefix) = prefix \o x
    BY <1>2, <2>2, <2>3, <2>4, RestType DEF Rest
  <2>6. Rest(url, prefix) = x
    BY <2>5, ConcatSimplifications
  <2> QED
    BY <2>1, <2>3, <2>4, <2>6 DEF IsPrefix
<1> QED
  BY <1>1, <1>2

\* A child's rows come before those of a later child, and keep their order.
LEMMA BeforeBelow ==
  ASSUME NEW p \in Seq(Nat), NEW q \in Seq(Nat), NEW i \in Nat, NEW j \in Nat,
         i < j \/ (i = j /\ Before(p, q))
  PROVE  Before(<<i>> \o p, <<j>> \o q)
<1> DEFINE P == <<i>> \o p
           Q == <<j>> \o q
<1>1. /\ Len(P) = Len(p) + 1 /\ P[1] = i /\ \A k \in 1 .. Len(p) : P[k + 1] = p[k]
      /\ Len(Q) = Len(q) + 1 /\ Q[1] = j /\ \A k \in 1 .. Len(q) : Q[k + 1] = q[k]
  OBVIOUS
<1> HIDE DEF P, Q
<1>2. CASE i < j
  <2> DEFINE m == 1
  <2>1. /\ m \in 1 .. Len(Q) /\ Len(P) >= m - 1
        /\ \A h \in 1 .. m - 1 : P[h] = Q[h]
        /\ Len(P) >= m => P[m] < Q[m]
    BY <1>1, <1>2
  <2> HIDE DEF m
  <2>2. Before(P, Q)
    BY <2>1 DEF Before
  <2> QED
    BY <2>2 DEF P, Q
<1>3. CASE i = j /\ Before(p, q)
  <2>1. PICK k \in 1 .. Len(q) :
          Len(p) >= k - 1 /\ (\A h \in 1 .. k - 1 : p[h] = q[h]) /\ (Len(p) >= k => p[k] < q[k])
    BY <1>3 DEF Before
  <2>2. k + 1 \in 1 .. Len(Q) /\ Len(P) >= (k + 1) - 1
    BY <1>1, <2>1
  <2>3. \A h \in 1 .. (k + 1) - 1 : P[h] = Q[h]
    <3> SUFFICES ASSUME NEW h \in 1 .. k PROVE P[h] = Q[h]
      OBVIOUS
    <3>1. CASE h = 1
      BY <1>1, <1>3, <3>1
    <3>2. CASE h # 1
      <4>1. h - 1 \in 1 .. Len(p) /\ h - 1 \in 1 .. Len(q) /\ h - 1 \in 1 .. k - 1 /\ (h - 1) + 1 = h
        BY <2>1, <3>2
      <4>2. P[(h - 1) + 1] = p[h - 1] /\ Q[(h - 1) + 1] = q[h - 1] /\ p[h - 1] = q[h - 1]
        BY <1>1, <2>1, <4>1
      <4> QED
        BY <4>1, <4>2
    <3> QED
      BY <3>1, <3>2
  <2>4. Len(P) >= k + 1 => P[k + 1] < Q[k + 1]
    BY <1>1, <2>1
  <2>5. Before(P, Q)
    <3> DEFINE m == k + 1
    <3>1. /\ m \in 1 .. Len(Q) /\ Len(P) >= m - 1
          /\ \A h \in 1 .. m - 1 : P[h] = Q[h]
          /\ Len(P) >= m => P[m] < Q[m]
      BY <2>2, <2>3, <2>4
    <3> HIDE DEF m
    <3> QED
      BY <3>1 DEF Before
  <2> QED
    BY <2>5 DEF P, Q
<1> QED
  BY <1>2, <1>3

-----------------------------------------------------------------------------
(* What a tree answers is what its first row for the url and method has.   *)

FirstAnswers(n) ==
  \A node \in Trees[n], url \in Seq(STRING), method \in Nat :
    FirstFun(Hits(node, url, method), RouterLookup[node][url][method])

\* A node that is not a prefix of the url, or is all of it.
LEMMA FirstOfOne ==
  ASSUME NEW n \in 1 .. Depth, NEW node \in Trees[n], NEW url \in Seq(STRING), NEW method \in Nat,
         ~IsPrefix(node.url, url) \/ url = node.url
  PROVE  FirstFun(Hits(node, url, method), RouterLookup[node][url][method])
<1>1. node \in Trees[Depth] /\ node.url \in Seq(STRING)
  BY NodeType
<1>2. RouterLookup[node][url][method] = Answer(RouterLookup, node, url, method)
  BY <1>1, LookupAt
<1>3. ASSUME NEW row \in Rows[node], row.url = url PROVE row = Own(node) /\ url = node.url
  <2>1. CASE row = Own(node)
    BY <1>3, <2>1 DEF Own
  <2>2. ASSUME NEW i \in DOMAIN node.next, NEW r \in Rows[node.next[i]],
               r.url # << >>, row = Below(node, i, r)
        PROVE  FALSE
    <3>1. i \in Nat /\ r \in Row
      BY NodeType, RowsType
    <3>2. url = node.url \o r.url /\ r.url \in Seq(STRING)
      BY <1>1, <1>3, <2>2, <3>1, BelowType DEF Row
    <3>3. IsPrefix(node.url, url)
      BY <1>1, <3>2, PrefixRest
    <3>4. url # node.url
      <4>1. \A t \in Seq(STRING) : node.url \o t = node.url => t = << >>
        BY <1>1, ConcatEqualIffEmpty
      <4> QED
        BY <2>2, <3>2, <4>1
    <3> QED
      BY <3>3, <3>4
  <2> QED
    BY <1>1, <2>1, <2>2, RowsAre
<1>4. Own(node) \in Rows[node]
  BY <1>1, RowsAre
<1>5. CASE ~IsPrefix(node.url, url)
  <2>1. url # node.url
    <3>1. node.url \o << >> = node.url /\ << >> \in Seq(STRING)
      BY <1>1, ConcatEmptySeq, EmptySeq
    <3> QED
      BY <1>1, <1>5, <3>1, PrefixRest
  <2>2. Hits(node, url, method) = {}
    BY <1>3, <2>1 DEF Hits
  <2> QED
    BY <1>2, <1>5, <2>2, Zenon DEF FirstFun, Answer
<1>6. CASE IsPrefix(node.url, url) /\ url = node.url /\ method \in node.methods /\ node.fun # NoFun
  <2>1. Hits(node, url, method) = {Own(node)}
    BY <1>3, <1>4, <1>6 DEF Hits, Own
  <2> QED
    BY <1>2, <1>6, <2>1 DEF FirstFun, Answer, Own
<1>7. CASE IsPrefix(node.url, url) /\ url = node.url /\ ~(method \in node.methods /\ node.fun # NoFun)
  <2>1. Hits(node, url, method) = {}
    BY <1>3, <1>7 DEF Hits, Own
  <2> QED
    BY <1>2, <1>7, <2>1 DEF FirstFun, Answer
<1> QED
  BY <1>5, <1>6, <1>7

\* A node that is a prefix of the url, if its children answer so.
LEMMA FirstOfChildren ==
  ASSUME NEW n \in 1 .. Depth, NEW node \in Trees[n], NEW url \in Seq(STRING), NEW method \in Nat,
         IsPrefix(node.url, url), url # node.url, FirstAnswers(n - 1)
  PROVE  FirstFun(Hits(node, url, method), RouterLookup[node][url][method])
<1> DEFINE rest == Rest(url, node.url)
           below(i) == Hits(node.next[i], rest, method)
           fun(i) == RouterLookup[node.next[i]][rest][method]
           found == {i \in DOMAIN node.next : fun(i) # NoFun}
<1>1. node \in Trees[Depth] /\ node.url \in Seq(STRING) /\ DOMAIN node.next \subseteq Nat
  BY NodeType
<1>2. rest \in Seq(STRING) /\ url = node.url \o rest
  BY <1>1, RestType, PrefixRest
<1>3. rest # << >>
  BY <1>1, <1>2, ConcatEmptySeq
<1>4. RouterLookup[node][url][method] = IF found = {} THEN NoFun ELSE fun(Min(found))
  BY <1>1, LookupAt, Zenon DEF Answer
<1>5. ASSUME NEW i \in DOMAIN node.next
      PROVE  FirstFun(below(i), fun(i)) /\ (fun(i) = NoFun <=> below(i) = {})
  <2>1. node.next[i] \in Trees[n - 1]
    BY NodeType
  <2>2. FirstFun(below(i), fun(i))
    BY <1>2, <2>1 DEF FirstAnswers
  <2>3. \A row \in below(i) : row.fun # NoFun
    BY DEF Hits
  <2> QED
    BY <2>2, <2>3 DEF FirstFun
<1>6. ASSUME NEW row
      PROVE  row \in Hits(node, url, method) <=>
               \E i \in DOMAIN node.next : \E r \in below(i) : row = Below(node, i, r)
  <2>1. ASSUME NEW i \in DOMAIN node.next, NEW r \in Rows[node.next[i]], row = Below(node, i, r)
        PROVE  /\ r \in Row /\ row.fun = r.fun /\ row.methods = r.methods
               /\ row.url = url <=> r.url = rest
    <3>1. i \in Nat /\ r \in Row
      BY NodeType, RowsType
    <3>2. r.url \in Seq(STRING) /\ row.url = node.url \o r.url /\ row.fun = r.fun /\ row.methods = r.methods
      BY <1>1, <2>1, <3>1, BelowType DEF Row
    <3>3. ASSUME row.url = url PROVE r.url = rest
      <4>1. url = node.url \o r.url
        BY <3>2, <3>3
      <4> HIDE DEF rest
      <4>2. \A x \in Seq(STRING) : url = node.url \o x => Rest(url, node.url) = x
        BY <1>1, PrefixRest
      <4> QED
        BY <3>2, <4>1, <4>2 DEF rest
    <3> HIDE DEF rest
    <3> QED
      BY <1>2, <3>1, <3>2, <3>3
  <2>2. row \in Hits(node, url, method) => row # Own(node)
    BY DEF Hits, Own
  <2>3. ASSUME row \in Hits(node, url, method)
        PROVE  \E i \in DOMAIN node.next : \E r \in below(i) : row = Below(node, i, r)
    <3>1. row \in Rows[node] /\ row.url = url /\ method \in row.methods /\ row.fun # NoFun
      BY <2>3 DEF Hits
    <3>2. PICK i \in DOMAIN node.next : \E r \in Rows[node.next[i]] : row = Below(node, i, r)
      BY <1>1, <2>2, <2>3, <3>1, RowsAre
    <3>3. PICK r \in Rows[node.next[i]] : row = Below(node, i, r)
      BY <3>2
    <3>4. r \in below(i)
      <4> HIDE DEF rest
      <4> QED
        BY <2>1, <3>1, <3>3 DEF Hits
    <3> QED
      BY <3>3, <3>4
  <2>4. ASSUME NEW i \in DOMAIN node.next, NEW r \in below(i), row = Below(node, i, r)
        PROVE  row \in Hits(node, url, method)
    <3>1. r \in Rows[node.next[i]] /\ r.url = rest /\ method \in r.methods /\ r.fun # NoFun
      <4> HIDE DEF rest
      <4> QED
        BY DEF Hits
    <3>2. row \in Rows[node]
      <4> HIDE DEF rest
      <4> QED
        BY <1>1, <1>3, <2>4, <3>1, RowsAre
    <3>3. row.fun = r.fun /\ row.methods = r.methods /\ row.url = url
      BY <2>1, <2>4, <3>1
    <3> QED
      BY <3>1, <3>2, <3>3 DEF Hits
  <2> QED
    BY <2>3, <2>4
<1> HIDE DEF rest, below, fun
<1>7. CASE found = {}
  <2>1. \A i \in DOMAIN node.next : below(i) = {}
    BY <1>5, <1>7
  <2>2. Hits(node, url, method) = {}
    BY <1>6, <2>1
  <2> QED
    BY <1>4, <1>7, <2>2 DEF FirstFun
<1>8. CASE found # {}
  <2> DEFINE first == Min(found)
  <2>1. first \in DOMAIN node.next /\ fun(first) # NoFun /\ \A i \in found : first <= i
    <3>1. found \in SUBSET Nat
      BY <1>1
    <3> HIDE DEF found
    <3>2. first \in found /\ \A i \in found : first <= i
      BY <1>8, <3>1, LeastIndex
    <3> QED
      BY <3>2 DEF found
  <2> HIDE DEF first
  <2>2. PICK r \in below(first) : fun(first) = r.fun /\ \A other \in below(first) \ {r} : Before(r.at, other.at)
    BY <1>5, <2>1 DEF FirstFun
  <2> DEFINE row == Below(node, first, r)
  <2>3. \A i \in DOMAIN node.next : below(i) \subseteq Row
    BY NodeType, RowsType DEF below, Hits
  <2>4. row \in Hits(node, url, method) /\ row.fun = fun(first) /\ row.at = <<first>> \o r.at
    <3>1. first \in Nat /\ r \in Row
      BY <1>1, <2>1, <2>3
    <3>2. row.fun = r.fun /\ row.at = <<first>> \o r.at
      BY <1>1, <3>1, BelowType
    <3>3. row \in Hits(node, url, method)
      BY <1>6, <2>1
    <3> HIDE DEF row
    <3> QED
      BY <2>2, <3>2, <3>3
  <2>5. ASSUME NEW other \in Hits(node, url, method), other # row PROVE Before(row.at, other.at)
    <3>1. PICK i \in DOMAIN node.next : \E o \in below(i) : other = Below(node, i, o)
      BY <1>6
    <3>2. PICK o \in below(i) : other = Below(node, i, o)
      BY <3>1
    <3>3. i \in found
      BY <1>5, <3>2
    <3>4. first \in Nat /\ i \in Nat /\ r \in Row /\ o \in Row /\ first <= i
      BY <1>1, <2>1, <2>3, <3>3
    <3>5. first < i \/ (first = i /\ Before(r.at, o.at))
      BY <2>2, <2>5, <3>2, <3>4
    <3>6. other.at = <<i>> \o o.at /\ r.at \in Seq(Nat) /\ o.at \in Seq(Nat)
      BY <1>1, <3>2, <3>4, BelowType DEF Row
    <3> HIDE DEF row
    <3> QED
      BY <2>4, <3>4, <3>5, <3>6, BeforeBelow
  <2>6. RouterLookup[node][url][method] = fun(first)
    BY <1>4, <1>8 DEF first
  <2> HIDE DEF row
  <2> QED
    BY <2>4, <2>5, <2>6 DEF FirstFun
<1> QED
  BY <1>7, <1>8

\* What a lookup finds is the first row that answers, in trees of any depth.
\* (SdkRouterNode::search)
LEMMA LookupIsFirst == FirstAnswers(Depth)
<1> DEFINE S == {n \in Nat : n > Depth \/ FirstAnswers(n)}
<1>1. 0 \in S
  BY TreesAt DEF FirstAnswers
<1>2. ASSUME NEW n \in S PROVE n + 1 \in S
  <2>1. CASE n + 1 > Depth
    BY <2>1
  <2>2. CASE n + 1 <= Depth
    <3>1. n + 1 \in 1 .. Depth /\ (n + 1) - 1 = n /\ FirstAnswers(n)
      BY <2>2, RouterAssumption
    <3>2. FirstAnswers(n + 1)
      BY <3>1, FirstOfOne, FirstOfChildren DEF FirstAnswers
    <3> QED
      BY <3>2
  <2> QED
    BY <2>1, <2>2, RouterAssumption
<1>3. S \subseteq Nat
  OBVIOUS
<1>4. Depth \in S
  <2> HIDE DEF S
  <2> QED
    BY <1>1, <1>2, <1>3, NatSetInduction, RouterAssumption
<1> QED
  BY <1>4, RouterAssumption

-----------------------------------------------------------------------------
(* The tree below root_router.                                             *)

Slash == Node(<<"/">>, "slash", {GET}, << >>)
RootChild == Node(<< >>, "root", {GET}, <<Slash>>)

\* A node over trees is a tree of one level more.
LEMMA NodeIsTree ==
  ASSUME NEW T, NEW url \in Seq(STRING), NEW fun \in STRING, NEW methods \in SUBSET Nat,
         NEW next \in Seq(T)
  PROVE  Node(url, fun, methods, next) \in TreeOver(T)
BY DEF Node, TreeOver

\* The routers of the file are trees that leave room for the root.
LEMMA DeclaredAreTrees ==
  /\ Routers \subseteq Trees[Depth - 1]
  /\ \A i \in DOMAIN Declared : Declared[i] \in Routers
BY RouterAssumption DEF Routers, ToSet

\* The root is a tree of the levels there are.
LEMMA RootIsTree ==
  ASSUME NEW routers \in Seq(Routers)
  PROVE  /\ <<RootChild>> \o routers \in Seq(Trees[Depth - 1])
         /\ RootRouter(routers) \in Trees[Depth]
<1>1. /\ Trees[1] = TreeOver(Trees[0]) /\ Trees[2] = TreeOver(Trees[1])
      /\ Trees[Depth] = TreeOver(Trees[Depth - 1])
  <2>1. 1 \in 1 .. Depth /\ 2 \in 1 .. Depth /\ Depth \in 1 .. Depth /\ 1 - 1 = 0 /\ 2 - 1 = 1
    BY RouterAssumption
  <2> QED
    BY <2>1, TreesAt
<1>2. {GET} \in SUBSET Nat
  BY DEF GET
<1>3. "/" \in STRING /\ "slash" \in STRING /\ "root" \in STRING /\ NoFun \in STRING
  BY RouterTexts
<1>4. << >> \in Seq(STRING)
  BY ShortSeq
<1>5. Slash \in Trees[1]
  <2>1. <<"/">> \in Seq(STRING) /\ << >> \in Seq(Trees[0])
    BY <1>3, ShortSeq
  <2>2. \A fun \in STRING : Node(<<"/">>, fun, {GET}, << >>) \in TreeOver(Trees[0])
    BY <1>2, <2>1, NodeIsTree
  <2> QED
    BY <1>1, <1>3, <2>2 DEF Slash
<1>6. RootChild \in Trees[2]
  <2>1. <<Slash>> \in Seq(Trees[1])
    BY <1>5, ShortSeq
  <2>2. \A fun \in STRING : Node(<< >>, fun, {GET}, <<Slash>>) \in TreeOver(Trees[1])
    BY <1>2, <1>4, <2>1, NodeIsTree
  <2> QED
    BY <1>1, <1>3, <2>2 DEF RootChild
<1>7. RootChild \in Trees[Depth - 1]
  <2>1. 2 \in 0 .. Depth - 1 /\ Depth - 1 \in 0 .. Depth
    BY RouterAssumption
  <2> QED
    BY <1>6, <2>1, TreesGrow
<1>8. <<RootChild>> \o routers \in Seq(Trees[Depth - 1])
  <2>1. routers \in Seq(Trees[Depth - 1])
    BY DeclaredAreTrees, SeqMonotonic
  <2>2. <<RootChild>> \in Seq(Trees[Depth - 1])
    BY <1>7, ShortSeq
  <2> QED
    BY <2>1, <2>2, ConcatProperties
<1>9. RootRouter(routers) = Node(<< >>, NoFun, {GET}, <<RootChild>> \o routers)
  BY DEF RootRouter, RootChild, Slash
<1>10. RootRouter(routers) \in TreeOver(Trees[Depth - 1])
  BY <1>2, <1>3, <1>4, <1>8, <1>9, NodeIsTree
<1> QED
  BY <1>1, <1>8, <1>10

\* RouterIsTable, of any sequence of registered routers.
LEMMA TableOfRegistered ==
  ASSUME registered \in Seq(Routers)
  PROVE  RouterIsTable
<1> SUFFICES ASSUME NEW url \in Queries, NEW method \in Methods
             PROVE  FirstFun(Hits(RootRouter(registered), url, method),
                             SdkRouterLookup(registered, url, method))
  BY DEF RouterIsTable
<1>1. url \in Seq(STRING) /\ method \in Nat
  BY RouterAssumption DEF Methods, GET, POST
<1> QED
  BY <1>1, RootIsTree, LookupIsFirst DEF SdkRouterLookup, FirstAnswers

\* Appending a router leaves what is found as it is.
LEMMA AppendKeepsFound ==
  ASSUME NEW routers \in Seq(Routers), NEW router \in Routers,
         NEW url \in Seq(STRING), NEW method \in Nat,
         SdkRouterLookup(routers, url, method) # NoFun
  PROVE  SdkRouterLookup(Append(routers, router), url, method)
           = SdkRouterLookup(routers, url, method)
<1> DEFINE more == Append(routers, router)
           next == <<RootChild>> \o routers
           nextMore == <<RootChild>> \o more
           root == RootRouter(routers)
           rootMore == RootRouter(more)
           rest == Rest(url, << >>)
           found(s) == {i \in DOMAIN s : RouterLookup[s[i]][rest][method] # NoFun}
<1>1. more \in Seq(Routers)
  OBVIOUS
<1>2. root \in Trees[Depth] /\ rootMore \in Trees[Depth]
  BY <1>1, RootIsTree
<1>3. /\ root.url = << >> /\ root.fun = NoFun /\ root.next = next
      /\ rootMore.url = << >> /\ rootMore.fun = NoFun /\ rootMore.next = nextMore
  BY DEF RootRouter, Node, RootChild, Slash
<1>4. SdkRouterLookup(routers, url, method) = Answer(RouterLookup, root, url, method)
      /\ SdkRouterLookup(more, url, method) = Answer(RouterLookup, rootMore, url, method)
  BY <1>2, LookupAt DEF SdkRouterLookup
<1>5. IsPrefix(<< >>, url) /\ url # << >>
  <2> HIDE DEF root
  <2> QED
    BY <1>3, <1>4, Zenon DEF Answer
<1> HIDE DEF root, rootMore
<1>6. /\ SdkRouterLookup(routers, url, method)
           = IF found(next) = {} THEN NoFun ELSE RouterLookup[next[Min(found(next))]][rest][method]
      /\ SdkRouterLookup(more, url, method)
           = IF found(nextMore) = {} THEN NoFun
             ELSE RouterLookup[nextMore[Min(found(nextMore))]][rest][method]
  <2> HIDE DEF next, nextMore
  <2> QED
    BY <1>3, <1>4, <1>5, Zenon DEF Answer
<1>7. /\ DOMAIN next \subseteq DOMAIN nextMore /\ DOMAIN nextMore \subseteq Nat
      /\ \A i \in DOMAIN next : nextMore[i] = next[i]
      /\ \A i \in DOMAIN nextMore \ DOMAIN next : \A j \in DOMAIN next : j < i
  OBVIOUS
<1> HIDE DEF next, nextMore, more, rest
<1>8. Min(found(next)) \in found(next) /\ \A i \in found(next) : Min(found(next)) <= i
  <2>1. found(next) # {} /\ found(next) \in SUBSET Nat
    BY <1>6, <1>7, Zenon
  <2> HIDE DEF found
  <2> QED
    BY <2>1, LeastIndex
<1>9. Min(found(nextMore)) \in found(nextMore) /\ \A i \in found(nextMore) : Min(found(nextMore)) <= i
  <2>1. found(nextMore) # {} /\ found(nextMore) \in SUBSET Nat
    BY <1>7, <1>8
  <2> HIDE DEF found
  <2> QED
    BY <2>1, LeastIndex
<1>10. Min(found(nextMore)) = Min(found(next))
  <2> DEFINE m == Min(found(next))
             k == Min(found(nextMore))
  <2> HIDE DEF m, k
  <2>1. m \in DOMAIN next /\ k \in DOMAIN nextMore /\ m \in Nat /\ k \in Nat
    BY <1>7, <1>8, <1>9 DEF m, k
  <2>2. m \in found(nextMore)
    BY <1>7, <1>8 DEF m
  <2>3. k <= m
    BY <1>9, <2>2 DEF k
  <2>4. k \in DOMAIN next
    BY <1>7, <2>1, <2>3
  <2>5. k \in found(next)
    BY <1>7, <1>9, <2>4 DEF k
  <2>6. m <= k
    BY <1>8, <2>5 DEF m
  <2> QED
    BY <2>1, <2>3, <2>6 DEF m, k
<1> QED
  BY <1>6, <1>7, <1>8, <1>9, <1>10, Zenon DEF more

-----------------------------------------------------------------------------
(* The exchange.                                                           *)

ExchangeInv ==
  /\ registered \in Seq(Routers)
  /\ \A i \in DOMAIN registered : registered[i] = Declared[i]
  /\ midwares \in Seq(Midware)
  /\ toRegister \in Seq(Midware)
  /\ asked \in Seq(Sdk)
  /\ wire \in Seq(SdkWire(ListNumbers))
  /\ client = "waits" /\ wire # << >> => asked # << >> /\ wire = SerializeSdk(Last(asked))

\* What the client sends is a message of the generated types.
LEMMA MessageIsSdk ==
  ASSUME NEW pack \in Nat, NEW request \in Requests
  PROVE  Message(pack, request) \in Sdk
<1> DEFINE time == [in_time |-> IF request.synced THEN Now ELSE Now + 1, out_time |-> 0]
           host == [ip_version |-> Ipv4, port |-> 2, ip |-> "client"]
           dest == [ip_version |-> Ipv4, port |-> 1, ip |-> "server"]
           header == [msg_magic |-> SdkMagic, version |-> SdkCurVersion, pack_id |-> pack,
                      time |-> <<time>>, data_dir |-> 0, host |-> <<host>>, dest |-> <<dest>>,
                      trans_proto |-> Tcp]
<1>1. time \in DataTime
  BY DEF DataTime, Now
<1>2. host \in Host /\ dest \in Host
  BY ExchangeTexts DEF Host, Ipv4
<1>3. request.body \in Body
  BY ExchangeAssumption
<1>4. <<time>> \in Pointer(DataTime) /\ <<host>> \in Pointer(Host) /\ <<dest>> \in Pointer(Host)
  BY <1>1, <1>2, SomePointer
<1>5. Message(pack, request) = [header |-> <<header>>, body |-> <<request.body>>, footer |-> << >>]
  <2>1. Message(pack, request) = [NewSdk EXCEPT !.header = <<header>>, !.body = <<request.body>>]
    BY DEF Message
  <2> HIDE DEF header, time, host, dest
  <2> QED
    BY <2>1, SdkOfParts
<1> HIDE DEF time, host, dest
<1>6. header \in Header
  BY <1>4 DEF Header, SdkMagic, SdkCurVersion, Tcp
<1> HIDE DEF header
<1>7. <<header>> \in Pointer(Header) /\ <<request.body>> \in Pointer(Body)
      /\ << >> \in Pointer(Footer)
  BY <1>3, <1>6, SomePointer, NoPointer
<1> QED
  BY <1>5, <1>7 DEF Sdk

\* A static initialiser appends the router it declares.
LEMMA StaticInitAppends ==
  ASSUME registered \in Seq(Routers), StaticInit
  PROVE  /\ registered' = Append(registered, Declared[Len(registered) + 1])
         /\ Declared[Len(registered) + 1] \in Routers
<1>1. Len(registered) + 1 \in 1 .. Len(Declared)
  BY RouterAssumption DEF StaticInit
<1>2. Len(registered) + 1 \in DOMAIN Declared
  BY <1>1, RouterAssumption
<1> QED
  BY <1>2, DeclaredAreTrees DEF StaticInit, Register

\* It holds at first.
LEMMA ExchangeInit == Init => ExchangeInv
BY ExchangeAssumption DEF Init, RouterInit, ExchangeInv

\* Every step keeps it.
LEMMA ExchangeStep == ExchangeInv /\ [Next]_vars => ExchangeInv'
<1> SUFFICES ASSUME ExchangeInv, [Next]_vars PROVE ExchangeInv'
  OBVIOUS
<1> DEFINE F == SdkWire(ListNumbers)
<1>1. ASSUME StaticInit, UNCHANGED connVars PROVE ExchangeInv'
  <2> DEFINE router == Declared[Len(registered) + 1]
  <2>1. registered' = Append(registered, router) /\ router \in Routers
    BY <1>1, StaticInitAppends DEF ExchangeInv
  <2> HIDE DEF router
  <2>2. registered' \in Seq(Routers)
    BY <2>1 DEF ExchangeInv
  <2>3. \A i \in DOMAIN registered' : registered'[i] = Declared[i]
    BY <2>1 DEF ExchangeInv, router
  <2> QED
    BY <1>1, <2>2, <2>3 DEF connVars, ExchangeInv
<1>2. ASSUME NEW request \in Requests, Send(request) PROVE ExchangeInv'
  <2> DEFINE message == Message(Len(asked) + 1, request)
  <2>1. message \in Sdk
    BY MessageIsSdk DEF ExchangeInv
  <2> HIDE DEF message
  <2>2. asked' = Append(asked, message) /\ wire' = wire \o SerializeSdk(message)
    BY <1>2 DEF Send, message
  <2>3. SerializeSdk(message) \in Seq(F)
    BY <2>1, AllLists, SdkIsSound DEF OfSdk!RoundTrips, OfSdk!Reads
  <2>4. asked' \in Seq(Sdk) /\ asked' # << >> /\ Last(asked') = message
    <3>1. asked \in Seq(Sdk)
      BY DEF ExchangeInv
    <3> QED
      BY <2>1, <2>2, <3>1 DEF Last
  <2> HIDE DEF F
  <2>5. wire' \in Seq(F)
    BY <2>2, <2>3 DEF ExchangeInv, F
  <2>6. client' = "waits" => wire' = SerializeSdk(Last(asked'))
    <3> SUFFICES ASSUME client = "waits" PROVE wire' = SerializeSdk(Last(asked'))
      BY <1>2 DEF Send
    <3>1. wire = << >>
      BY <1>2 DEF Send
    <3> QED
      BY <2>2, <2>3, <2>4, <3>1
  <2> QED
    BY <1>2, <2>4, <2>5, <2>6 DEF Send, ExchangeInv, F
<1>3. ASSUME RegisterSdkMidwares PROVE ExchangeInv'
  <2>1. Head(toRegister) \in Midware /\ Tail(toRegister) \in Seq(Midware)
    BY <1>3 DEF RegisterSdkMidwares, ExchangeInv
  <2>2. toRegister' \in Seq(Midware) /\ midwares' \in Seq(Midware)
    BY <1>3, <2>1 DEF RegisterSdkMidwares, RegisterMidware, ExchangeInv
  <2> QED
    BY <1>3, <2>2 DEF RegisterSdkMidwares, ExchangeInv
<1>4. ASSUME NEW n \in 1 .. Len(wire), OnRead(n) PROVE ExchangeInv'
  <2>1. wire \in Seq(F)
    BY DEF ExchangeInv
  <2> HIDE DEF F
  <2>2. SubSeq(wire, n + 1, Len(wire)) \in Seq(F)
    BY <2>1
  <2>3. wire' = SubSeq(wire, n + 1, Len(wire)) /\ (client = "waits" => n = Len(wire))
    BY <1>4 DEF OnRead
  <2>4. client = "waits" => wire' = << >>
    BY <2>1, <2>3
  <2>5. UNCHANGED <<registered, client, midwares, toRegister, asked>>
    BY <1>4 DEF OnRead
  <2> QED
    BY <2>2, <2>3, <2>4, <2>5 DEF ExchangeInv, F
<1>5. ASSUME OnReadBroken PROVE ExchangeInv'
  BY <1>5 DEF OnReadBroken, ExchangeInv
<1>6. ASSUME UNCHANGED vars PROVE ExchangeInv'
  BY <1>6 DEF vars, connVars, ExchangeInv
<1> QED
  BY <1>1, <1>2, <1>3, <1>4, <1>5, <1>6 DEF Next

\* So it always holds.
LEMMA ExchangeInvariant == Spec => []ExchangeInv
BY ExchangeInit, ExchangeStep, PTL DEF Spec

\* Whatever routers the file declares, with whatever paths and methods, a lookup
\* gives the first node of the tree that has the url and supports the method,
\* whatever the nodes on the way to it support.  (router_lookup)
THEOREM ExchangeRouterIsTable == Spec => []RouterIsTable
<1>1. ExchangeInv => RouterIsTable
  BY TableOfRegistered DEF ExchangeInv
<1> QED
  BY <1>1, ExchangeInvariant, PTL

\* Whatever routers are registered, no registration takes over a url from one
\* that was added before.  (register_router, router_lookup)
THEOREM ExchangeFirstAddedWins == Spec => FirstAddedWins
<1> DEFINE Kept == \A url \in Queries, method \in Methods :
                     LET fun == SdkRouterLookup(registered, url, method)
                     IN  fun # NoFun => SdkRouterLookup(registered', url, method) = fun
<1>1. ExchangeInv /\ [Next]_vars => [Kept]_registered
  <2> SUFFICES ASSUME ExchangeInv, Next, registered' # registered PROVE Kept
    BY DEF vars
  <2>1. registered \in Seq(Routers)
    BY DEF ExchangeInv
  <2>2. PICK router \in Routers : registered' = Append(registered, router)
    <3>1. StaticInit
      BY DEF Next, Send, RegisterSdkMidwares, OnRead, OnReadBroken
    <3> QED
      BY <2>1, <3>1, StaticInitAppends
  <2>3. ASSUME NEW url \in Queries, NEW method \in Methods,
               SdkRouterLookup(registered, url, method) # NoFun
        PROVE  SdkRouterLookup(registered', url, method)
                 = SdkRouterLookup(registered, url, method)
    <3>1. url \in Seq(STRING) /\ method \in Nat
      BY RouterAssumption DEF Methods, GET, POST
    <3> QED
      BY <2>1, <2>2, <2>3, <3>1, AppendKeepsFound
  <2> QED
    BY <2>3
<1> QED
  BY <1>1, ExchangeInvariant, PTL DEF Spec, FirstAddedWins

-----------------------------------------------------------------------------
\* What ReadIsMerge decodes is what the theory of ProtoWire_proof parses.
LEMMA DecodedIs ==
  ASSUME NEW from, NEW to
  PROVE  Decoded(from, to) = OfSdk!Parse(NewSdk, SubSeq(wire, from, to))
BY SdkLoop DEF Decoded

\* Whatever the clients send, however it is cut, what is read is a message of
\* the generated types with at most one list in its content.  (_InternalParse)
THEOREM ExchangeIsTyped == Spec => []ExchangeTypeOK
<1>1. ExchangeInv => ExchangeTypeOK
  <2> SUFFICES ASSUME ExchangeInv PROVE ExchangeTypeOK
    OBVIOUS
  <2> DEFINE F == SdkWire(ListNumbers)
  <2>1. wire \in Seq(F)
    BY DEF ExchangeInv
  <2>2. OfSdk!Closed(Sdk, F)
    BY AllLists, SdkIsSound
  <2>3. NewSdk \in Sdk
    BY <2>2 DEF OfSdk!Closed
  <2> HIDE DEF F
  <2>4. ASSUME NEW n \in DOMAIN wire PROVE Decoded(1, n) \in Sdk
    <3>1. SubSeq(wire, 1, n) \in Seq(F)
      BY <2>1
    <3> QED
      BY <2>2, <2>3, <3>1, DecodedIs, OfSdk!ParseStays
  <2>5. \A i \in DOMAIN asked : asked[i] \in Sdk
    BY DEF ExchangeInv
  <2> QED
    BY <2>4, <2>5 DEF ExchangeInv, ExchangeTypeOK
<1> QED
  BY <1>1, ExchangeInvariant, PTL

-----------------------------------------------------------------------------
\* The fields of a message are those of its three parts.
LEMMA SdkField ==
  ASSUME NEW K, NEW field
  PROVE  field \in SdkWire(K) <=>
           \/ field \in [number : {1}, value : Seq(HeaderWire)]
           \/ field \in [number : {2}, value : Seq(BodyWire(K))]
           \/ field \in [number : {3}, value : Seq(FooterWire)]
<1>1. OfSdk!Parts = {"header", "body", "footer"}
  BY DEF OfSdk!Parts, NewSdk
<1>2. SdkNumbers["header"] = 1 /\ SdkNumbers["body"] = 2 /\ SdkNumbers["footer"] = 3
  BY DEF SdkNumbers
<1>3. /\ SdkValues(K)["header"] = Seq(HeaderWire)
      /\ SdkValues(K)["body"] = Seq(BodyWire(K))
      /\ SdkValues(K)["footer"] = Seq(FooterWire)
  BY <1>1 DEF SdkValues, OfSdk!Parts
<1>4. field \in SdkWire(K) <=>
        \E x \in OfSdk!Parts : field \in [number : {SdkNumbers[x]}, value : SdkValues(K)[x]]
  BY DEF SdkWire, OfSdk!Wire
<1> QED
  BY <1>1, <1>2, <1>3, <1>4

\* What the fields of a body look like: only content depends on the lists.
LEMMA BodyField ==
  ASSUME NEW K, NEW L, NEW field \in BodyWire(K)
  PROVE  \/ field.number = 5 /\ field \in [number : {5}, value : Seq(ContentWire(K))]
         \/ field.number # 5 /\ field \in BodyWire(L)
<1>1. OfBody!Parts = {"user_session", "url", "method", "content"}
  BY DEF OfBody!Parts, NewBody
<1>2. /\ BodyNumbers["user_session"] = 1 /\ BodyNumbers["url"] = 2
      /\ BodyNumbers["method"] = 3 /\ BodyNumbers["content"] = 5
  BY DEF BodyNumbers
<1>3. PICK x \in OfBody!Parts : field \in [number : {BodyNumbers[x]}, value : BodyValues(K)[x]]
  BY DEF BodyWire, OfBody!Wire
<1>4. CASE x = "content"
  <2>1. BodyValues(K)["content"] = Seq(ContentWire(K))
    BY <1>1 DEF BodyValues, OfBody!Parts
  <2> QED
    BY <1>2, <1>3, <1>4, <2>1
<1>5. CASE x # "content"
  <2>1. BodyValues(K)[x] = BodyValues(L)[x]
    <3>1. BodyTypes(K)[x] = BodyTypes(L)[x]
      BY <1>1, <1>5 DEF BodyTypes
    <3> QED
      BY <1>1, <1>5, <3>1 DEF BodyValues, OfBody!Parts
  <2>2. field.number # 5
    BY <1>1, <1>2, <1>3, <1>5
  <2> QED
    BY <1>3, <2>1, <2>2 DEF BodyWire, OfBody!Wire
<1> QED
  BY <1>4, <1>5

\* The content is one of them.
LEMMA BodyContentField ==
  ASSUME NEW K, NEW field \in [number : {5}, value : Seq(ContentWire(K))]
  PROVE  field \in BodyWire(K)
<1>1. "content" \in OfBody!Parts
  BY DEF OfBody!Parts, NewBody
<1>2. BodyNumbers["content"] = 5 /\ BodyValues(K)["content"] = Seq(ContentWire(K))
  BY <1>1 DEF BodyNumbers, BodyValues, OfBody!Parts
<1> QED
  BY <1>1, <1>2 DEF BodyWire, OfBody!Wire

\* A part of what is on the wire needs only the lists that occur in it.
LEMMA OnlyTheseLists ==
  ASSUME wire \in Seq(SdkWire(ListNumbers)), NEW from \in Nat, NEW to \in Nat,
         1 <= from, to <= Len(wire)
  PROVE  SubSeq(wire, from, to) \in Seq(SdkWire(Lists(from, to)))
<1> DEFINE K == Lists(from, to)
<1>1. ASSUME NEW i \in from .. to PROVE wire[i] \in SdkWire(K)
  <2>1. wire[i] \in SdkWire(ListNumbers)
    BY <1>1
  <2>2. CASE wire[i] \in [number : {2}, value : Seq(BodyWire(ListNumbers))]
    <3>1. ASSUME NEW j \in DOMAIN wire[i].value
          PROVE  wire[i].value[j] \in BodyWire(K)
      <4> DEFINE field == wire[i].value[j]
      <4>1. field \in BodyWire(ListNumbers) /\ wire[i].number = 2
        BY <2>2
      <4>2. CASE field.number # 5
        BY <4>1, <4>2, BodyField
      <4>3. CASE field.number = 5
        <5>1. field \in [number : {5}, value : Seq(ContentWire(ListNumbers))]
          BY <4>1, <4>3, BodyField
        <5>2. ASSUME NEW k \in DOMAIN field.value
              PROVE  field.value[k] \in ContentWire(K)
          <6>1. field.value[k] \in ContentWire(ListNumbers)
            BY <5>1
          <6>2. field.value[k].number \in {2, 3} => field.value[k].number \in K
            BY <4>1, <4>3, Zenon DEF Lists
          <6> HIDE DEF K, field
          <6> QED
            BY <6>1, <6>2 DEF ContentWire, ListNumbers
        <5>3. field.value \in Seq(ContentWire(K))
          <6> HIDE DEF K, field
          <6> QED
            BY <5>1, <5>2
        <5>4. field \in [number : {5}, value : Seq(ContentWire(K))]
          <6> HIDE DEF K, field
          <6> QED
            BY <5>1, <5>3
        <5> QED
          BY <5>4, BodyContentField
      <4> QED
        BY <4>2, <4>3
    <3> HIDE DEF K
    <3>2. wire[i].value \in Seq(BodyWire(K))
      BY <2>2, <3>1
    <3>3. wire[i] \in [number : {2}, value : Seq(BodyWire(K))]
      BY <2>2, <3>2
    <3> QED
      BY <3>3, SdkField
  <2> HIDE DEF K
  <2> QED
    BY <2>1, <2>2, SdkField
<1> HIDE DEF K
<1> DEFINE F == SdkWire(K)
<1>2. \A i \in from .. to : wire[i] \in F
  BY <1>1
<1> HIDE DEF F
<1>3. SubSeq(wire, from, to) \in Seq(F)
  BY <1>2, SubSeqProperties
<1> QED
  BY <1>3 DEF F, K

\* Whatever is sent and wherever a read is cut, reading more at once is
\* merging, but for a list that is taken away and set again.  (_InternalParse
\* and MergeFrom of all messages)
THEOREM ExchangeReadIsMerge == Spec => []ReadIsMerge
<1>1. ExchangeInv => ReadIsMerge
  <2> SUFFICES ASSUME ExchangeInv, NEW n \in DOMAIN wire, NEW k \in 0 .. Len(wire), k <= n,
                      Lists(1, k) = {} \/ Lists(k + 1, n) # {2, 3}
               PROVE  Decoded(1, n) = MergeSdk(Decoded(1, k), Decoded(k + 1, n))
    BY DEF ReadIsMerge
  <2> DEFINE F == SdkWire(ListNumbers)
             before == SubSeq(wire, 1, k)
             after == SubSeq(wire, k + 1, n)
             K == Lists(1, k)
             L == Lists(k + 1, n)
  <2>1. wire \in Seq(F) /\ n \in 1 .. Len(wire)
    BY DEF ExchangeInv
  <2>2. Compatible(K, L) /\ K \in SUBSET ListNumbers
    BY DEF Compatible, ListNumbers, Lists
  <2>3. before \in Seq(SdkWire(K)) /\ after \in Seq(SdkWire(L))
    BY <2>1, OnlyTheseLists
  <2> HIDE DEF F, K, L
  <2>4. before \in Seq(F) /\ after \in Seq(F) /\ SubSeq(wire, 1, n) = before \o after
    BY <2>1
  <2> HIDE DEF before, after
  <2>5. OfSdk!Parse(NewSdk, before) \in SdkOf(K)
    BY <2>2, <2>3, SdkIsSound, OfSdk!ParseStays DEF OfSdk!Closed
  <2>6. OfSdk!Mergeable(SdkOf(K), SdkOf(L), SdkWire(L))
    BY <2>2, SdkSound DEF OfSdk!Sound
  <2>7. OfSdk!Parse(OfSdk!Parse(NewSdk, before), after)
          = MergeSdk(OfSdk!Parse(NewSdk, before), OfSdk!Parse(NewSdk, after))
    BY <2>3, <2>5, <2>6, OfSdk!ParseIsMerge
  <2>8. OfSdk!Parse(NewSdk, before \o after) = OfSdk!Parse(OfSdk!Parse(NewSdk, before), after)
    BY <2>4, OfSdk!ParseParts
  <2> QED
    BY <2>4, <2>7, <2>8, DecodedIs DEF before, after
<1> QED
  BY <1>1, ExchangeInvariant, PTL

-----------------------------------------------------------------------------
(* The exchange implements SdkProtocol: what was set last counts.          *)

\* There is a greatest index.
LEMMA GreatestIndex ==
  ASSUME NEW n \in Nat, NEW S \in SUBSET (1 .. n), S # {}
  PROVE  Max(S) \in S /\ \A i \in S : i <= Max(S)
<1> DEFINE T == {k \in 0 .. n : n - k \in S}
<1>1. T \in SUBSET Nat /\ T # {}
  <2>1. PICK i \in S : TRUE
    OBVIOUS
  <2>2. n - i \in 0 .. n /\ n - (n - i) = i
    OBVIOUS
  <2>3. n - i \in T
    BY <2>2
  <2>4. T \in SUBSET Nat
    OBVIOUS
  <2> QED
    BY <2>3, <2>4
<1>2. Min(T) \in T /\ \A k \in T : Min(T) <= k
  <2> HIDE DEF T
  <2> QED
    BY <1>1, LeastIndex
<1> DEFINE m == n - Min(T)
<1>3. m \in S
  BY <1>2
<1>4. \A i \in S : i <= m
  <2> TAKE i \in S
  <2>1. n - i \in 0 .. n /\ n - (n - i) = i
    OBVIOUS
  <2>2. n - i \in T
    BY <2>1
  <2>3. Min(T) <= n - i /\ Min(T) \in 0 .. n
    BY <1>2, <2>2
  <2> HIDE DEF T
  <2> QED
    BY <2>3
<1> HIDE DEF m
<1>5. \E x \in S : \A y \in S : x >= y
  BY <1>3, <1>4
<1> QED
  BY <1>5 DEF Max

\* Nothing is set in nothing.
LEMMA LastSetNone ==
  ASSUME NEW values, DOMAIN values = {}, NEW default
  PROVE  Protocol!LastSet(values, default) = default
BY DEF Protocol!LastSet

\* One value more replaces the last one, unless it is the default.
LEMMA LastSetNext ==
  ASSUME NEW n \in Nat, NEW values, NEW more, NEW default,
         DOMAIN values = 1 .. n, DOMAIN more = 1 .. n + 1, \A i \in 1 .. n : more[i] = values[i]
  PROVE  Protocol!LastSet(more, default)
           = MergeScalar(Protocol!LastSet(values, default), more[n + 1], default)
<1> DEFINE S == {i \in DOMAIN values : values[i] # default}
           T == {i \in DOMAIN more : more[i] # default}
<1>1. /\ Protocol!LastSet(values, default) = IF S = {} THEN default ELSE values[Max(S)]
      /\ Protocol!LastSet(more, default) = IF T = {} THEN default ELSE more[Max(T)]
  <2>1. \A U : Protocol!Max(U) = Max(U)
    BY DEF Protocol!Max, Max
  <2> QED
    BY <2>1 DEF Protocol!LastSet
<1>2. S \in SUBSET (1 .. n) /\ T \in SUBSET (1 .. n + 1) /\ n + 1 \in Nat
  OBVIOUS
<1>3. CASE more[n + 1] = default
  <2>1. S = T
    BY <1>3
  <2>2. S # {} => Max(S) \in 1 .. n
    <3> HIDE DEF S
    <3> QED
      BY <1>2, GreatestIndex
  <2> HIDE DEF S, T
  <2> QED
    BY <1>1, <1>3, <2>1, <2>2 DEF MergeScalar
<1>4. CASE more[n + 1] # default
  <2>1. n + 1 \in T
    BY <1>4
  <2> HIDE DEF S, T
  <2>2. Max(T) \in T /\ n + 1 <= Max(T)
    BY <1>2, <2>1, GreatestIndex
  <2>3. Max(T) = n + 1
    <3> DEFINE m == Max(T)
    <3> HIDE DEF m
    <3>1. m \in 1 .. n + 1 /\ n + 1 <= m
      BY <1>2, <2>2 DEF m
    <3> QED
      BY <3>1 DEF m
  <2> QED
    BY <1>1, <1>4, <2>1, <2>3 DEF MergeScalar
<1> QED
  BY <1>3, <1>4

-----------------------------------------------------------------------------
(* What a client sends.                                                    *)

\* The time and the header a client puts into a message.
ClientTime(synced) == [in_time |-> IF synced THEN Now ELSE Now + 1, out_time |-> 0]
ClientHost(port, ip) == [ip_version |-> Ipv4, port |-> port, ip |-> ip]
ClientHeader(pack, synced) ==
  [msg_magic |-> SdkMagic, version |-> SdkCurVersion, pack_id |-> pack,
   time |-> <<ClientTime(synced)>>, data_dir |-> 0, host |-> <<ClientHost(2, "client")>>,
   dest |-> <<ClientHost(1, "server")>>, trans_proto |-> Tcp]

\* They are of the generated types.
LEMMA ClientHeaderType ==
  ASSUME NEW pack \in Nat, NEW synced
  PROVE  /\ ClientTime(synced) \in DataTime
         /\ ClientHost(2, "client") \in Host /\ ClientHost(1, "server") \in Host
         /\ ClientHeader(pack, synced) \in Header
<1>1. ClientTime(synced) \in DataTime
  BY DEF ClientTime, DataTime, Now
<1>2. ClientHost(2, "client") \in Host /\ ClientHost(1, "server") \in Host
  BY ExchangeTexts DEF ClientHost, Host, Ipv4
<1>3. /\ <<ClientTime(synced)>> \in Pointer(DataTime)
      /\ <<ClientHost(2, "client")>> \in Pointer(Host)
      /\ <<ClientHost(1, "server")>> \in Pointer(Host)
  BY <1>1, <1>2, SomePointer
<1> QED
  BY <1>1, <1>2, <1>3 DEF ClientHeader, Header, SdkMagic, SdkCurVersion, Tcp

\* What the client sends, part by part.
LEMMA MessageIs ==
  ASSUME NEW pack, NEW request
  PROVE  Message(pack, request)
           = [header |-> <<ClientHeader(pack, request.synced)>>, body |-> <<request.body>>,
              footer |-> << >>]
<1> DEFINE header == ClientHeader(pack, request.synced)
<1>1. Message(pack, request) = [NewSdk EXCEPT !.header = <<header>>, !.body = <<request.body>>]
  BY DEF Message, ClientHeader, ClientTime, ClientHost
<1> HIDE DEF header
<1> QED
  BY <1>1, SdkOfParts DEF header

\* A header that is read after another one replaces it.  (Header::_InternalParse)
LEMMA HeaderReplaces ==
  ASSUME NEW p \in Nat, NEW q \in Nat \ {0}, NEW a, NEW b
  PROVE  /\ ParseHeader(NewHeader, SerializeHeader(ClientHeader(q, b))) = ClientHeader(q, b)
         /\ ParseHeader(ClientHeader(p, a), SerializeHeader(ClientHeader(q, b)))
              = ClientHeader(q, b)
<1> DEFINE old == ClientHeader(p, a)
           new == ClientHeader(q, b)
<1>1. old \in Header /\ new \in Header
  BY ClientHeaderType
<1>2. MergeHeader(old, new) = new
  <2>1. MergeDataTime(ClientTime(a), ClientTime(b)) = ClientTime(b)
    BY DEF MergeDataTime, MergeScalars, MergeScalar, NewDataTime, ClientTime, Now
  <2>2. \A host \in Host : MergeHost(host, host) = host
    BY DEF MergeHost, MergeScalars, MergeScalar, NewHost, Host
  <2>3. MergeMessage(old.time, new.time, MergeDataTime, NewDataTime) = new.time
    BY <2>1 DEF ClientHeader, MergeMessage, Deref
  <2>4. /\ MergeMessage(old.host, new.host, MergeHost, NewHost) = new.host
        /\ MergeMessage(old.dest, new.dest, MergeHost, NewHost) = new.dest
    BY <2>2, ClientHeaderType DEF ClientHeader, MergeMessage, Deref
  <2> DEFINE scalars == MergeScalars(old, new, NewHeader)
  <2>5. /\ DOMAIN scalars = DOMAIN NewHeader
        /\ \A x \in DOMAIN NewHeader : scalars[x] = MergeScalar(old[x], new[x], NewHeader[x])
    BY DEF MergeScalars
  <2>6. DOMAIN NewHeader = {"msg_magic", "version", "pack_id", "time", "data_dir", "host", "dest", "trans_proto"}
    BY DEF NewHeader
  <2>7. \A x \in {"msg_magic", "version", "pack_id", "data_dir", "trans_proto"} : scalars[x] = new[x]
    BY <2>5, <2>6 DEF ClientHeader, MergeScalar, NewHeader, SdkMagic, SdkCurVersion, Tcp
  <2>8. \A x, y, z :
          [scalars EXCEPT !.time = x, !.host = y, !.dest = z]
            = [v \in DOMAIN NewHeader |->
                 CASE v = "time" -> x [] v = "host" -> y [] v = "dest" -> z [] OTHER -> scalars[v]]
    <3> HIDE DEF scalars
    <3> QED
      BY <2>5, <2>6
  <2>9. MergeHeader(old, new) = [scalars EXCEPT !.time = new.time, !.host = new.host, !.dest = new.dest]
    BY <2>3, <2>4 DEF MergeHeader
  <2>10. new = [v \in DOMAIN NewHeader |-> new[v]]
    BY <2>6 DEF ClientHeader
  <2> HIDE DEF scalars, old, new
  <2> QED
    BY <2>6, <2>7, <2>8, <2>9, <2>10
<1> HIDE DEF old, new
<1>3. /\ OfHeader!Parse(NewHeader, SerializeHeader(new)) = new
      /\ SerializeHeader(new) \in Seq(HeaderWire)
  BY <1>1, HeaderSound DEF OfHeader!Sound, OfHeader!RoundTrips, OfHeader!Reads
<1>4. OfHeader!Mergeable(Header, Header, HeaderWire)
  BY HeaderSound DEF OfHeader!Sound
<1>5. OfHeader!Parse(old, SerializeHeader(new)) = MergeHeader(old, new)
  BY <1>1, <1>3, <1>4, OfHeader!ParseIsMerge
<1> QED
  BY <1>2, <1>3, <1>5, HeaderLoop DEF old, new

-----------------------------------------------------------------------------
(* What is on the wire, in the list and among the answers.                 *)

\* The k-th field sent: a header and a body in turn.
Sent(messages, k) ==
  LET p == (k + 1) \div 2
  IN  IF k = 2 * p - 1 THEN Field(1, SerializeHeader(messages[p].header[1]))
      ELSE Field(2, SerializeBody(messages[p].body[1]))

\* On the wire are the last fields sent, in their order.
WireInv ==
  /\ \A p \in DOMAIN asked : \E request \in Requests : asked[p] = Message(p, request)
  /\ Len(wire) <= 2 * Len(asked)
  /\ \A i \in DOMAIN wire : wire[i] = Sent(asked, 2 * Len(asked) - Len(wire) + i)
  /\ asked # << >> => Running

\* The user middleware is registered once, and enabled.
ListInv ==
  /\ \A i, j \in DOMAIN midwares : midwares[i].name = midwares[j].name => i = j
  /\ \A i \in DOMAIN midwares : midwares[i].name = UserMidware => midwares[i].enable
  /\ \/ IsMidwareExist(UserMidware)
     \/ \A i \in DOMAIN toRegister :
          toRegister[i].name = UserMidware =>
            \E j \in 1 .. i : toRegister[j] = [name |-> UserMidware, enable |-> TRUE]

\* Of each answer it is known whether its handler ran.
AnswerInv ==
  /\ \E S : answers \in Seq(S)
  /\ \E S : ran \in Seq(S)
  /\ Len(ran) = Len(answers)

RefineInv == ExchangeInv /\ WireInv /\ ListInv /\ AnswerInv

\* Two fields to a message.
LEMMA Halves ==
  /\ \A k \in Nat \ {0} : /\ (k + 1) \div 2 \in Nat \ {0}
                          /\ k = 2 * ((k + 1) \div 2) - 1 \/ k = 2 * ((k + 1) \div 2)
  /\ \A p \in Nat : (2 * p + 1 + 1) \div 2 = p + 1 /\ (2 * p + 2 + 1) \div 2 = p + 1
OBVIOUS

\* One after the other, and nothing.
LEMMA TwoFields ==
  ASSUME NEW f, NEW g
  PROVE  <<f>> \o <<g>> \o << >> = <<f, g>>
<1>1. <<f>> \in Seq({f, g}) /\ <<g>> \in Seq({f, g})
  BY ShortSeq
<1>3. <<f, g>> \in Seq({f, g})
  OBVIOUS
<1>2. <<f>> \o <<g>> = <<f, g>>
  <2> DEFINE s == <<f>> \o <<g>>
             t == <<f, g>>
  <2>1. s \in Seq({f, g}) /\ Len(s) = 2 /\ s[1] = f /\ s[2] = g
    BY <1>1, ConcatProperties
  <2>2. t \in Seq({f, g}) /\ Len(t) = 2 /\ t[1] = f /\ t[2] = g
    BY <1>3
  <2> HIDE DEF s, t
  <2>3. \A i \in 1 .. Len(s) : s[i] = t[i]
    BY <2>1, <2>2
  <2>4. s = t
    BY <2>1, <2>2, <2>3, SeqEqual
  <2> QED
    BY <2>4 DEF s, t
<1> QED
  BY <1>2, <1>3, ConcatEmptySeq

\* A message is two fields on the wire.
LEMMA MessageFields ==
  ASSUME NEW pack, NEW request
  PROVE  SerializeSdk(Message(pack, request))
           = <<Field(1, SerializeHeader(ClientHeader(pack, request.synced))),
               Field(2, SerializeBody(request.body))>>
<1> DEFINE header == ClientHeader(pack, request.synced)
           f1 == Field(1, SerializeHeader(header))
           f2 == Field(2, SerializeBody(request.body))
           m == [header |-> <<header>>, body |-> <<request.body>>, footer |-> << >>]
<1>1. Message(pack, request) = m
  BY MessageIs
<1>2. /\ PutMessage(1, m.header, SerializeHeader) = <<f1>>
      /\ PutMessage(2, m.body, SerializeBody) = <<f2>>
      /\ PutMessage(3, m.footer, SerializeFooter) = << >>
  BY DEF PutMessage
<1>3. SerializeSdk(m) = <<f1>> \o <<f2>> \o << >>
  BY <1>2 DEF SerializeSdk
<1> HIDE DEF m, f1, f2
<1>4. <<f1>> \o <<f2>> \o << >> = <<f1, f2>>
  BY TwoFields
<1> QED
  BY <1>1, <1>3, <1>4 DEF f1, f2

\* It holds at first.
LEMMA RefineInit == Init => WireInv /\ ListInv /\ AnswerInv
<1> SUFFICES ASSUME Init PROVE WireInv /\ ListInv /\ AnswerInv
  OBVIOUS
<1>1. WireInv
  BY DEF Init, WireInv
<1>2. ListInv
  <2>1. DOMAIN midwares = {} /\ toRegister = Midwares
    BY DEF Init
  <2> QED
    BY <2>1, MidwaresAssumption DEF ListInv
<1>3. AnswerInv
  BY DEF Init, AnswerInv
<1> QED
  BY <1>1, <1>2, <1>3

\* A client adds its message to the end of the wire.
LEMMA SendKeepsWire ==
  ASSUME ExchangeInv, WireInv, NEW request \in Requests, Send(request)
  PROVE  WireInv'
<1> DEFINE L == Len(asked)
           W == Len(wire)
           message == Message(L + 1, request)
           f1 == Field(1, SerializeHeader(ClientHeader(L + 1, request.synced)))
           f2 == Field(2, SerializeBody(request.body))
<1>1. asked' = Append(asked, message) /\ wire' = wire \o <<f1, f2>> /\ Running'
  BY MessageFields DEF Send, Running
<1>2. L \in Nat /\ W \in Nat /\ W <= 2 * L /\ DOMAIN wire = 1 .. W /\ DOMAIN asked = 1 .. L
  BY DEF ExchangeInv, WireInv
<1>3. /\ message.header[1] = ClientHeader(L + 1, request.synced)
      /\ message.body[1] = request.body
  BY MessageIs
<1> HIDE DEF message, f1, f2
<1>4. /\ Len(asked') = L + 1 /\ DOMAIN asked' = 1 .. L + 1
      /\ asked'[L + 1] = message /\ \A p \in 1 .. L : asked'[p] = asked[p]
  BY <1>1 DEF ExchangeInv
<1>5. /\ Len(wire') = W + 2 /\ DOMAIN wire' = 1 .. W + 2
      /\ wire'[W + 1] = f1 /\ wire'[W + 2] = f2 /\ \A i \in 1 .. W : wire'[i] = wire[i]
  BY <1>1 DEF ExchangeInv
<1> HIDE DEF L, W
<1>6. \A p \in 1 .. L + 1 : \E r \in Requests : asked'[p] = Message(p, r)
  <2> TAKE p \in 1 .. L + 1
  <2>1. CASE p \in 1 .. L
    BY <1>2, <1>4, <2>1 DEF WireInv
  <2>2. CASE p = L + 1
    BY <1>4, <2>2 DEF message, L
  <2> QED
    BY <1>2, <2>1, <2>2
<1>7. ASSUME NEW i \in 1 .. W + 2 PROVE wire'[i] = Sent(asked', 2 * (L + 1) - (W + 2) + i)
  <2>1. CASE i \in 1 .. W
    <3> DEFINE k == 2 * L - W + i
               p == (k + 1) \div 2
    <3>1. k \in Nat \ {0} /\ k <= 2 * L /\ 2 * (L + 1) - (W + 2) + i = k
      BY <1>2, <2>1
    <3>2. wire'[i] = Sent(asked, k)
      BY <1>2, <1>5, <2>1 DEF WireInv, W, L
    <3> HIDE DEF k
    <3>3. p \in Nat \ {0} /\ (k = 2 * p - 1 \/ k = 2 * p)
      BY <3>1, Halves
    <3>4. p \in 1 .. L
      <4> HIDE DEF p
      <4> QED
        BY <1>2, <3>1, <3>3
    <3>5. asked'[p] = asked[p]
      BY <1>4, <3>4
    <3> QED
      BY <3>1, <3>2, <3>5 DEF Sent
  <2>2. CASE i = W + 1
    <3>1. 2 * (L + 1) - (W + 2) + i = 2 * L + 1 /\ 2 * (L + 1) - 1 = 2 * L + 1
      BY <1>2, <2>2
    <3>2. (2 * L + 1 + 1) \div 2 = L + 1
      BY <1>2, Halves
    <3> QED
      BY <1>3, <1>4, <1>5, <2>2, <3>1, <3>2 DEF Sent, f1, L
  <2>3. CASE i = W + 2
    <3>1. 2 * (L + 1) - (W + 2) + i = 2 * L + 2 /\ 2 * (L + 1) - 1 # 2 * L + 2
      BY <1>2, <2>3
    <3>2. (2 * L + 2 + 1) \div 2 = L + 1
      BY <1>2, Halves
    <3> QED
      BY <1>3, <1>4, <1>5, <2>3, <3>1, <3>2 DEF Sent, f2, L
  <2> QED
    BY <1>2, <2>1, <2>2, <2>3
<1>8. W + 2 <= 2 * (L + 1)
  BY <1>2
<1> QED
  BY <1>1, <1>4, <1>5, <1>6, <1>7, <1>8 DEF WireInv

\* Reading takes what is read from the front.
LEMMA ReadKeepsWire ==
  ASSUME ExchangeInv, WireInv, NEW n \in 1 .. Len(wire), OnRead(n)
  PROVE  WireInv'
<1> DEFINE L == Len(asked)
           W == Len(wire)
<1>1. wire' = SubSeq(wire, n + 1, W) /\ asked' = asked /\ registered' = registered
  BY DEF OnRead
<1>2. L \in Nat /\ W \in Nat /\ W <= 2 * L /\ DOMAIN wire = 1 .. W
  BY DEF ExchangeInv, WireInv
<1>3. Len(wire') = W - n /\ DOMAIN wire' = 1 .. W - n /\ \A i \in 1 .. W - n : wire'[i] = wire[n + i]
  BY <1>1 DEF ExchangeInv
<1> HIDE DEF L, W
<1>4. n \in 1 .. W
  BY DEF W
<1>5. ASSUME NEW i \in 1 .. W - n PROVE wire'[i] = Sent(asked, 2 * L - (W - n) + i)
  <2>1. n + i \in 1 .. W /\ 2 * L - W + (n + i) = 2 * L - (W - n) + i
    BY <1>2, <1>4
  <2>2. wire[n + i] = Sent(asked, 2 * L - W + (n + i))
    BY <1>2, <2>1 DEF WireInv, L, W
  <2> QED
    BY <1>3, <2>1, <2>2
<1>6. W - n <= 2 * L
  BY <1>2, <1>4
<1>7. Len(asked') = L
  BY <1>1 DEF L
<1> QED
  BY <1>1, <1>3, <1>5, <1>6, <1>7 DEF WireInv, Running

-----------------------------------------------------------------------------
(* Every step keeps it.                                                    *)

\* Registering a middleware keeps names apart, and the first one enabled.
LEMMA RegisterKeepsList ==
  ASSUME ExchangeInv, ListInv, RegisterSdkMidwares
  PROVE  ListInv'
<1> DEFINE mid == Head(toRegister)
           m == Len(midwares)
           first == [name |-> UserMidware, enable |-> TRUE]
           Rest1(s) == \A i \in DOMAIN s :
                         s[i].name = UserMidware => \E j \in 1 .. i : s[j] = first
<1>1. midwares \in Seq(Midware) /\ toRegister \in Seq(Midware) /\ toRegister # << >>
  BY DEF ExchangeInv, RegisterSdkMidwares
<1>2. /\ mid = toRegister[1] /\ 1 \in DOMAIN toRegister
      /\ DOMAIN toRegister' = 1 .. Len(toRegister) - 1
      /\ \A i \in DOMAIN toRegister' : i + 1 \in DOMAIN toRegister /\ toRegister'[i] = toRegister[i + 1]
  BY <1>1 DEF RegisterSdkMidwares
<1>3. midwares' = IF IsMidwareExist(mid.name) THEN midwares ELSE Append(midwares, mid)
  BY DEF RegisterSdkMidwares, RegisterMidware
<1>4. IsMidwareExist(UserMidware) \/ Rest1(toRegister)
  BY DEF ListInv
<1>5. m \in Nat /\ DOMAIN midwares = 1 .. m
  BY <1>1
<1> HIDE DEF mid, m, first
<1>6. ASSUME Rest1(toRegister), mid.name # UserMidware PROVE Rest1(toRegister')
  <2> SUFFICES ASSUME NEW i \in DOMAIN toRegister', toRegister'[i].name = UserMidware
               PROVE  \E j \in 1 .. i : toRegister'[j] = first
    OBVIOUS
  <2>1. PICK j \in 1 .. i + 1 : toRegister[j] = first
    BY <1>2, <1>6
  <2>2. j # 1
    BY <1>2, <1>6, <2>1 DEF first
  <2>3. i \in 1 .. Len(toRegister) - 1 /\ Len(toRegister) \in Nat
    BY <1>1, <1>2
  <2>4. j - 1 \in 1 .. i /\ (j - 1) + 1 = j /\ j - 1 \in 1 .. Len(toRegister) - 1
    BY <2>2, <2>3
  <2>5. toRegister'[j - 1] = first
    BY <1>2, <2>1, <2>4
  <2> QED
    BY <2>4, <2>5
<1>7. CASE IsMidwareExist(mid.name)
  <2>1. midwares' = midwares
    BY <1>3, <1>7
  <2>2. CASE IsMidwareExist(UserMidware)
    BY <2>1, <2>2 DEF ListInv, IsMidwareExist
  <2>3. CASE ~IsMidwareExist(UserMidware)
    <3>1. Rest1(toRegister')
      BY <1>4, <1>6, <1>7, <2>3
    <3> QED
      BY <2>1, <3>1 DEF ListInv, first
  <2> QED
    BY <2>2, <2>3
<1>8. CASE ~IsMidwareExist(mid.name)
  <2>1. /\ DOMAIN midwares' = 1 .. m + 1 /\ midwares'[m + 1] = mid
        /\ \A i \in 1 .. m : midwares'[i] = midwares[i]
    BY <1>1, <1>3, <1>8 DEF m
  <2>2. \A i \in 1 .. m : midwares[i].name # mid.name
    BY <1>5, <1>8 DEF IsMidwareExist
  <2>3. \A i, j \in 1 .. m + 1 : midwares'[i].name = midwares'[j].name => i = j
    <3> TAKE i, j \in 1 .. m + 1
    <3>1. (i \in 1 .. m \/ i = m + 1) /\ (j \in 1 .. m \/ j = m + 1)
      BY <1>5
    <3> QED
      BY <1>5, <2>1, <2>2, <3>1 DEF ListInv
  <2>4. \A i \in 1 .. m + 1 : midwares'[i].name = UserMidware => midwares'[i].enable
    <3> TAKE i \in 1 .. m + 1
    <3>1. CASE i \in 1 .. m
      BY <1>5, <2>1, <3>1 DEF ListInv
    <3>2. CASE i = m + 1
      <4> SUFFICES ASSUME mid.name = UserMidware PROVE mid.enable
        BY <2>1, <3>2
      <4>1. Rest1(toRegister)
        BY <1>4, <1>8
      <4>2. \E j \in 1 .. 1 : toRegister[j] = first
        BY <1>2, <4>1
      <4> QED
        BY <1>2, <4>2 DEF first
    <3> QED
      BY <1>5, <3>1, <3>2
  <2>5. IsMidwareExist(UserMidware)' \/ Rest1(toRegister')
    <3>1. CASE mid.name = UserMidware
      <4>1. m + 1 \in 1 .. m + 1
        BY <1>5
      <4> QED
        BY <2>1, <3>1, <4>1 DEF IsMidwareExist
    <3>2. CASE mid.name # UserMidware /\ Rest1(toRegister)
      BY <1>6, <3>2
    <3>3. CASE IsMidwareExist(UserMidware)
      <4>1. PICK i \in 1 .. m : midwares[i].name = UserMidware
        BY <1>5, <3>3 DEF IsMidwareExist
      <4>2. i \in 1 .. m + 1
        BY <1>5
      <4> QED
        BY <2>1, <4>1, <4>2 DEF IsMidwareExist
    <3> QED
      BY <1>4, <3>1, <3>2, <3>3
  <2> QED
    BY <2>1, <2>3, <2>4, <2>5 DEF ListInv, first
<1> QED
  BY <1>7, <1>8

\* An answer and whether its handler ran are added together.
LEMMA ReadKeepsAnswers ==
  ASSUME AnswerInv, NEW n, OnRead(n)
  PROVE  AnswerInv'
<1>1. PICK S : answers \in Seq(S)
  BY DEF AnswerInv
<1>2. PICK T : ran \in Seq(T)
  BY DEF AnswerInv
<1>3. CASE UNCHANGED <<answers, ran>>
  BY <1>3 DEF AnswerInv
<1>4. ASSUME NEW out, NEW r, answers' = Append(answers, out), ran' = Append(ran, r)
      PROVE  AnswerInv'
  <2>1. answers \in Seq(S \cup {out}) /\ ran \in Seq(T \cup {r})
    BY <1>1, <1>2, SeqMonotonic
  <2> DEFINE S1 == S \cup {out}
             T1 == T \cup {r}
  <2>2. out \in S1 /\ r \in T1
    OBVIOUS
  <2> HIDE DEF S1, T1
  <2>3. answers \in Seq(S1) /\ ran \in Seq(T1)
    BY <2>1 DEF S1, T1
  <2>4. answers' \in Seq(S1) /\ Len(answers') = Len(answers) + 1
    BY <1>4, <2>2, <2>3
  <2>5. ran' \in Seq(T1) /\ Len(ran') = Len(ran) + 1
    BY <1>4, <2>2, <2>3
  <2> QED
    BY <2>4, <2>5 DEF AnswerInv
<1> QED
  BY <1>3, <1>4 DEF OnRead

\* Every step keeps what the refinement needs.
LEMMA RefineStep == RefineInv /\ [Next]_vars => RefineInv'
<1> SUFFICES ASSUME RefineInv, [Next]_vars PROVE RefineInv'
  OBVIOUS
<1> USE DEF RefineInv
<1>1. ExchangeInv'
  BY ExchangeStep
<1>2. ASSUME StaticInit, UNCHANGED connVars PROVE RefineInv'
  <2>1. asked = << >>
    <3> SUFFICES ASSUME asked # << >> PROVE FALSE
      OBVIOUS
    <3>1. Len(registered) = Len(Declared) /\ Len(Declared) \in Nat
      BY RouterAssumption DEF WireInv, Running
    <3> QED
      BY <1>2, <3>1 DEF StaticInit
  <2>2. WireInv'
    BY <1>2, <2>1 DEF WireInv, connVars, Sent
  <2>3. ListInv' /\ AnswerInv'
    BY <1>2 DEF ListInv, IsMidwareExist, AnswerInv, connVars
  <2> QED
    BY <1>1, <2>2, <2>3
<1>3. ASSUME NEW request \in Requests, Send(request) PROVE RefineInv'
  <2>1. WireInv'
    BY <1>3, SendKeepsWire
  <2>2. ListInv' /\ AnswerInv'
    BY <1>3 DEF Send, ListInv, IsMidwareExist, AnswerInv
  <2> QED
    BY <1>1, <2>1, <2>2
<1>4. ASSUME RegisterSdkMidwares PROVE RefineInv'
  <2>1. ListInv'
    BY <1>4, RegisterKeepsList
  <2>2. WireInv' /\ AnswerInv'
    BY <1>4 DEF RegisterSdkMidwares, WireInv, Running, Sent, AnswerInv
  <2> QED
    BY <1>1, <2>1, <2>2
<1>5. ASSUME NEW n \in 1 .. Len(wire), OnRead(n) PROVE RefineInv'
  <2>1. WireInv'
    BY <1>5, ReadKeepsWire
  <2>2. AnswerInv'
    BY <1>5, ReadKeepsAnswers
  <2>3. ListInv'
    BY <1>5 DEF OnRead, ListInv, IsMidwareExist
  <2> QED
    BY <1>1, <2>1, <2>2, <2>3
<1>6. ASSUME OnReadBroken PROVE RefineInv'
  <2>1. WireInv'
    <3>1. wire' = << >> /\ asked' = asked /\ registered' = registered /\ Len(asked) \in Nat
      BY <1>6 DEF OnReadBroken, ExchangeInv
    <3>2. Len(wire') <= 2 * Len(asked) /\ DOMAIN wire' = {}
      BY <3>1
    <3> QED
      BY <3>1, <3>2 DEF WireInv, Running
  <2>2. ListInv' /\ AnswerInv'
    BY <1>6 DEF OnReadBroken, ListInv, IsMidwareExist, AnswerInv
  <2> QED
    BY <1>1, <2>1, <2>2
<1>7. ASSUME UNCHANGED vars PROVE RefineInv'
  <2>1. WireInv'
    BY <1>7 DEF vars, connVars, WireInv, Running, Sent
  <2>2. ListInv' /\ AnswerInv'
    BY <1>7 DEF vars, connVars, ListInv, IsMidwareExist, AnswerInv
  <2> QED
    BY <1>1, <2>1, <2>2
<1> QED
  BY <1>2, <1>3, <1>4, <1>5, <1>6, <1>7 DEF Next

\* So it always holds.
LEMMA RefineInvariant == Spec => []RefineInv
BY ExchangeInit, RefineInit, RefineStep, PTL DEF Spec, RefineInv

-----------------------------------------------------------------------------
(* Messages with an empty part.                                            *)

\* A part that is set is the one of its set.
LEMMA PointerIs ==
  ASSUME NEW M, NEW p \in Pointer(M)
  PROVE  /\ p = << >> => ToSet(p) = {}
         /\ p # << >> => p[1] \in M /\ p = <<p[1]>> /\ ToSet(p) = {p[1]}
<1>1. p \in Seq(M) /\ (Len(p) = 0 \/ Len(p) = 1)
  <2>1. p \in Seq(M) /\ Len(p) <= 1
    BY DEF Pointer
  <2>2. PICK length \in Nat : length = Len(p)
    BY <2>1
  <2>3. length <= 1
    BY <2>1, <2>2
  <2>4. length = 0 \/ length = 1
    BY <2>3
  <2> QED
    BY <2>1, <2>2, <2>4
<1>2. CASE Len(p) = 0
  <2>1. DOMAIN p = {} /\ p = << >>
    BY <1>1, <1>2
  <2> QED
    BY <2>1 DEF ToSet
<1>3. CASE Len(p) = 1
  <2>1. DOMAIN p = {1} /\ p # << >> /\ p[1] \in M /\ p = <<p[1]>>
    BY <1>1, <1>3
  <2> QED
    BY <2>1 DEF ToSet
<1> QED
  BY <1>1, <1>2, <1>3

\* A zero byte is in a body, or for it, where it holds an empty part.
\* (Body::_InternalSerialize)
LEMMA NulIsEmptyPart ==
  ASSUME NEW body \in Body
  PROVE  body = NewBody \/ NulInBody(SerializeBody(body)) <=> HoldsEmptyPart(body)
<1> DEFINE Modules(list) ==
             \/ list = NewAppModuleCoutInfoList
             \/ \E row \in ToSet(list.app_modules) :
                  row = NewAppModuleCoutInfo \/ row.base_info = <<NewAppModuleBaseInfo>>
           Users(list) ==
             \/ list = NewUserList
             \/ \E row \in ToSet(list.user_info) :
                  row = NewUserAllInfo \/ row.user_base_info = <<NewUserBaseInfo>>
           InContent(content) ==
             \/ content = NewContent
             \/ \E list \in ToSet(content.app_module_list) : Modules(list)
             \/ \E list \in ToSet(content.user_list) : Users(list)
           InSession(session) ==
             session = NewUserSessionMsg \/ session.user = <<NewUserBaseInfo>>
<1>1. ASSUME NEW list \in AppModuleCoutInfoList
      PROVE  Modules(list) <=> list = NewAppModuleCoutInfoList
                               \/ NulInAppModuleCoutInfoList(SerializeAppModuleCoutInfoList(list))
  BY NulOfAppModuleCoutInfoList DEF ToSet
<1>2. ASSUME NEW list \in UserList
      PROVE  Users(list) <=> list = NewUserList \/ NulInUserList(SerializeUserList(list))
  BY NulOfUserList DEF ToSet
<1>3. HoldsEmptyPart(body) <=>
        \/ body = NewBody
        \/ \E session \in ToSet(body.user_session) : InSession(session)
        \/ \E content \in ToSet(body.content) : InContent(content)
  BY DEF HoldsEmptyPart
<1> HIDE DEF Modules, Users
<1>4. ASSUME NEW content \in Content
      PROVE  InContent(content) <=> content = NewContent \/ NulInContent(SerializeContent(content))
  <2>1. content.app_module_list \in Pointer(AppModuleCoutInfoList)
        /\ content.user_list \in Pointer(UserList)
    BY DEF Content
  <2>2. (\E list \in ToSet(content.app_module_list) : Modules(list)) <=>
          content.app_module_list # << >> /\ Modules(content.app_module_list[1])
    BY <2>1, PointerIs
  <2>3. (\E list \in ToSet(content.user_list) : Users(list)) <=>
          content.user_list # << >> /\ Users(content.user_list[1])
    BY <2>1, PointerIs
  <2>4. /\ content.app_module_list # << >> => content.app_module_list[1] \in AppModuleCoutInfoList
        /\ content.user_list # << >> => content.user_list[1] \in UserList
    BY <2>1, PointerIs
  <2> QED
    BY <1>1, <1>2, <2>2, <2>3, <2>4, NulOfContent
<1>5. body.user_session \in Pointer(UserSessionMsg) /\ body.content \in Pointer(Content)
  BY DEF Body
<1> HIDE DEF InContent, InSession
<1>6. (\E session \in ToSet(body.user_session) : InSession(session)) <=>
        body.user_session # << >> /\ InSession(body.user_session[1])
  BY <1>5, PointerIs
<1>7. (\E content \in ToSet(body.content) : InContent(content)) <=>
        body.content # << >> /\ InContent(body.content[1])
  BY <1>5, PointerIs
<1>8. body.content # << >> => body.content[1] \in Content
  BY <1>5, PointerIs
<1>9. body.content # << >> =>
        (InContent(body.content[1])
           <=> body.content[1] = NewContent \/ NulInContent(SerializeContent(body.content[1])))
  BY <1>4, <1>8
<1> QED
  BY <1>3, <1>6, <1>7, <1>9, NulOfBody DEF InSession

\* So in what a client sends there is one where the body holds an empty part.
LEMMA NulOfMessage ==
  ASSUME NEW pack \in Nat, NEW request \in Requests
  PROVE  NulInSdk(SerializeSdk(Message(pack, request))) <=> HoldsEmptyPart(request.body)
<1> DEFINE header == ClientHeader(pack, request.synced)
<1>1. header \in Header /\ request.body \in Body
  BY ClientHeaderType, ExchangeAssumption
<1>2. /\ header.time # << >> /\ header.time[1] # NewDataTime
      /\ header.host # << >> /\ header.host[1] # NewHost
      /\ header.dest # << >> /\ header.dest[1] # NewHost
  <2>1. ClientTime(request.synced) # NewDataTime
    BY DEF ClientTime, NewDataTime, Now
  <2>2. ClientHost(2, "client") # NewHost /\ ClientHost(1, "server") # NewHost
    BY DEF ClientHost, NewHost
  <2> QED
    BY <2>1, <2>2 DEF ClientHeader
<1> HIDE DEF header
<1>3. NulInSdk(<<Field(1, SerializeHeader(header)), Field(2, SerializeBody(request.body))>>)
        <=> HoldsEmptyPart(request.body)
  BY <1>1, <1>2, NulOfSdk, NulIsEmptyPart
<1> QED
  BY <1>3, MessageFields DEF header

\* Whatever a client that waits puts into its message, lists included, is what
\* the server decodes, and it decodes nothing only where a part of the body is
\* set and empty.  (Serialize, sdk_msg_decode, _InternalParse)
THEOREM ExchangeWaitingIsDecoded == Spec => []WaitingIsDecoded
<1>1. RefineInv => WaitingIsDecoded
  <2> SUFFICES ASSUME RefineInv, client = "waits", wire # << >>
               PROVE  SdkMsgDecode(wire) = IF HoldsEmptyPart(Last(asked).body[1]) THEN << >>
                                           ELSE <<Last(asked)>>
    BY DEF WaitingIsDecoded
  <2> DEFINE message == Last(asked)
  <2>1. asked \in Seq(Sdk) /\ asked # << >> /\ wire = SerializeSdk(message)
    BY DEF RefineInv, ExchangeInv
  <2>2. Len(asked) \in DOMAIN asked /\ Len(asked) \in Nat /\ message = asked[Len(asked)]
    BY <2>1 DEF Last
  <2>3. PICK request \in Requests : message = Message(Len(asked), request)
    BY <2>2 DEF RefineInv, WireInv
  <2>4. message \in Sdk
    BY <2>1, <2>2
  <2> HIDE DEF message
  <2>5. message.body[1] = request.body
    BY <2>3, MessageIs
  <2>6. NulInSdk(wire) <=> HoldsEmptyPart(message.body[1])
    BY <2>1, <2>2, <2>3, <2>5, NulOfMessage
  <2>7. ParseSdk(NewSdk, wire) = message
    <3>1. OfSdk!Parse(NewSdk, SerializeSdk(message)) = message
      BY <2>4, AllLists, SdkIsSound DEF OfSdk!RoundTrips, OfSdk!Reads
    <3> QED
      BY <2>1, <3>1, SdkLoop
  <2> QED
    BY <2>6, <2>7 DEF SdkMsgDecode, message
<1> QED
  BY <1>1, RefineInvariant, PTL

-----------------------------------------------------------------------------
(* A read grows by one field.                                              *)

\* What a field on the wire is, and what it stands for in SdkProtocol.
LEMMA FieldIs ==
  ASSUME RefineInv, NEW i \in DOMAIN wire
  PROVE  \E p \in DOMAIN asked, request \in Requests :
           /\ asked[p] = Message(p, request)
           /\ \/ /\ wire[i] = Field(1, SerializeHeader(ClientHeader(p, request.synced)))
                 /\ Wire[i] = [kind |-> "header", pack |-> p]
              \/ /\ wire[i] = Field(2, SerializeBody(request.body))
                 /\ Wire[i] = [kind |-> "body", pack |-> p]
<1> DEFINE L == Len(asked)
           W == Len(wire)
           k == 2 * L - W + i
           p == (k + 1) \div 2
<1>1. L \in Nat /\ W \in Nat /\ W <= 2 * L /\ i \in 1 .. W /\ DOMAIN asked = 1 .. L
  BY DEF RefineInv, ExchangeInv, WireInv
<1>2. wire[i] = Sent(asked, k)
  BY DEF RefineInv, WireInv
<1>3. Wire[i] = [kind |-> IF wire[i].number = 1 THEN "header" ELSE "body", pack |-> p]
  BY DEF Wire
<1> HIDE DEF L, W
<1>4. k \in Nat \ {0} /\ k <= 2 * L
  BY <1>1
<1> HIDE DEF k
<1>5. p \in Nat \ {0} /\ (k = 2 * p - 1 \/ k = 2 * p)
  BY <1>4, Halves
<1>6. wire[i] = IF k = 2 * p - 1 THEN Field(1, SerializeHeader(asked[p].header[1]))
                ELSE Field(2, SerializeBody(asked[p].body[1]))
  BY <1>2 DEF Sent
<1> HIDE DEF p
<1>7. p \in DOMAIN asked
  BY <1>1, <1>4, <1>5
<1>8. PICK request \in Requests : asked[p] = Message(p, request)
  BY <1>7 DEF RefineInv, WireInv
<1>9. /\ asked[p].header[1] = ClientHeader(p, request.synced)
      /\ asked[p].body[1] = request.body
  BY <1>8, MessageIs
<1>10. CASE k = 2 * p - 1
  <2>1. wire[i] = Field(1, SerializeHeader(ClientHeader(p, request.synced))) /\ wire[i].number = 1
    BY <1>6, <1>9, <1>10 DEF Field
  <2> QED
    BY <1>3, <1>7, <1>8, <2>1
<1>11. CASE k # 2 * p - 1
  <2>1. wire[i] = Field(2, SerializeBody(request.body)) /\ wire[i].number # 1
    BY <1>6, <1>9, <1>11 DEF Field
  <2> QED
    BY <1>3, <1>7, <1>8, <2>1
<1> QED
  BY <1>10, <1>11

\* Reading one field more.
LEMMA DecodedMore ==
  ASSUME ExchangeInv, NEW n \in Nat, n < Len(wire)
  PROVE  Decoded(1, n + 1) = TakeSdk(Decoded(1, n), wire[n + 1])
<1> DEFINE F == SdkWire(ListNumbers)
           first == SubSeq(wire, 1, n)
           field == wire[n + 1]
<1>1. wire \in Seq(F)
  BY DEF ExchangeInv
<1> HIDE DEF F
<1>2. first \in Seq(F) /\ field \in F /\ SubSeq(wire, 1, n + 1) = Append(first, field)
  BY <1>1
<1> HIDE DEF first, field
<1> DEFINE last == <<field>>
<1>3. last \in Seq(F) /\ Append(first, field) = first \o last
  BY <1>2, AppendIsConcat
<1>4. \A m : OfSdk!Parse(m, last) = TakeSdk(m, field)
  BY OfSdk!ParseOne
<1> HIDE DEF last
<1>5. OfSdk!Parse(NewSdk, first \o last) = OfSdk!Parse(OfSdk!Parse(NewSdk, first), last)
  BY <1>2, <1>3, OfSdk!ParseParts
<1> QED
  BY <1>2, <1>3, <1>4, <1>5, DecodedIs DEF first, field

\* What SdkProtocol makes of one field more.
LEMMA ProtocolMore ==
  ASSUME ExchangeInv, NEW n \in Nat, n < Len(wire)
  PROVE  LET less == SubSeq(Wire, 1, n)
             more == SubSeq(Wire, 1, n + 1)
             field == Wire[n + 1]
             Body0(value, default) == IF field.kind = "body" THEN value ELSE default
             request == Asked(asked[field.pack])
         IN  /\ Protocol!Pack(more)
                  = MergeScalar(Protocol!Pack(less), IF field.kind = "header" THEN field.pack ELSE 0, 0)
             /\ field.pack \in DOMAIN asked =>
                  /\ Protocol!Url(more)
                       = MergeScalar(Protocol!Url(less), Body0(request.url, ""), "")
                  /\ Protocol!Method(more)
                       = MergeScalar(Protocol!Method(less), Body0(request.method, 0), 0)
                  /\ Protocol!Session(more)
                       = MergeScalar(Protocol!Session(less), Body0(request.session, 0), 0)
<1> DEFINE less == SubSeq(Wire, 1, n)
           more == SubSeq(Wire, 1, n + 1)
           field == Wire[n + 1]
           request == Asked(asked[field.pack])
<1>1. /\ DOMAIN less = 1 .. n /\ DOMAIN more = 1 .. n + 1
      /\ \A i \in 1 .. n : more[i] = less[i]
      /\ more[n + 1] = field
  <2>1. DOMAIN Wire = 1 .. Len(wire) /\ Len(wire) \in Nat
    BY DEF Wire, ExchangeInv
  <2> DEFINE S == {Wire[i] : i \in 1 .. Len(wire)}
  <2>2. \A i \in 1 .. Len(wire) : Wire[i] \in S
    OBVIOUS
  <2>3. Wire = [i \in 1 .. Len(wire) |-> Wire[i]]
    BY <2>1 DEF Wire
  <2>4. Wire \in Seq(S) /\ Len(Wire) = Len(wire)
    <3> HIDE DEF S
    <3> QED
      BY <2>1, <2>2, <2>3
  <2> HIDE DEF S
  <2>5. n + 1 <= Len(Wire)
    BY <2>1, <2>4
  <2> QED
    BY <2>4, <2>5
<1> HIDE DEF less, more, field
<1>2. Protocol!Pack(more) = MergeScalar(Protocol!Pack(less), IF field.kind = "header" THEN field.pack ELSE 0, 0)
  <2> DEFINE f == [i \in DOMAIN less |-> IF less[i].kind = "header" THEN less[i].pack ELSE 0]
             g == [i \in DOMAIN more |-> IF more[i].kind = "header" THEN more[i].pack ELSE 0]
  <2>1. DOMAIN f = 1 .. n /\ DOMAIN g = 1 .. n + 1 /\ \A i \in 1 .. n : g[i] = f[i]
    BY <1>1
  <2>2. g[n + 1] = IF field.kind = "header" THEN field.pack ELSE 0
    BY <1>1
  <2>3. Protocol!Pack(less) = Protocol!LastSet(f, 0) /\ Protocol!Pack(more) = Protocol!LastSet(g, 0)
    BY DEF Protocol!Pack
  <2> HIDE DEF f, g
  <2> QED
    BY <2>1, <2>2, <2>3, LastSetNext
<1>3. ASSUME field.pack \in DOMAIN asked
      PROVE  /\ Protocol!Url(more)
                  = MergeScalar(Protocol!Url(less), IF field.kind = "body" THEN request.url ELSE "", "")
             /\ Protocol!Method(more)
                  = MergeScalar(Protocol!Method(less), IF field.kind = "body" THEN request.method ELSE 0, 0)
             /\ Protocol!Session(more)
                  = MergeScalar(Protocol!Session(less), IF field.kind = "body" THEN request.session ELSE 0, 0)
  <2> DEFINE all == [p \in DOMAIN asked |-> Asked(asked[p])]
             ValuesOf(fields, x, default) ==
               [i \in DOMAIN fields |-> IF fields[i].kind = "body" THEN all[fields[i].pack][x] ELSE default]
  <2>1. all[field.pack] = request
    BY <1>3
  <2> HIDE DEF all, request
  <2>2. ASSUME NEW x, NEW default
        PROVE  Protocol!LastSet(ValuesOf(more, x, default), default)
                 = MergeScalar(Protocol!LastSet(ValuesOf(less, x, default), default),
                               IF field.kind = "body" THEN request[x] ELSE default, default)
    <3> DEFINE f == ValuesOf(less, x, default)
               g == ValuesOf(more, x, default)
    <3>1. DOMAIN f = 1 .. n /\ DOMAIN g = 1 .. n + 1 /\ \A i \in 1 .. n : g[i] = f[i]
      BY <1>1
    <3>2. g[n + 1] = IF field.kind = "body" THEN request[x] ELSE default
      BY <1>1, <2>1
    <3> HIDE DEF f, g, ValuesOf
    <3> QED
      BY <3>1, <3>2, LastSetNext DEF f, g
  <2>3. ASSUME NEW fields
        PROVE  /\ Protocol!Url(fields) = Protocol!LastSet(ValuesOf(fields, "url", ""), "")
               /\ Protocol!Method(fields) = Protocol!LastSet(ValuesOf(fields, "method", 0), 0)
               /\ Protocol!Session(fields) = Protocol!LastSet(ValuesOf(fields, "session", 0), 0)
    BY DEF all, Protocol!Url, Protocol!Method, Protocol!Session, Protocol!IsBody, Protocol!NoUrl
  <2> HIDE DEF ValuesOf
  <2> QED
    BY <2>2, <2>3
<1> QED
  BY <1>2, <1>3 DEF less, more, field, request

-----------------------------------------------------------------------------
(* What is read is what SdkProtocol takes it for.                          *)

\* A read of any number of fields is of the generated types.
LEMMA DecodedType ==
  ASSUME ExchangeInv, NEW n \in 0 .. Len(wire)
  PROVE  Decoded(1, n) \in Sdk
<1> DEFINE F == SdkWire(ListNumbers)
<1>1. OfSdk!Closed(Sdk, F) /\ NewSdk \in Sdk
  BY AllLists, SdkIsSound DEF OfSdk!Closed
<1>2. wire \in Seq(F)
  BY DEF ExchangeInv
<1> HIDE DEF F
<1>3. SubSeq(wire, 1, n) \in Seq(F)
  BY <1>2
<1> QED
  BY <1>1, <1>3, DecodedIs, OfSdk!ParseStays

\* The first n fields on the wire are decoded to what SdkProtocol takes them for.
DecodedAs(n) ==
  LET request == Decoded(1, n)
      fields == SubSeq(Wire, 1, n)
      pack == Protocol!Pack(fields)
      body == Deref(request.body, NewBody)
  IN  /\ \/ pack = 0 /\ request.header = << >>
         \/ pack \in DOMAIN asked /\ request.header = asked[pack].header
      /\ body.url = Protocol!Url(fields)
      /\ body.method = Protocol!Method(fields)
      /\ UserType(body) = Protocol!Session(fields)
      /\ \/ request.body = << >>
         \/ body.url \in Urls /\ body.method \in UsedMethods \cup {0}

\* Nothing is read from nothing.
LEMMA DecodedNone ==
  ASSUME RefineInv
  PROVE  DecodedAs(0)
<1>1. SubSeq(wire, 1, 0) = << >> /\ DOMAIN SubSeq(Wire, 1, 0) = {}
  <2>1. wire \in Seq(SdkWire(ListNumbers))
    BY DEF RefineInv, ExchangeInv
  <2> QED
    BY <2>1
<1>2. Decoded(1, 0) = NewSdk
  BY <1>1, DecodedIs, OfSdk!ParseNothing
<1> DEFINE fields == SubSeq(Wire, 1, 0)
<1> HIDE DEF fields
<1>3. DOMAIN fields = {}
  BY <1>1 DEF fields
<1>4. /\ Protocol!Pack(fields) = 0 /\ Protocol!Url(fields) = ""
      /\ Protocol!Method(fields) = 0 /\ Protocol!Session(fields) = 0
  <2>1. Protocol!Pack(fields) = 0
    BY <1>3, LastSetNone DEF Protocol!Pack
  <2>2. Protocol!Url(fields) = ""
    BY <1>3, LastSetNone DEF Protocol!Url, Protocol!NoUrl
  <2>3. Protocol!Method(fields) = 0
    BY <1>3, LastSetNone DEF Protocol!Method
  <2>4. Protocol!Session(fields) = 0
    BY <1>3, LastSetNone DEF Protocol!Session
  <2> QED
    BY <2>1, <2>2, <2>3, <2>4
<1>5. /\ NewSdk.header = << >> /\ NewSdk.body = << >>
      /\ NewBody.url = "" /\ NewBody.method = 0 /\ UserType(NewBody) = 0
  BY DEF NewSdk, NewBody, UserType, Deref, NewUserSessionMsg
<1> QED
  BY <1>2, <1>4, <1>5 DEF DecodedAs, Deref, fields

\* What a message asks.
LEMMA AskedIs ==
  ASSUME NEW p, NEW request \in Requests
  PROVE  /\ Asked(Message(p, request)) =
              [session |-> UserType(request.body), url |-> request.body.url,
               method |-> request.body.method,
               synced |-> ClientTime(request.synced).in_time <= Now]
         /\ request.body \in Body
         /\ request.body.url \in Urls /\ request.body.method \in UsedMethods
         /\ UserType(request.body) \in Sessions
<1>1. ASSUME NEW q
      PROVE  Asked(Message(q, request)) =
               [session |-> UserType(request.body), url |-> request.body.url,
                method |-> request.body.method,
                synced |-> ClientTime(request.synced).in_time <= Now]
  <2> DEFINE header == ClientHeader(q, request.synced)
             m == [header |-> <<header>>, body |-> <<request.body>>, footer |-> << >>]
  <2>1. Message(q, request) = m
    BY MessageIs
  <2>2. Deref(m.body, NewBody) = request.body /\ Deref(m.header, NewHeader) = header
    BY DEF Deref
  <2>3. Deref(header.time, NewDataTime) = ClientTime(request.synced)
    BY DEF ClientHeader, Deref
  <2> HIDE DEF m, header
  <2> QED
    BY <2>1, <2>2, <2>3 DEF Asked, UserType
<1>2. request.body \in Body /\ request.body.url \in Urls
  BY ExchangeAssumption DEF Urls
<1>3. Asked(Message(1, request)) \in Bodies
  BY DEF Bodies
<1>4. request.body.method \in UsedMethods /\ UserType(request.body) \in Sessions
  <2>1. /\ Asked(Message(1, request)).method = request.body.method
        /\ Asked(Message(1, request)).session = UserType(request.body)
    BY <1>1
  <2> QED
    BY <1>3, <2>1 DEF UsedMethods, Sessions
<1> QED
  BY <1>1, <1>2, <1>4

\* One field more.
LEMMA DecodedNext ==
  ASSUME RefineInv, NEW n \in Nat, n < Len(wire), DecodedAs(n)
  PROVE  DecodedAs(n + 1)
<1> DEFINE d == Decoded(1, n)
           e == Decoded(1, n + 1)
           less == SubSeq(Wire, 1, n)
           more == SubSeq(Wire, 1, n + 1)
           field == Wire[n + 1]
           pack == Protocol!Pack(less)
           b == Deref(d.body, NewBody)
<1>1. ExchangeInv /\ n + 1 \in DOMAIN wire
  BY DEF RefineInv, ExchangeInv
<1>2. e = TakeSdk(d, wire[n + 1])
  BY <1>1, DecodedMore
<1>3. d \in Sdk /\ b \in Body
  <2>1. d \in Sdk
    BY <1>1, DecodedType
  <2>2. NewBody \in Body
    BY NewTexts, NoPointer DEF NewBody, Body
  <2> HIDE DEF d
  <2> QED
    BY <2>1, <2>2 DEF Sdk, Pointer, Deref
<1>4. PICK p \in DOMAIN asked, request \in Requests :
        /\ asked[p] = Message(p, request)
        /\ \/ /\ wire[n + 1] = Field(1, SerializeHeader(ClientHeader(p, request.synced)))
              /\ field = [kind |-> "header", pack |-> p]
           \/ /\ wire[n + 1] = Field(2, SerializeBody(request.body))
              /\ field = [kind |-> "body", pack |-> p]
  BY <1>1, FieldIs
<1> DEFINE c == request.body
<1>5. p \in Nat \ {0} /\ field.pack = p
  BY <1>1, <1>4 DEF ExchangeInv
<1>6. /\ Asked(asked[p]).session = UserType(c) /\ Asked(asked[p]).url = c.url
      /\ Asked(asked[p]).method = c.method
      /\ c \in Body /\ c.url \in Urls /\ c.method \in UsedMethods
  BY <1>4, AskedIs
<1>7. /\ \/ pack = 0 /\ d.header = << >>
         \/ pack \in DOMAIN asked /\ d.header = asked[pack].header
      /\ b.url = Protocol!Url(less)
      /\ b.method = Protocol!Method(less)
      /\ UserType(b) = Protocol!Session(less)
      /\ d.body = << >> \/ (b.url \in Urls /\ b.method \in UsedMethods \cup {0})
  BY DEF DecodedAs
<1>8. /\ Protocol!Pack(more) = MergeScalar(pack, IF field.kind = "header" THEN p ELSE 0, 0)
      /\ Protocol!Url(more)
           = MergeScalar(Protocol!Url(less), IF field.kind = "body" THEN c.url ELSE "", "")
      /\ Protocol!Method(more)
           = MergeScalar(Protocol!Method(less), IF field.kind = "body" THEN c.method ELSE 0, 0)
      /\ Protocol!Session(more)
           = MergeScalar(Protocol!Session(less), IF field.kind = "body" THEN UserType(c) ELSE 0, 0)
  <2> HIDE DEF less, more, field, c
  <2> QED
    BY <1>1, <1>5, <1>6, ProtocolMore DEF less, more, field
<1>9. DecodedAs(n + 1) <=>
        LET body == Deref(e.body, NewBody)
        IN  /\ \/ Protocol!Pack(more) = 0 /\ e.header = << >>
               \/ Protocol!Pack(more) \in DOMAIN asked /\ e.header = asked[Protocol!Pack(more)].header
            /\ body.url = Protocol!Url(more)
            /\ body.method = Protocol!Method(more)
            /\ UserType(body) = Protocol!Session(more)
            /\ e.body = << >> \/ (body.url \in Urls /\ body.method \in UsedMethods \cup {0})
  BY DEF DecodedAs
<1>10. CASE /\ wire[n + 1] = Field(1, SerializeHeader(ClientHeader(p, request.synced)))
            /\ field = [kind |-> "header", pack |-> p]
  <2> DEFINE new == ClientHeader(p, request.synced)
             old == Deref(d.header, NewHeader)
  <2>1. wire[n + 1].number = 1 /\ wire[n + 1].value = SerializeHeader(new)
    BY <1>10 DEF Field
  <2> HIDE DEF d
  <2>2. e = [d EXCEPT !.header = <<ParseHeader(old, SerializeHeader(new))>>]
    BY <1>2, <2>1 DEF TakeSdk, TakeMessage
  <2>3. ParseHeader(old, SerializeHeader(new)) = new
    <3>1. CASE d.header = << >>
      BY <1>5, <3>1, HeaderReplaces DEF Deref
    <3>2. CASE pack \in DOMAIN asked /\ d.header = asked[pack].header
      <4>1. PICK r \in Requests : asked[pack] = Message(pack, r)
        BY <3>2 DEF RefineInv, WireInv
      <4>2. d.header = <<ClientHeader(pack, r.synced)>> /\ pack \in Nat
        BY <1>1, <3>2, <4>1, MessageIs DEF ExchangeInv
      <4> QED
        BY <1>5, <4>2, HeaderReplaces DEF Deref
    <3> QED
      BY <1>7, <3>1, <3>2
  <2>4. e.header = asked[p].header /\ e.body = d.body
    <3>1. asked[p].header = <<new>>
      BY <1>4, MessageIs
    <3> HIDE DEF new
    <3>2. e = [d EXCEPT !.header = <<new>>]
      BY <2>2, <2>3
    <3> QED
      BY <1>3, <3>1, <3>2 DEF Sdk
  <2>5. field.kind = "header" /\ field.kind # "body"
    BY <1>10
  <2>6. /\ Protocol!Pack(more) = p /\ Protocol!Url(more) = Protocol!Url(less)
        /\ Protocol!Method(more) = Protocol!Method(less)
        /\ Protocol!Session(more) = Protocol!Session(less)
    BY <1>5, <1>8, <2>5 DEF MergeScalar
  <2> HIDE DEF e, more, less, field, pack
  <2> QED
    BY <1>4, <1>7, <1>9, <2>4, <2>6
<1>11. CASE /\ wire[n + 1] = Field(2, SerializeBody(c))
            /\ field = [kind |-> "body", pack |-> p]
  <2> DEFINE body == ParseBody(b, SerializeBody(c))
  <2>1. wire[n + 1].number = 2 /\ wire[n + 1].value = SerializeBody(c)
    BY <1>11 DEF Field
  <2> HIDE DEF d, c
  <2>2. e = [d EXCEPT !.body = <<body>>]
    BY <1>2, <2>1 DEF TakeSdk, TakeMessage
  <2> HIDE DEF b
  <2>3. /\ body.url = MergeScalar(b.url, c.url, "")
        /\ body.method = MergeScalar(b.method, c.method, 0)
        /\ UserType(body) = MergeScalar(UserType(b), UserType(c), 0)
    BY <1>3, <1>6, BodyAfter
  <2> HIDE DEF body
  <2>4. e.header = d.header /\ Deref(e.body, NewBody) = body
    BY <1>3, <2>2 DEF Sdk, Deref
  <2>5. field.kind # "header" /\ field.kind = "body"
    BY <1>11
  <2>6. /\ Protocol!Pack(more) = pack /\ body.url = Protocol!Url(more)
        /\ body.method = Protocol!Method(more) /\ UserType(body) = Protocol!Session(more)
    BY <1>7, <1>8, <2>3, <2>5 DEF MergeScalar
  <2>7. body.url \in Urls /\ body.method \in UsedMethods \cup {0}
    <3>1. CASE d.body = << >>
      <4>1. b = NewBody
        BY <3>1 DEF b, Deref
      <4>2. b.url = "" /\ b.method = 0
        BY <4>1 DEF NewBody
      <4> QED
        BY <1>6, <2>3, <4>2 DEF MergeScalar
    <3>2. CASE b.url \in Urls /\ b.method \in UsedMethods \cup {0}
      BY <1>6, <2>3, <3>2 DEF MergeScalar
    <3> QED
      BY <1>7, <3>1, <3>2
  <2> HIDE DEF e, more, less, field, pack
  <2> QED
    BY <1>7, <1>9, <2>4, <2>6, <2>7
<1> QED
  BY <1>4, <1>10, <1>11

\* However many fields are read.
LEMMA DecodedIsAsked ==
  ASSUME RefineInv, NEW n \in 0 .. Len(wire)
  PROVE  DecodedAs(n)
<1> DEFINE S == {k \in Nat : k > Len(wire) \/ DecodedAs(k)}
<1>1. 0 \in S
  BY DecodedNone
<1>2. ASSUME NEW k \in S PROVE k + 1 \in S
  <2>1. Len(wire) \in Nat
    BY DEF RefineInv, ExchangeInv
  <2>2. CASE k + 1 > Len(wire)
    BY <2>2
  <2>3. CASE k + 1 <= Len(wire)
    <3>1. k \in Nat /\ k < Len(wire) /\ DecodedAs(k)
      BY <2>1, <2>3
    <3> QED
      BY <3>1, DecodedNext
  <2> QED
    BY <2>1, <2>2, <2>3
<1>3. S \subseteq Nat
  OBVIOUS
<1>4. n \in S
  <2>1. n \in Nat
    OBVIOUS
  <2> HIDE DEF S
  <2> QED
    BY <1>1, <1>2, <1>3, <2>1, NatSetInduction
<1> QED
  BY <1>4

-----------------------------------------------------------------------------
(* The header check and the middlewares.                                   *)

\* The header check, field by field, refuses what SdkProtocol refuses.
LEMMA HeaderCheckIs ==
  ASSUME RefineInv, NEW n \in 0 .. Len(wire)
  PROVE  SdkHeaderCheck(Deref(Decoded(1, n).header, NewHeader))
           <=> Protocol!HeaderCheck(Protocol!Pack(SubSeq(Wire, 1, n)))
<1> DEFINE pack == Protocol!Pack(SubSeq(Wire, 1, n))
           header == Decoded(1, n).header
<1>1. \/ pack = 0 /\ header = << >>
      \/ pack \in DOMAIN asked /\ header = asked[pack].header
  BY DecodedIsAsked DEF DecodedAs
<1> HIDE DEF pack, header
<1>2. CASE pack = 0 /\ header = << >>
  <2>1. ~Protocol!HeaderCheck(pack)
    BY <1>2 DEF Protocol!HeaderCheck
  <2>2. ~SdkHeaderCheck(Deref(header, NewHeader))
    BY <1>2 DEF Deref, NewHeader, SdkHeaderCheck, SdkMagic
  <2> QED
    BY <2>1, <2>2 DEF pack, header
<1>3. CASE pack \in DOMAIN asked /\ header = asked[pack].header
  <2>1. PICK r \in Requests : asked[pack] = Message(pack, r)
    BY <1>3 DEF RefineInv, WireInv
  <2>2. pack # 0
    BY <1>3 DEF RefineInv, ExchangeInv
  <2>3. Asked(asked[pack]).synced = (ClientTime(r.synced).in_time <= Now)
    BY <2>1, AskedIs
  <2>4. Protocol!HeaderCheck(pack) <=> ClientTime(r.synced).in_time <= Now
    BY <1>3, <2>2, <2>3 DEF Protocol!HeaderCheck
  <2>5. Deref(header, NewHeader) = ClientHeader(pack, r.synced)
    BY <1>3, <2>1, MessageIs DEF Deref
  <2>6. ClientTime(r.synced).in_time \in Nat
    BY DEF ClientTime, Now
  <2>7. SdkHeaderCheck(ClientHeader(pack, r.synced)) <=> ClientTime(r.synced).in_time <= Now
    BY <2>6 DEF SdkHeaderCheck, ClientHeader, ClientHost, Deref, Interface, Now, Tcp, Ipv4
  <2> QED
    BY <2>4, <2>5, <2>7 DEF pack, header
<1> QED
  BY <1>1, <1>2, <1>3

\* Of the middlewares only the user middleware changes a response, and once.
LEMMA OperatedIs ==
  ASSUME RefineInv, NEW session, NEW accepted, NEW m, NEW k \in 0 .. Len(midwares)
  PROVE  Operated(session, accepted, m)[k]
           = IF \E j \in 1 .. k : midwares[j].name = UserMidware
             THEN SdkUserMidware(session, accepted, m) ELSE m
<1> DEFINE out == SdkUserMidware(session, accepted, m)
           len == Len(midwares)
           Had(i) == \E j \in 1 .. i : midwares[j].name = UserMidware
           done(f) == f = [i \in 0 .. len |->
                        IF i = 0 THEN m
                        ELSE IF midwares[i].enable THEN Operate(midwares[i], session, accepted, f[i - 1])
                        ELSE f[i - 1]]
           h == [i \in 0 .. len |-> IF Had(i) THEN out ELSE m]
           after == Operated(session, accepted, m)
<1>1. len \in Nat /\ DOMAIN midwares = 1 .. len
  BY DEF RefineInv, ExchangeInv
<1>2. \A i, j \in 1 .. len : midwares[i].name = midwares[j].name => i = j
  BY <1>1 DEF RefineInv, ListInv
<1>3. \A i \in 1 .. len : midwares[i].name = UserMidware => midwares[i].enable
  BY <1>1 DEF RefineInv, ListInv
<1>4. \A mid, n : Operate(mid, session, accepted, n)
                    = IF mid.name = UserMidware THEN SdkUserMidware(session, accepted, n) ELSE n
  BY DEF Operate
<1>5. after = CHOOSE f : done(f)
  BY DEF Operated
<1> HIDE DEF after, len, out
<1>6. Had(0) = FALSE
  BY <1>1
<1>7. ASSUME NEW i \in 1 .. len
      PROVE  /\ midwares[i].name = UserMidware => Had(i) /\ ~Had(i - 1)
             /\ midwares[i].name # UserMidware => (Had(i) <=> Had(i - 1))
  <2>1. 1 .. i = (1 .. i - 1) \cup {i} /\ i \notin 1 .. i - 1 /\ 1 .. i - 1 \subseteq 1 .. len
    BY <1>1
  <2> QED
    BY <1>2, <2>1
<1>8. ASSUME NEW f, NEW i \in 1 .. len, f = (IF Had(i - 1) THEN out ELSE m)
      PROVE  (IF midwares[i].enable THEN Operate(midwares[i], session, accepted, f) ELSE f)
               = IF Had(i) THEN out ELSE m
  <2>1. CASE midwares[i].name = UserMidware
    <3>1. Had(i) /\ f = m /\ midwares[i].enable
      BY <1>3, <1>7, <1>8, <2>1
    <3> QED
      BY <1>4, <2>1, <3>1 DEF out
  <2>2. CASE midwares[i].name # UserMidware
    <3>1. Operate(midwares[i], session, accepted, f) = f
      BY <1>4, <2>2
    <3>2. f = IF Had(i) THEN out ELSE m
      BY <1>7, <1>8, <2>2
    <3> QED
      BY <3>1, <3>2
  <2> QED
    BY <2>1, <2>2
<1> HIDE DEF Had
<1>9. done(h)
  <2>1. \A i \in 0 .. len : h[i] = IF Had(i) THEN out ELSE m
    OBVIOUS
  <2>2. h = [i \in 0 .. len |-> h[i]]
    OBVIOUS
  <2> HIDE DEF h
  <2>3. ASSUME NEW i \in 0 .. len
        PROVE  h[i] = IF i = 0 THEN m
                      ELSE IF midwares[i].enable THEN Operate(midwares[i], session, accepted, h[i - 1])
                      ELSE h[i - 1]
    <3>1. CASE i = 0
      BY <1>6, <2>1, <3>1
    <3>2. CASE i # 0
      <4>1. i \in 1 .. len /\ i - 1 \in 0 .. len
        BY <1>1, <3>2
      <4>2. h[i - 1] = IF Had(i - 1) THEN out ELSE m
        BY <2>1, <4>1
      <4> QED
        BY <1>8, <2>1, <3>2, <4>1, <4>2
    <3> QED
      BY <3>1, <3>2
  <2> QED
    BY <2>2, <2>3
<1>10. done(after)
  <2> HIDE DEF done
  <2> QED
    BY <1>5, <1>9
<1>11. after[0] = m
  BY <1>1, <1>10
<1>12. ASSUME NEW i \in 1 .. len
       PROVE  after[i] = IF midwares[i].enable
                         THEN Operate(midwares[i], session, accepted, after[i - 1]) ELSE after[i - 1]
  <2>1. i \in 0 .. len /\ i # 0
    BY <1>1
  <2> QED
    BY <1>10, <2>1
<1> HIDE DEF done
<1> DEFINE S == {i \in Nat : i > len \/ after[i] = IF Had(i) THEN out ELSE m}
<1>13. 0 \in S
  BY <1>6, <1>11
<1>14. ASSUME NEW i \in S PROVE i + 1 \in S
  <2>1. CASE i + 1 > len
    BY <1>1, <2>1
  <2>2. CASE i + 1 <= len
    <3>1. i \in Nat /\ i + 1 \in 1 .. len /\ (i + 1) - 1 = i /\ after[i] = IF Had(i) THEN out ELSE m
      BY <1>1, <2>2
    <3>2. after[i + 1] = IF midwares[i + 1].enable
                         THEN Operate(midwares[i + 1], session, accepted, after[i]) ELSE after[i]
      BY <1>12, <3>1
    <3>3. after[i + 1] = IF Had(i + 1) THEN out ELSE m
      BY <1>8, <3>1, <3>2
    <3> QED
      BY <3>1, <3>3
  <2> QED
    BY <1>1, <2>1, <2>2
<1>15. k \in S
  <2>1. k \in Nat /\ S \subseteq Nat
    OBVIOUS
  <2> HIDE DEF S
  <2> QED
    BY <1>13, <1>14, <2>1, NatSetInduction
<1>16. after[k] = IF Had(k) THEN out ELSE m
  BY <1>1, <1>15 DEF len
<1> QED
  BY <1>16 DEF after, Had, out

\* What the list makes of a request, by whether the user middleware is in it.
LEMMA MidwareIs ==
  ASSUME RefineInv, NEW session, NEW accepted \in BOOLEAN, NEW m
  PROVE  LET passed == SdkMidwareFunction(session, accepted, m)
         IN  /\ Refuses(accepted) <=> IsMidwareExist(UserMidware) /\ ~accepted
             /\ ~IsMidwareExist(UserMidware) => passed = m
             /\ IsMidwareExist(UserMidware) /\ accepted =>
                  passed = SdkUserMidware(session, accepted, m)
             /\ Refuses(accepted) =>
                  passed = SdkSetResult(Error, UserMidware, SdkUserMidware(session, accepted, m))
<1> DEFINE failing == Failing(accepted)
           len == Len(midwares)
<1>1. len \in Nat /\ DOMAIN midwares = 1 .. len
  BY DEF RefineInv, ExchangeInv
<1>2. \A i, j \in 1 .. len : midwares[i].name = midwares[j].name => i = j
  BY <1>1 DEF RefineInv, ListInv
<1>3. \A i \in 1 .. len : midwares[i].name = UserMidware => midwares[i].enable
  BY <1>1 DEF RefineInv, ListInv
<1>4. failing = IF accepted THEN {} ELSE {i \in 1 .. len : midwares[i].name = UserMidware}
  BY <1>1, <1>3 DEF Failing
<1>5. IsMidwareExist(UserMidware) <=> \E i \in 1 .. len : midwares[i].name = UserMidware
  BY <1>1 DEF IsMidwareExist
<1> HIDE DEF failing, len
<1>6. Refuses(accepted) <=> IsMidwareExist(UserMidware) /\ ~accepted
  BY <1>4, <1>5 DEF Refuses, failing
<1>7. \A i \in 0 .. len : Operated(session, accepted, m)[i]
           = IF \E j \in 1 .. i : midwares[j].name = UserMidware
             THEN SdkUserMidware(session, accepted, m) ELSE m
  BY OperatedIs DEF len
<1>8. CASE failing = {}
  <2>1. SdkMidwareFunction(session, accepted, m) = Operated(session, accepted, m)[len]
    BY <1>8 DEF SdkMidwareFunction, failing, len
  <2>2. len \in 0 .. len
    BY <1>1
  <2>3. Operated(session, accepted, m)[len]
           = IF IsMidwareExist(UserMidware) THEN SdkUserMidware(session, accepted, m) ELSE m
    BY <1>5, <1>7, <2>2
  <2>4. ~Refuses(accepted)
    BY <1>8 DEF Refuses, failing
  <2> QED
    BY <1>6, <2>1, <2>3, <2>4
<1>9. CASE failing # {}
  <2> DEFINE first == Min(failing)
  <2>1. first \in failing
    <3>1. failing \in SUBSET Nat
      BY <1>1, <1>4
    <3> QED
      BY <1>9, <3>1, LeastIndex
  <2>2. SdkMidwareFunction(session, accepted, m)
          = SdkSetResult(Error, midwares[first].name, Operated(session, accepted, m)[first])
    BY <1>9 DEF SdkMidwareFunction, failing
  <2> HIDE DEF first
  <2>3. first \in 1 .. len /\ first \in 0 .. len /\ first \in 1 .. first
        /\ midwares[first].name = UserMidware
    BY <1>1, <1>4, <2>1
  <2>4. Operated(session, accepted, m)[first] = SdkUserMidware(session, accepted, m)
    BY <1>7, <2>3
  <2>5. Refuses(accepted)
    BY <1>9 DEF Refuses, failing
  <2> QED
    BY <1>6, <2>2, <2>3, <2>4, <2>5
<1> QED
  BY <1>8, <1>9

-----------------------------------------------------------------------------
(* What a response tells.                                                  *)

\* Setting the result of the request changes what is told of it.
LEMMA SetResultIs ==
  ASSUME NEW m \in Sdk, NEW status \in Nat, NEW code \in STRING
  PROVE  LET n == SdkSetResult(status, code, m)
         IN  /\ n \in Sdk
             /\ Told(n) = [Told(m) EXCEPT !.sdk = IF status = 0 THEN "OK" ELSE "ERROR"]
<1> DEFINE old == Deref(Deref(m.footer, NewFooter).result, NewResult)
           set == [status_code |-> status, code |-> code]
           result == [old EXCEPT !.sdk_result = <<set>>]
           n == SdkSetResult(status, code, m)
<1>1. old \in Result
  BY SdkParts
<1>2. n = [m EXCEPT !.footer = <<[Deref(m.footer, NewFooter) EXCEPT !.result = <<result>>]>>]
  BY DEF SdkSetResult
<1> HIDE DEF old, n
<1>3. set \in SdkResult /\ set.status_code = status
  BY DEF SdkResult
<1> HIDE DEF set
<1>4. <<set>> \in Pointer(SdkResult)
  BY <1>3, SomePointer
<1>5. result \in Result /\ result.sdk_result = <<set>> /\ result.content_result = old.content_result
  BY <1>1, <1>4 DEF Result
<1> HIDE DEF result
<1>6. n \in Sdk /\ n.body = m.body /\ Deref(Deref(n.footer, NewFooter).result, NewResult) = result
  BY <1>2, <1>5, OtherResult
<1>7. Told(n) = [Told(m) EXCEPT !.sdk = IF status = 0 THEN "OK" ELSE "ERROR"]
  <2>1. <<set>> # << >> /\ <<set>>[1] = set
    OBVIOUS
  <2> DEFINE now == Deref(Deref(n.footer, NewFooter).result, NewResult)
  <2>2. /\ now.sdk_result # << >> /\ now.sdk_result[1].status_code = status
        /\ now.content_result = old.content_result
    BY <1>3, <1>5, <1>6, <2>1
  <2> HIDE DEF now
  <2>3. Told(n) =
          [url |-> Deref(m.body, NewBody).url, method |-> Deref(m.body, NewBody).method,
           sdk |-> IF status = 0 THEN "OK" ELSE "ERROR", content |-> Told(m).content]
    BY <1>6, <2>2 DEF Told, now, old
  <2> QED
    BY <2>3 DEF Told
<1> QED
  BY <1>6, <1>7 DEF n

\* Setting that of the content changes what is told of it.
LEMMA ContentSetResultIs ==
  ASSUME NEW m \in Sdk, NEW status \in Nat, NEW code \in STRING
  PROVE  LET n == SdkContentSetResult(status, code, m)
         IN  /\ n \in Sdk
             /\ Told(n) = [Told(m) EXCEPT !.content = IF status = 0 THEN "R_CODE_OK" ELSE "R_CODE_ERROR"]
<1> DEFINE old == Deref(Deref(m.footer, NewFooter).result, NewResult)
           set == [status_code |-> status, code |-> code]
           result == [old EXCEPT !.content_result = <<set>>]
           n == SdkContentSetResult(status, code, m)
<1>1. old \in Result
  BY SdkParts
<1>2. n = [m EXCEPT !.footer = <<[Deref(m.footer, NewFooter) EXCEPT !.result = <<result>>]>>]
  BY DEF SdkContentSetResult
<1> HIDE DEF old, n
<1>3. set \in ContentResult /\ set.status_code = status
  BY DEF ContentResult
<1> HIDE DEF set
<1>4. <<set>> \in Pointer(ContentResult)
  BY <1>3, SomePointer
<1>5. result \in Result /\ result.content_result = <<set>> /\ result.sdk_result = old.sdk_result
  BY <1>1, <1>4 DEF Result
<1> HIDE DEF result
<1>6. n \in Sdk /\ n.body = m.body /\ Deref(Deref(n.footer, NewFooter).result, NewResult) = result
  BY <1>2, <1>5, OtherResult
<1>7. Told(n) = [Told(m) EXCEPT !.content = IF status = 0 THEN "R_CODE_OK" ELSE "R_CODE_ERROR"]
  <2>1. <<set>> # << >> /\ <<set>>[1] = set
    OBVIOUS
  <2> DEFINE now == Deref(Deref(n.footer, NewFooter).result, NewResult)
  <2>2. /\ now.content_result # << >> /\ now.content_result[1].status_code = status
        /\ now.sdk_result = old.sdk_result
    BY <1>3, <1>5, <1>6, <2>1
  <2> HIDE DEF now
  <2>3. Told(n) =
          [url |-> Deref(m.body, NewBody).url, method |-> Deref(m.body, NewBody).method,
           sdk |-> Told(m).sdk, content |-> IF status = 0 THEN "R_CODE_OK" ELSE "R_CODE_ERROR"]
    BY <1>6, <2>2 DEF Told, now, old
  <2> QED
    BY <2>3 DEF Told
<1> QED
  BY <1>6, <1>7 DEF n

\* The user middleware sets the result of the content, and keeps what was asked.
LEMMA UserMidwareIs ==
  ASSUME NEW m \in Sdk, NEW session, NEW accepted \in BOOLEAN
  PROVE  LET n == SdkUserMidware(session, accepted, m)
         IN  /\ n \in Sdk
             /\ Told(n) = [Told(m) EXCEPT !.content = IF accepted THEN "R_CODE_OK" ELSE "R_CODE_ERROR"]
<1> DEFINE body == Deref(m.body, NewBody)
           res == Deref(body.user_session, NewUserSessionMsg)
           login == session.user_type = 0 /\ accepted
           filled == IF login THEN [res EXCEPT !.token = "t"] ELSE res
           answered == [body EXCEPT !.user_session = <<filled>>]
           n == IF session.user_type \in 0 .. 3 THEN [m EXCEPT !.body = <<answered>>] ELSE m
           status == IF accepted THEN 0 ELSE 1
           code == IF accepted THEN "ok" ELSE "error"
<1>1. SdkUserMidware(session, accepted, m) = SdkContentSetResult(status, code, n)
  BY DEF SdkUserMidware
<1>2. body \in Body
  BY SdkParts
<1>3. /\ m = [header |-> m.header, body |-> m.body, footer |-> m.footer]
      /\ m.header \in Pointer(Header) /\ m.body \in Pointer(Body) /\ m.footer \in Pointer(Footer)
  BY SdkParts
<1> HIDE DEF body
<1>4. res \in UserSessionMsg
  <2>1. NewUserSessionMsg \in UserSessionMsg
    BY NewTexts, NoPointer DEF NewUserSessionMsg, UserSessionMsg
  <2>2. body.user_session \in Pointer(UserSessionMsg)
    BY <1>2 DEF Body
  <2> QED
    BY <2>1, <2>2 DEF Pointer, Deref
<1> HIDE DEF res
<1>5. filled \in UserSessionMsg
  <2>1. [res EXCEPT !.token = "t"] \in UserSessionMsg
    BY <1>4, ExchangeTexts DEF UserSessionMsg
  <2> QED
    BY <1>4, <2>1
<1> HIDE DEF login, filled
<1>6. <<filled>> \in Pointer(UserSessionMsg)
  BY <1>5, SomePointer
<1>7. answered \in Body /\ answered.url = body.url /\ answered.method = body.method
  BY <1>2, <1>6 DEF Body
<1> HIDE DEF answered
<1>8. n \in Sdk /\ Told(n) = Told(m)
  <2> DEFINE o == [m EXCEPT !.body = <<answered>>]
  <2>1. <<answered>> \in Pointer(Body)
    BY <1>7, SomePointer
  <2>2. o = [header |-> m.header, body |-> <<answered>>, footer |-> m.footer]
    BY <1>3
  <2> HIDE DEF o
  <2>3. o \in Sdk /\ o.footer = m.footer /\ o.body = <<answered>>
    BY <1>3, <2>1, <2>2 DEF Sdk
  <2>4. Deref(o.body, NewBody).url = body.url /\ Deref(o.body, NewBody).method = body.method
    BY <1>7, <2>3 DEF Deref
  <2>5. Told(o) = Told(m)
    BY <2>3, <2>4 DEF Told, body
  <2> QED
    BY <2>3, <2>5 DEF o
<1> HIDE DEF n
<1>9. status \in Nat /\ code \in STRING /\ (status = 0 <=> accepted)
  <2>1. "ok" \in STRING /\ "error" \in STRING
    BY ExchangeTexts
  <2>2. CASE accepted
    BY <2>1, <2>2
  <2>3. CASE ~accepted
    BY <2>1, <2>3
  <2> QED
    BY <2>2, <2>3
<1> HIDE DEF status, code
<1>10. /\ SdkContentSetResult(status, code, n) \in Sdk
       /\ Told(SdkContentSetResult(status, code, n))
            = [Told(n) EXCEPT !.content = IF status = 0 THEN "R_CODE_OK" ELSE "R_CODE_ERROR"]
  BY <1>8, <1>9, ContentSetResultIs
<1> QED
  BY <1>1, <1>8, <1>9, <1>10

\* The header of the answer has the number of the request.
LEMMA PackIs ==
  ASSUME NEW m \in Sdk, NEW request \in Sdk
  PROVE  LET n == SdkPackResMsgHeader(request, m)
         IN  /\ n \in Sdk /\ Told(n) = Told(m)
             /\ n.header # << >>
             /\ n.header[1].pack_id = Deref(request.header, NewHeader).pack_id
<1> DEFINE pack == Deref(request.header, NewHeader).pack_id
           time == [in_time |-> 0, out_time |-> Now]
           host == [ip_version |-> Interface.ip_version, port |-> Interface.des_port,
                    ip |-> Interface.des_ip]
           dest == [ip_version |-> Interface.ip_version, port |-> Interface.src_port,
                    ip |-> Interface.src_ip]
           header == [msg_magic |-> SdkMagic, version |-> SdkCurVersion, pack_id |-> pack,
                      time |-> <<time>>, data_dir |-> 1, host |-> <<host>>, dest |-> <<dest>>,
                      trans_proto |-> Interface.trans_protocol]
           n == SdkPackResMsgHeader(request, m)
<1>1. n = [m EXCEPT !.header = <<header>>]
  BY DEF SdkPackResMsgHeader
<1>2. pack \in Nat
  <2>1. NewHeader \in Header
    BY NoPointer DEF NewHeader, Header
  <2>2. Deref(request.header, NewHeader) \in Header
    <3>1. request.header \in Pointer(Header)
      BY SdkParts
    <3> QED
      BY <2>1, <3>1 DEF Pointer, Deref
  <2> QED
    BY <2>2 DEF Header
<1>3. time \in DataTime /\ host \in Host /\ dest \in Host
  BY ExchangeTexts DEF DataTime, Host, Interface, Now, Ipv4
<1>4. Interface.trans_protocol \in Nat
  BY DEF Interface, Tcp
<1> HIDE DEF time, host, dest, pack, n
<1>5. <<time>> \in Pointer(DataTime) /\ <<host>> \in Pointer(Host) /\ <<dest>> \in Pointer(Host)
  BY <1>3, SomePointer
<1>6. header \in Header /\ header.pack_id = pack
  BY <1>2, <1>4, <1>5 DEF Header, SdkMagic, SdkCurVersion
<1> HIDE DEF header
<1>7. <<header>> \in Pointer(Header)
  BY <1>6, SomePointer
<1>8. /\ m = [header |-> m.header, body |-> m.body, footer |-> m.footer]
      /\ m.header \in Pointer(Header) /\ m.body \in Pointer(Body) /\ m.footer \in Pointer(Footer)
  BY SdkParts
<1>9. n = [header |-> <<header>>, body |-> m.body, footer |-> m.footer]
  BY <1>1, <1>8
<1>10. n \in Sdk /\ n.header = <<header>> /\ n.body = m.body /\ n.footer = m.footer
  BY <1>7, <1>8, <1>9 DEF Sdk
<1>11. Told(n) = Told(m)
  BY <1>10 DEF Told
<1> QED
  BY <1>6, <1>10, <1>11 DEF n, pack

-----------------------------------------------------------------------------
(* The router.                                                             *)

\* A lookup finds something if a child of the root does.  (router_lookup)
LEMMA LookupFinds ==
  ASSUME NEW routers \in Seq(Routers), NEW url \in Seq(STRING), NEW method \in Nat
  PROVE  SdkRouterLookup(routers, url, method) # NoFun <=>
           /\ url # << >>
           /\ LET rest == Rest(url, << >>)
              IN  \/ RouterLookup[RootChild][rest][method] # NoFun
                  \/ \E i \in DOMAIN routers : RouterLookup[routers[i]][rest][method] # NoFun
<1> DEFINE next == <<RootChild>> \o routers
           root == RootRouter(routers)
           rest == Rest(url, << >>)
           found == {i \in DOMAIN next : RouterLookup[next[i]][rest][method] # NoFun}
<1>1. root \in Trees[Depth]
  BY RootIsTree
<1>2. root.url = << >> /\ root.fun = NoFun /\ root.next = next
  BY DEF RootRouter, Node, RootChild, Slash
<1>3. SdkRouterLookup(routers, url, method) = Answer(RouterLookup, root, url, method)
  BY <1>1, LookupAt DEF SdkRouterLookup
<1>4. IsPrefix(<< >>, url)
  <2>1. << >> \in Seq(STRING)
    BY ShortSeq
  <2>2. url = << >> \o url
    OBVIOUS
  <2> QED
    BY <2>1, <2>2, PrefixRest
<1>5. /\ DOMAIN next \subseteq Nat
      /\ 1 \in DOMAIN next /\ next[1] = RootChild
      /\ \A i \in DOMAIN routers : i + 1 \in DOMAIN next /\ next[i + 1] = routers[i]
      /\ \A j \in DOMAIN next : j = 1 \/ (j - 1 \in DOMAIN routers /\ next[j] = routers[j - 1])
  OBVIOUS
<1> HIDE DEF root, next, rest
<1>6. SdkRouterLookup(routers, url, method)
        = IF url = << >> \/ found = {} THEN NoFun ELSE RouterLookup[next[Min(found)]][rest][method]
  BY <1>2, <1>3, <1>4, Zenon DEF Answer, rest
<1>7. found # {} => Min(found) \in found
  <2>1. found \in SUBSET Nat
    BY <1>5
  <2> HIDE DEF found
  <2> QED
    BY <2>1, LeastIndex
<1>8. SdkRouterLookup(routers, url, method) # NoFun <=> url # << >> /\ found # {}
  BY <1>6, <1>7, Zenon
<1>9. found # {} <=> \/ RouterLookup[RootChild][rest][method] # NoFun
                     \/ \E i \in DOMAIN routers : RouterLookup[routers[i]][rest][method] # NoFun
  BY <1>5
<1> QED
  BY <1>8, <1>9 DEF rest

\* Once all routers are registered, what is found is what some router alone has.
LEMMA LookupIsRoutes ==
  ASSUME NEW routers \in Seq(Routers), ToSet(routers) = Routers,
         NEW url \in Seq(STRING), NEW method \in Nat
  PROVE  SdkRouterLookup(routers, url, method) # NoFun <=>
           \E some \in {<< >>} \cup {<<router>> : router \in Routers} :
             SdkRouterLookup(some, url, method) # NoFun
<1> DEFINE Has(tree) == RouterLookup[tree][Rest(url, << >>)][method] # NoFun
           Finds(some) == SdkRouterLookup(some, url, method) # NoFun
<1>1. \A some \in Seq(Routers) :
        Finds(some) <=> url # << >> /\ (Has(RootChild) \/ \E i \in DOMAIN some : Has(some[i]))
  BY LookupFinds
<1>2. << >> \in Seq(Routers) /\ \A router \in Routers : <<router>> \in Seq(Routers)
  BY ShortSeq
<1>3. \A router : router \in Routers <=> \E i \in DOMAIN routers : routers[i] = router
  BY DEF ToSet
<1> HIDE DEF Finds, Has
<1>4. Finds(<< >>) <=> url # << >> /\ Has(RootChild)
  <2>1. DOMAIN << >> = {}
    OBVIOUS
  <2> QED
    BY <1>1, <1>2, <2>1
<1>5. \A router \in Routers :
        Finds(<<router>>) <=> url # << >> /\ (Has(RootChild) \/ Has(router))
  <2> TAKE router \in Routers
  <2>1. DOMAIN <<router>> = {1} /\ <<router>>[1] = router
    OBVIOUS
  <2>2. (\E i \in DOMAIN <<router>> : Has(<<router>>[i])) <=> Has(router)
    BY <2>1
  <2> QED
    BY <1>1, <1>2, <2>2
<1>6. Finds(routers) <=> url # << >> /\ (Has(RootChild) \/ \E router \in Routers : Has(router))
  <2>1. (\E i \in DOMAIN routers : Has(routers[i])) <=> \E router \in Routers : Has(router)
    BY <1>3
  <2> QED
    BY <1>1, <2>1
<1>7. Finds(routers) <=> \E some \in {<< >>} \cup {<<router>> : router \in Routers} : Finds(some)
  BY <1>4, <1>5, <1>6
<1> QED
  BY <1>7 DEF Finds

\* When main runs all routers are registered.
LEMMA RunningHasAll ==
  ASSUME ExchangeInv, Running
  PROVE  ToSet(registered) = Routers
<1>1. DOMAIN registered = DOMAIN Declared
  <2>1. DOMAIN registered = 1 .. Len(registered)
    BY DEF ExchangeInv
  <2>2. DOMAIN Declared = 1 .. Len(Declared)
    BY RouterAssumption
  <2> QED
    BY <2>1, <2>2 DEF Running
<1> QED
  BY <1>1 DEF ExchangeInv, Routers, ToSet

\* So a request is routed as SdkProtocol has it.
LEMMA FoundIs ==
  ASSUME RefineInv, Running, NEW body, body.url \in Urls, body.method \in UsedMethods \cup {0}
  PROVE  /\ body.method \in Nat
         /\ Found(body) <=> /\ Protocol!IsSupportSdkMethod(body.method)
                            /\ body.url \notin IllegalUrls
                            /\ <<body.url, body.method>> \in Routes
<1>1. body.method \in Nat
  <2>1. \A request \in Requests : Asked(Message(1, request)).method \in Nat
    <3> TAKE request \in Requests
    <3>1. Asked(Message(1, request)).method = request.body.method /\ request.body \in Body
      BY AskedIs
    <3> QED
      BY <3>1 DEF Body
  <2> QED
    BY <2>1 DEF UsedMethods, Bodies
<1>2. Protocol!IsSupportSdkMethod(body.method) <=> IsSupportSdkMethod(body.method)
  BY DEF Protocol!IsSupportSdkMethod, IsSupportSdkMethod, GET, POST, PUT, DELETE,
         Protocol!GET, Protocol!POST, Protocol!PUT, Protocol!DELETE
<1>3. IsSupportSdkMethod(body.method) => body.method \in UsedMethods
  BY DEF IsSupportSdkMethod, GET, POST, PUT, DELETE
<1>4. Path[body.url] \in Seq(STRING)
  BY ExchangeAssumption DEF Urls
<1>5. SdkRouterLookup(registered, Path[body.url], body.method) # NoFun <=>
        \E some \in {<< >>} \cup {<<router>> : router \in Routers} :
          SdkRouterLookup(some, Path[body.url], body.method) # NoFun
  BY <1>1, <1>4, RunningHasAll, LookupIsRoutes DEF RefineInv, ExchangeInv
<1>6. body.method \in UsedMethods =>
        (<<body.url, body.method>> \in Routes <=>
           \E some \in {<< >>} \cup {<<router>> : router \in Routers} :
             SdkRouterLookup(some, Path[body.url], body.method) # NoFun)
  <2> SUFFICES ASSUME body.method \in UsedMethods
               PROVE  <<body.url, body.method>> \in Routes <=>
                        \E some \in {<< >>} \cup {<<router>> : router \in Routers} :
                          SdkRouterLookup(some, Path[body.url], body.method) # NoFun
    OBVIOUS
  <2>1. <<body.url, body.method>> \in Urls \X UsedMethods
        /\ <<body.url, body.method>>[1] = body.url /\ <<body.url, body.method>>[2] = body.method
    OBVIOUS
  <2> QED
    BY <2>1 DEF Routes
<1> QED
  BY <1>1, <1>2, <1>3, <1>5, <1>6 DEF Found

-----------------------------------------------------------------------------
(* The response of a request.                                              *)

\* The response of a request that passes the header check, and whether its
\* handler ran, are those of SdkProtocol.  (sdk_protocol_do)
LEMMA ResponseIs ==
  ASSUME RefineInv, NEW n \in 1 .. Len(wire), NEW accepted \in BOOLEAN
  PROVE  LET request == Decoded(1, n)
             fields == SubSeq(Wire, 1, n)
             answer == Protocol!Answer(fields, accepted)
             m == SdkProtocolDo(request, accepted)
         IN  IF Protocol!HeaderCheck(Protocol!Pack(fields))
             THEN /\ m \in Sdk /\ m.header # << >> /\ m.header[1].pack_id = answer.pack
                  /\ Told(m) = [url |-> answer.url, method |-> answer.method,
                                sdk |-> answer.sdk, content |-> answer.content]
                  /\ Ran(request, accepted) = answer.ran
             ELSE m = NewSdk
<1> DEFINE request == Decoded(1, n)
           fields == SubSeq(Wire, 1, n)
           answer == Protocol!Answer(fields, accepted)
           body == Deref(request.body, NewBody)
           session == Deref(body.user_session, NewUserSessionMsg)
           echo == [NewSdk EXCEPT !.body = <<[NewBody EXCEPT !.url = body.url, !.method = body.method]>>]
           passed == SdkMidwareFunction(session, accepted, echo)
           done == IF Refuses(accepted) THEN passed ELSE SdkBodyDo(body, passed)
           Url == Protocol!Url(fields)
           Method == Protocol!Method(fields)
           Ans(sdk, content) == [url |-> Url, method |-> Method, sdk |-> sdk, content |-> content]
           processed == Protocol!Processed(Url, Method, accepted)
           content == Protocol!ContentResult(accepted)
<1>1. SdkHeaderCheck(Deref(request.header, NewHeader))
        <=> Protocol!HeaderCheck(Protocol!Pack(fields))
  BY HeaderCheckIs
<1>2. SdkProtocolDo(request, accepted)
        = IF SdkHeaderCheck(Deref(request.header, NewHeader))
          THEN SdkPackResMsgHeader(request, done) ELSE NewSdk
  BY DEF SdkProtocolDo
<1>3. CASE ~Protocol!HeaderCheck(Protocol!Pack(fields))
  BY <1>1, <1>2, <1>3
<1>4. CASE Protocol!HeaderCheck(Protocol!Pack(fields))
  <2>1. request \in Sdk /\ DecodedAs(n)
    BY DecodedIsAsked, DecodedType DEF RefineInv
  <2>2. /\ body.url = Url /\ body.method = Method
        /\ request.body = << >> \/ (body.url \in Urls /\ body.method \in UsedMethods \cup {0})
        /\ \/ Protocol!Pack(fields) = 0
           \/ Protocol!Pack(fields) \in DOMAIN asked /\ request.header = asked[Protocol!Pack(fields)].header
    BY <2>1 DEF DecodedAs
  <2>3. Deref(request.header, NewHeader).pack_id = Protocol!Pack(fields)
    <3>1. Protocol!Pack(fields) # 0
      BY <1>4 DEF Protocol!HeaderCheck
    <3>2. PICK other \in Requests :
            asked[Protocol!Pack(fields)] = Message(Protocol!Pack(fields), other)
      BY <2>2, <3>1 DEF RefineInv, WireInv
    <3> DEFINE header == ClientHeader(Protocol!Pack(fields), other.synced)
    <3>3. request.header = <<header>>
      BY <2>2, <3>1, <3>2, MessageIs
    <3>4. header.pack_id = Protocol!Pack(fields)
      BY DEF ClientHeader
    <3> HIDE DEF header
    <3>5. <<header>> # << >> /\ <<header>>[1] = header
      OBVIOUS
    <3> QED
      BY <3>3, <3>4, <3>5 DEF Deref
  <2>4. body \in Body
    BY <2>1, SdkParts
  <2>5. body.url \in STRING /\ body.method \in Nat
    BY <2>4 DEF Body
  <2>6. Running
    BY DEF RefineInv, ExchangeInv, WireInv
  <2>7. echo \in Sdk /\ Told(echo) = Ans("unset", "unset")
    <3>1. /\ echo \in Sdk
          /\ Told(echo) = [url |-> body.url, method |-> body.method,
                           sdk |-> "unset", content |-> "unset"]
      BY <2>5, EchoIs
    <3> QED
      BY <2>2, <3>1
  <2>8. Found(body) <=> /\ Protocol!IsSupportSdkMethod(Method)
                        /\ Url \notin IllegalUrls /\ <<Url, Method>> \in Routes
    <3>1. CASE request.body = << >>
      <4>1. body.method = 0
        BY <3>1 DEF Deref, NewBody
      <4> QED
        BY <2>2, <4>1 DEF Found, IsSupportSdkMethod, Protocol!IsSupportSdkMethod,
             GET, POST, PUT, DELETE, Protocol!GET, Protocol!POST, Protocol!PUT, Protocol!DELETE
    <3>2. CASE body.url \in Urls /\ body.method \in UsedMethods \cup {0}
      <4> HIDE DEF body
      <4> QED
        BY <2>2, <2>6, <3>2, FoundIs
    <3> QED
      BY <2>2, <3>1, <3>2
  <2>9. /\ "ok" \in STRING /\ "url not find" \in STRING /\ UserMidware \in STRING
    BY ExchangeTexts
  <2>14. Error \in Nat /\ Error # 0
    BY DEF Error
  <2>10. /\ passed \in Sdk
         /\ Refuses(accepted) <=> IsMidwareExist(UserMidware) /\ ~accepted
         /\ Told(passed) = Ans(IF Refuses(accepted) THEN "ERROR" ELSE "unset", content)
    <3> HIDE DEF session, echo
    <3> DEFINE user == SdkUserMidware(session, accepted, echo)
    <3>1. /\ Refuses(accepted) <=> IsMidwareExist(UserMidware) /\ ~accepted
          /\ ~IsMidwareExist(UserMidware) => passed = echo
          /\ IsMidwareExist(UserMidware) /\ accepted => passed = user
          /\ Refuses(accepted) => passed = SdkSetResult(Error, UserMidware, user)
      BY MidwareIs
    <3>2. user \in Sdk /\ Told(user) = Ans("unset", IF accepted THEN "R_CODE_OK" ELSE "R_CODE_ERROR")
      <4>1. /\ user \in Sdk
            /\ Told(user) = [Told(echo) EXCEPT !.content = IF accepted THEN "R_CODE_OK" ELSE "R_CODE_ERROR"]
        BY <2>7, UserMidwareIs
      <4> QED
        BY <2>7, <4>1
    <3> HIDE DEF user
    <3>3. LET refused == SdkSetResult(Error, UserMidware, user)
          IN  refused \in Sdk /\ Told(refused) = [Told(user) EXCEPT !.sdk = "ERROR"]
      <4>1. UserMidware \in STRING
        BY <2>9
      <4> QED
        BY <2>14, <3>2, <4>1, SetResultIs
    <3>4. content = IF ~IsMidwareExist(UserMidware) THEN "unset"
                    ELSE IF accepted THEN "R_CODE_OK" ELSE "R_CODE_ERROR"
      BY DEF Protocol!ContentResult
    <3> HIDE DEF passed, content
    <3>5. CASE Refuses(accepted)
      BY <3>1, <3>2, <3>3, <3>4, <3>5
    <3>6. CASE ~Refuses(accepted) /\ IsMidwareExist(UserMidware)
      BY <3>1, <3>2, <3>4, <3>6
    <3>7. CASE ~Refuses(accepted) /\ ~IsMidwareExist(UserMidware)
      BY <2>7, <3>1, <3>4, <3>7
    <3> QED
      BY <3>1, <3>5, <3>6, <3>7
  <2>11. done \in Sdk /\ Told(done) = Ans(processed.sdk, content)
         /\ Ran(request, accepted) = processed.ran
    <3>1. Ran(request, accepted) = (~Refuses(accepted) /\ body.method <= DELETE /\ Found(body))
      BY DEF Ran
    <3> HIDE DEF body, passed, content, Url, Method
    <3>2. CASE Refuses(accepted)
      <4>1. processed = [ran |-> FALSE, sdk |-> "ERROR"]
        BY <2>10, <3>2 DEF Protocol!Processed
      <4>2. processed.sdk = "ERROR" /\ processed.ran = FALSE /\ done = passed
        BY <3>2, <4>1
      <4> HIDE DEF done, processed
      <4>3. Ran(request, accepted) = processed.ran
        BY <3>1, <3>2, <4>2
      <4> QED
        BY <2>10, <3>2, <4>2, <4>3
    <3>4. ~Refuses(accepted) => Told(passed) = Ans("unset", content)
      BY <2>10
    <3>3. CASE ~Refuses(accepted)
      <4>1. processed = Protocol!BodyDo(Url, Method) /\ done = SdkBodyDo(body, passed)
        BY <2>10, <3>3 DEF Protocol!Processed
      <4>2. CASE body.method > DELETE
        <5>1. processed = [ran |-> FALSE, sdk |-> "unset"] /\ done = passed
          BY <2>2, <4>1, <4>2 DEF Protocol!BodyDo, SdkBodyDo, DELETE, Protocol!DELETE
        <5>2. ~(body.method <= DELETE)
          BY <2>5, <4>2 DEF DELETE
        <5>3. processed.sdk = "unset" /\ processed.ran = FALSE /\ done = passed
          BY <5>1
        <5> HIDE DEF done, processed
        <5>4. Ran(request, accepted) = processed.ran
          BY <3>1, <5>2, <5>3
        <5> QED
          BY <2>10, <3>3, <5>3, <5>4
      <4>3. CASE ~(body.method > DELETE)
        <5>1. /\ processed = IF Found(body) THEN [ran |-> TRUE, sdk |-> "OK"]
                             ELSE [ran |-> FALSE, sdk |-> "ERROR"]
              /\ done = IF Found(body) THEN SdkSetResult(0, "ok", passed)
                        ELSE SdkSetResult(Error, "url not find", passed)
          BY <2>2, <2>8, <4>1, <4>3
             DEF Protocol!BodyDo, Protocol!Routed, SdkBodyDo, DELETE, Protocol!DELETE
        <5>2. body.method <= DELETE
          BY <2>5, <4>3 DEF DELETE
        <5>3. LET ok == SdkSetResult(0, "ok", passed)
                  error == SdkSetResult(Error, "url not find", passed)
              IN  /\ ok \in Sdk /\ Told(ok) = [Told(passed) EXCEPT !.sdk = "OK"]
                  /\ error \in Sdk /\ Told(error) = [Told(passed) EXCEPT !.sdk = "ERROR"]
          <6>1. "ok" \in STRING /\ "url not find" \in STRING /\ 0 \in Nat
            BY <2>9
          <6> QED
            BY <2>14, <2>10, <6>1, SetResultIs
        <5> HIDE DEF done, processed
        <5>4. Ran(request, accepted) = Found(body) /\ processed.ran = Found(body)
          <6>1. Found(body) \in BOOLEAN
            BY DEF Found
          <6>2. processed.ran = Found(body)
            BY <5>1, <6>1
          <6> QED
            BY <3>1, <3>3, <5>2, <6>1, <6>2
        <5>5. done \in Sdk /\ Told(done) = Ans(processed.sdk, content)
          <6>1. CASE Found(body)
            <7>1. processed.sdk = "OK" /\ done = SdkSetResult(0, "ok", passed)
              BY <5>1, <6>1
            <7>2. done \in Sdk /\ Told(done) = [Told(passed) EXCEPT !.sdk = processed.sdk]
              BY <5>3, <7>1
            <7> QED
              BY <3>3, <3>4, <7>2
          <6>2. CASE ~Found(body)
            <7>1. processed.sdk = "ERROR" /\ done = SdkSetResult(Error, "url not find", passed)
              BY <5>1, <6>2
            <7>2. done \in Sdk /\ Told(done) = [Told(passed) EXCEPT !.sdk = processed.sdk]
              BY <5>3, <7>1
            <7> QED
              BY <3>3, <3>4, <7>2
          <6> QED
            BY <6>1, <6>2
        <5> QED
          BY <5>4, <5>5
      <4> QED
        BY <4>2, <4>3
    <3> QED
      BY <3>2, <3>3
  <2>12. answer = [pack |-> Protocol!Pack(fields), url |-> Url, method |-> Method,
                   sdk |-> processed.sdk, content |-> content, ran |-> processed.ran]
    BY DEF Protocol!Answer
  <2> HIDE DEF done, processed, content, Url, Method, answer, request
  <2>13. LET m == SdkPackResMsgHeader(request, done)
         IN  /\ m \in Sdk /\ Told(m) = Told(done) /\ m.header # << >>
             /\ m.header[1].pack_id = Protocol!Pack(fields)
    BY <2>1, <2>3, <2>11, PackIs
  <2> QED
    BY <1>1, <1>2, <1>4, <2>11, <2>12, <2>13 DEF answer, request
<1> QED
  BY <1>3, <1>4

-----------------------------------------------------------------------------
(* The steps, one by one.                                                  *)

AskedAll == [p \in DOMAIN asked |-> Asked(asked[p])]
Replies == [i \in DOMAIN answers |-> Reply(i)]

\* No middleware is registered at first, and nothing is sent.
LEMMA InitImplements == Init => Protocol!Init
<1> SUFFICES ASSUME Init PROVE Protocol!Init
  OBVIOUS
<1>1. ~IsMidwareExist(UserMidware)
  <2>1. DOMAIN midwares = {}
    BY DEF Init
  <2> QED
    BY <2>1 DEF IsMidwareExist
<1>2. Wire = << >>
  <2>1. wire = << >>
    BY DEF Init
  <2> QED
    BY <2>1 DEF Wire
<1>3. AskedAll = << >>
  <2>1. asked = << >>
    BY DEF Init
  <2> QED
    BY <2>1 DEF AskedAll
<1>4. Replies = << >>
  <2>1. answers = << >>
    BY DEF Init
  <2> QED
    BY <2>1 DEF Replies
<1>5. IsMidwareExist(UserMidware) = FALSE
  BY <1>1 DEF IsMidwareExist
<1> QED
  BY <1>2, <1>3, <1>4, <1>5 DEF Init, Protocol!Init, AskedAll, Replies

\* A step that leaves the list alone leaves registered alone.
LEMMA SameMidwares ==
  ASSUME UNCHANGED midwares
  PROVE  UNCHANGED IsMidwareExist(UserMidware)
BY DEF IsMidwareExist

\* One that sends no answer leaves replies alone.
LEMMA SameReplies ==
  ASSUME UNCHANGED <<answers, ran>>
  PROVE  UNCHANGED Replies
BY DEF Replies, Reply

\* A client that sends a message asks what the message says.
LEMMA SendImplements ==
  ASSUME RefineInv, NEW request \in Requests, Send(request)
  PROVE  \E asks \in Protocol!Request : Protocol!Send(asks)
<1> DEFINE p == Len(asked) + 1
           message == Message(p, request)
           asks == Asked(message)
           before == 2 * Len(asked) - Len(wire)
<1>1. /\ asked \in Seq(Sdk) /\ wire \in Seq(SdkWire(ListNumbers)) /\ Len(wire) <= 2 * Len(asked)
  BY DEF RefineInv, ExchangeInv, WireInv
<1>2. asks \in Protocol!Request
  <2> DEFINE synced == ClientTime(request.synced).in_time <= Now
  <2>1. /\ asks = [session |-> UserType(request.body), url |-> request.body.url,
                   method |-> request.body.method, synced |-> synced]
        /\ request.body.url \in Urls /\ request.body.method \in UsedMethods
        /\ UserType(request.body) \in Sessions
    BY AskedIs
  <2>2. synced \in BOOLEAN
    OBVIOUS
  <2> HIDE DEF synced, asks
  <2> QED
    BY <2>1, <2>2 DEF Protocol!Request
<1>3. asked' = Append(asked, message) /\ wire' = wire \o SerializeSdk(message)
  BY DEF Send
<1>4. SerializeSdk(message)
        = <<Field(1, SerializeHeader(ClientHeader(p, request.synced))),
            Field(2, SerializeBody(request.body))>>
  BY MessageFields
<1> DEFINE f == Field(1, SerializeHeader(ClientHeader(p, request.synced)))
           g == Field(2, SerializeBody(request.body))
<1>5. f.number = 1 /\ g.number = 2
  BY DEF Field
<1> HIDE DEF message, f, g
<1>6. /\ Len(asked') = Len(asked) + 1 /\ Len(wire') = Len(wire) + 2
      /\ DOMAIN wire' = 1 .. Len(wire) + 2 /\ DOMAIN wire = 1 .. Len(wire)
      /\ \A i \in DOMAIN wire : wire'[i] = wire[i]
      /\ wire'[Len(wire) + 1] = f /\ wire'[Len(wire) + 2] = g
  <2> DEFINE S == SdkWire(ListNumbers)
  <2> HIDE DEF S
  <2>1. wire \in Seq(S)
    BY <1>1 DEF S
  <2>2. wire' = wire \o <<f, g>>
    BY <1>3, <1>4 DEF f, g, message
  <2>3. Len(asked') = Len(asked) + 1
    BY <1>1, <1>3
  <2> QED
    BY <2>1, <2>2, <2>3
<1>7. 2 * Len(asked') - Len(wire') = before /\ before \in Nat
  BY <1>1, <1>6
<1>8. Wire' = Wire \o <<Protocol!HeaderField(p), Protocol!BodyField(p)>>
  <2> DEFINE h == Protocol!HeaderField(p)
             b == Protocol!BodyField(p)
             pk(i) == (before + i + 1) \div 2
  <2>1. Wire = [i \in 1 .. Len(wire) |->
                 [kind |-> IF wire[i].number = 1 THEN "header" ELSE "body", pack |-> pk(i)]]
    BY <1>6 DEF Wire
  <2>2. Wire' = [i \in 1 .. Len(wire) + 2 |->
                  [kind |-> IF wire'[i].number = 1 THEN "header" ELSE "body", pack |-> pk(i)]]
    BY <1>6, <1>7 DEF Wire
  <2>3. pk(Len(wire) + 1) = p /\ pk(Len(wire) + 2) = p
    <3>1. Len(asked) \in Nat /\ Len(wire) \in Nat
      BY <1>1
    <3>2. /\ (2 * Len(asked) + 1 + 1) \div 2 = Len(asked) + 1
          /\ (2 * Len(asked) + 2 + 1) \div 2 = Len(asked) + 1
      BY <3>1, Halves
    <3>3. before + (Len(wire) + 1) + 1 = 2 * Len(asked) + 1 + 1
          /\ before + (Len(wire) + 2) + 1 = 2 * Len(asked) + 2 + 1
      BY <3>1
    <3> QED
      BY <3>2, <3>3
  <2>4. h = [kind |-> "header", pack |-> p] /\ b = [kind |-> "body", pack |-> p]
    BY DEF Protocol!HeaderField, Protocol!BodyField
  <2> DEFINE K(i) == [kind |-> IF wire[i].number = 1 THEN "header" ELSE "body", pack |-> pk(i)]
             L(i) == [kind |-> IF wire'[i].number = 1 THEN "header" ELSE "body", pack |-> pk(i)]
  <2>5. \A i \in 1 .. Len(wire) : K(i) = L(i)
    BY <1>6
  <2>6. L(Len(wire) + 1) = h /\ L(Len(wire) + 2) = b
    BY <1>5, <1>6, <2>3, <2>4
  <2>7. Wire = [i \in 1 .. Len(wire) |-> K(i)] /\ Wire' = [i \in 1 .. Len(wire) + 2 |-> L(i)]
    BY <2>1, <2>2
  <2> HIDE DEF K, L, h, b, p
  <2>8. Wire \o <<h, b>> = [i \in 1 .. Len(wire) + 2 |-> L(i)]
    <3>1. Len(wire) \in Nat
      BY <1>1
    <3>2. Wire \in Seq({K(i) : i \in 1 .. Len(wire)}) /\ Len(Wire) = Len(wire)
      BY <2>7, <3>1
    <3> QED
      BY <2>5, <2>6, <2>7, <3>1, <3>2
  <2> QED
    BY <2>7, <2>8 DEF h, b
<1>9. AskedAll' = Append(AskedAll, asks) /\ Len(AskedAll) = Len(asked)
  <2>1. DOMAIN asked' = 1 .. Len(asked) + 1 /\ DOMAIN asked = 1 .. Len(asked)
        /\ \A i \in DOMAIN asked : asked'[i] = asked[i] /\ asked'[Len(asked) + 1] = message
    BY <1>1, <1>3
  <2> DEFINE K(i) == Asked(asked[i])
             L(i) == Asked(asked'[i])
  <2>2. AskedAll = [i \in 1 .. Len(asked) |-> K(i)]
    BY <2>1 DEF AskedAll
  <2>3. AskedAll' = [i \in 1 .. Len(asked) + 1 |-> L(i)]
    BY <2>1 DEF AskedAll, Asked
  <2>4. (\A i \in 1 .. Len(asked) : K(i) = L(i)) /\ L(Len(asked) + 1) = asks
    <3>1. asked'[Len(asked) + 1] = message
      BY <1>1, <1>3
    <3> QED
      BY <2>1, <3>1
  <2> HIDE DEF K, L, asks
  <2>5. Len(asked) \in Nat
    BY <1>1
  <2>6. AskedAll \in Seq({K(i) : i \in 1 .. Len(asked)}) /\ Len(AskedAll) = Len(asked)
    BY <2>2, <2>5
  <2> QED
    BY <2>2, <2>3, <2>4, <2>5, <2>6
<1>10. UNCHANGED IsMidwareExist(UserMidware) /\ UNCHANGED Replies
  BY SameMidwares, SameReplies DEF Send
<1>11. client = "waits" => Wire = << >>
  <2>1. client = "waits" => wire = << >>
    BY DEF Send
  <2>2. wire = << >> => Wire = << >>
    BY DEF Wire
  <2> QED
    BY <2>1, <2>2
<1>12. conn = "open" /\ Len(asked) < MaxSent /\ UNCHANGED <<client, conn>>
  BY DEF Send
<1> HIDE DEF asks
<1>13. Protocol!Send(asks)
  BY <1>8, <1>9, <1>10, <1>11, <1>12 DEF Protocol!Send, AskedAll, Replies, p
<1> QED
  BY <1>2, <1>13

\* The main thread registers the user middleware, or one more that does nothing.
LEMMA RegisterImplements ==
  ASSUME RefineInv, RegisterSdkMidwares
  PROVE  Protocol!RegisterSdkMidwares \/ UNCHANGED Protocol!vars
<1>1. midwares' = IF IsMidwareExist(Head(toRegister).name) THEN midwares
                  ELSE Append(midwares, Head(toRegister))
  BY DEF RegisterSdkMidwares, RegisterMidware
<1>2. midwares \in Seq(Midware)
  BY DEF RefineInv, ExchangeInv
<1>3. IsMidwareExist(UserMidware) => IsMidwareExist(UserMidware)'
  BY <1>1, <1>2 DEF IsMidwareExist
<1>4. UNCHANGED <<client, conn>> /\ UNCHANGED Wire /\ UNCHANGED AskedAll /\ UNCHANGED Replies
  <2>1. UNCHANGED <<client, conn, wire, asked, answers, ran>>
    BY DEF RegisterSdkMidwares
  <2>2. UNCHANGED Wire
    BY <2>1 DEF Wire
  <2>3. UNCHANGED AskedAll
    BY <2>1 DEF AskedAll, Asked
  <2> QED
    BY <2>1, <2>2, <2>3, SameReplies
<1>5. IsMidwareExist(UserMidware) \in BOOLEAN /\ IsMidwareExist(UserMidware)' \in BOOLEAN
  BY DEF IsMidwareExist
<1>6. CASE ~IsMidwareExist(UserMidware) /\ IsMidwareExist(UserMidware)'
  <2>1. IsMidwareExist(UserMidware)' = TRUE
    BY <1>5, <1>6
  <2> QED
    BY <1>4, <1>6, <2>1 DEF Protocol!RegisterSdkMidwares, AskedAll, Replies
<1>7. CASE IsMidwareExist(UserMidware) \/ ~IsMidwareExist(UserMidware)'
  <2>1. IsMidwareExist(UserMidware)' = IsMidwareExist(UserMidware)
    BY <1>3, <1>5, <1>7
  <2> QED
    BY <1>4, <2>1 DEF Protocol!vars, AskedAll, Replies
<1> QED
  BY <1>6, <1>7

\* Bytes that do not parse close the connection.
LEMMA BrokenImplements ==
  ASSUME RefineInv, OnReadBroken
  PROVE  Protocol!OnReadBroken
<1>1. /\ conn = "open" /\ conn' = "closed" /\ wire # << >> /\ wire' = << >>
      /\ UNCHANGED <<client, midwares, asked, answers, ran>>
  BY DEF OnReadBroken
<1>2. Wire # << >>
  <2>1. wire \in Seq(SdkWire(ListNumbers))
    BY DEF RefineInv, ExchangeInv
  <2>2. Len(wire) # 0
    BY <1>1, <2>1, EmptySeq
  <2>3. 1 \in DOMAIN wire
    BY <2>1, <2>2
  <2>4. 1 \in DOMAIN Wire
    BY <2>3 DEF Wire
  <2> QED
    BY <2>4
<1>3. Wire' = << >>
  BY <1>1 DEF Wire
<1>4. UNCHANGED AskedAll
  BY <1>1 DEF AskedAll, Asked
<1>5. UNCHANGED Replies /\ UNCHANGED IsMidwareExist(UserMidware)
  BY <1>1, SameReplies, SameMidwares
<1> QED
  BY <1>1, <1>2, <1>3, <1>4, <1>5 DEF Protocol!OnReadBroken, AskedAll, Replies

\* The rest of what is on the wire stands for the rest of the fields.
LEMMA RestOfWire ==
  ASSUME RefineInv, NEW n \in 1 .. Len(wire), wire' = SubSeq(wire, n + 1, Len(wire)), asked' = asked
  PROVE  Wire' = SubSeq(Wire, n + 1, Len(Wire)) /\ Len(Wire) = Len(wire)
<1> DEFINE W == Len(wire)
           L == Len(asked)
           K(i) == [kind |-> IF wire[i].number = 1 THEN "header" ELSE "body",
                    pack |-> (2 * L - W + i + 1) \div 2]
           M(i) == [kind |-> IF wire'[i].number = 1 THEN "header" ELSE "body",
                    pack |-> (2 * L - (W - n) + i + 1) \div 2]
<1>1. /\ W \in Nat /\ L \in Nat /\ n \in 1 .. W /\ DOMAIN wire = 1 .. W
      /\ wire \in Seq(SdkWire(ListNumbers))
  BY DEF RefineInv, ExchangeInv
<1>2. Len(wire') = W - n /\ DOMAIN wire' = 1 .. W - n /\ \A i \in 1 .. W - n : wire'[i] = wire[n + i]
  <2> DEFINE S == SdkWire(ListNumbers)
  <2> HIDE DEF S
  <2>1. wire \in Seq(S)
    BY <1>1 DEF S
  <2> QED
    BY <2>1
<1>3. Wire = [i \in 1 .. W |-> K(i)]
  BY <1>1 DEF Wire
<1>4. Wire' = [i \in 1 .. W - n |-> M(i)]
  BY <1>2 DEF Wire
<1>5. \A i \in 1 .. W - n : n + i \in 1 .. W /\ M(i) = K(n + i)
  <2> TAKE i \in 1 .. W - n
  <2>1. 2 * L - (W - n) + i + 1 = 2 * L - W + (n + i) + 1
    BY <1>1
  <2>2. n + i \in 1 .. W
    BY <1>1
  <2> HIDE DEF W, L
  <2> QED
    BY <1>2, <2>1, <2>2
<1> HIDE DEF K, M, W, L
<1>6. Wire \in Seq({K(i) : i \in 1 .. W}) /\ Len(Wire) = W
  BY <1>1, <1>3
<1>7. SubSeq(Wire, n + 1, W) = [i \in 1 .. W - n |-> K(n + i)]
  BY <1>1, <1>3, <1>6
<1> QED
  BY <1>4, <1>5, <1>6, <1>7 DEF W

\* What is decoded is decoded to what the fields are parsed to.  (sdk_msg_decode)
LEMMA ReadIs ==
  ASSUME NEW n, OnRead(n)
  PROVE  LET request == Decoded(1, n)
             session == Deref(Deref(request.body, NewBody).user_session, NewUserSessionMsg)
         IN  \E accepted \in Accepts(session) :
               LET out == SerializeSdk(SdkProtocolDo(request, accepted))
               IN  IF out = << >> THEN UNCHANGED <<answers, ran>>
                   ELSE answers' = Append(answers, out) /\ ran' = Append(ran, Ran(request, accepted))
<1> DEFINE decoded == SdkMsgDecode(SubSeq(wire, 1, n))
<1>1. decoded # << >>
  BY DEF OnRead
<1>2. decoded[1] = Decoded(1, n)
  BY <1>1 DEF SdkMsgDecode, Decoded
<1> HIDE DEF decoded
<1> QED
  BY <1>2 DEF OnRead, decoded

\* Reading any number of fields is what it is in SdkProtocol.  (onRead)
LEMMA ReadImplements ==
  ASSUME RefineInv, NEW n \in 1 .. Len(wire), OnRead(n)
  PROVE  Protocol!OnRead(n)
<1> DEFINE request == Decoded(1, n)
           session == Deref(Deref(request.body, NewBody).user_session, NewUserSessionMsg)
           fields == SubSeq(Wire, 1, n)
           Out(accepted) == SerializeSdk(SdkProtocolDo(request, accepted))
           checks == Protocol!HeaderCheck(Protocol!Pack(fields))
           Ans(accepted) == Protocol!Answer(fields, accepted)
<1>1. PICK accepted \in Accepts(session) :
        IF Out(accepted) = << >> THEN UNCHANGED <<answers, ran>>
        ELSE answers' = Append(answers, Out(accepted)) /\ ran' = Append(ran, Ran(request, accepted))
  BY ReadIs
<1>2. /\ conn = "open" /\ (client = "waits" => n = Len(wire))
      /\ wire' = SubSeq(wire, n + 1, Len(wire))
      /\ UNCHANGED <<client, conn, midwares, asked>>
  BY DEF OnRead
<1>3. accepted \in Protocol!Accepts(Protocol!Session(fields)) /\ accepted \in BOOLEAN
  <2>1. session.user_type = Protocol!Session(fields)
    BY DecodedIsAsked DEF DecodedAs, UserType
  <2>2. Accepts(session) = Protocol!Accepts(Protocol!Session(fields))
    <3> HIDE DEF session, fields
    <3> QED
      BY <2>1 DEF Accepts, Protocol!Accepts
  <2>3. Accepts(session) \subseteq BOOLEAN
    <3> HIDE DEF session
    <3> QED
      BY DEF Accepts
  <2> QED
    BY <1>1, <2>2, <2>3
<1> HIDE DEF session
<1>4. Wire' = SubSeq(Wire, n + 1, Len(Wire)) /\ Len(Wire) = Len(wire)
  BY <1>2, RestOfWire
<1>5. UNCHANGED AskedAll
  BY <1>2 DEF AskedAll, Asked
<1>6. UNCHANGED IsMidwareExist(UserMidware)
  BY <1>2, SameMidwares
<1>7. CASE ~checks
  <2>1. SdkProtocolDo(request, accepted) = NewSdk
    BY <1>3, <1>7, ResponseIs
  <2>2. Out(accepted) = << >>
    <3>1. SerializeSdk(NewSdk) = << >> \o << >> \o << >>
      BY DEF SerializeSdk, NewSdk, PutMessage
    <3> QED
      BY <2>1, <3>1
  <2>3. UNCHANGED Replies
    BY <1>1, <2>2, SameReplies
  <2>4. Protocol!SdkProtocolDo(fields)
    BY <1>7, <2>3 DEF Protocol!SdkProtocolDo, Replies
  <2> HIDE DEF fields
  <2> QED
    BY <1>2, <1>4, <1>5, <1>6, <2>4 DEF Protocol!OnRead, AskedAll, fields
<1>8. CASE checks
  <2> DEFINE m == SdkProtocolDo(request, accepted)
             answer == Ans(accepted)
             r == Ran(request, accepted)
  <2>1. /\ m \in Sdk /\ m.header # << >> /\ m.header[1].pack_id = answer.pack
        /\ Told(m) = [url |-> answer.url, method |-> answer.method,
                      sdk |-> answer.sdk, content |-> answer.content]
        /\ r = answer.ran
    BY <1>3, <1>8, ResponseIs
  <2>2. answer = [pack |-> answer.pack, url |-> answer.url, method |-> answer.method,
                  sdk |-> answer.sdk, content |-> answer.content, ran |-> answer.ran]
    BY DEF Protocol!Answer
  <2> HIDE DEF m, answer, r
  <2>3. SerializeSdk(m) # << >>
    BY <2>1, ReplyIs
  <2>4. answers' = Append(answers, SerializeSdk(m)) /\ ran' = Append(ran, r)
    BY <1>1, <2>3 DEF m, r
  <2>5. PICK S : answers \in Seq(S)
    BY DEF RefineInv, AnswerInv
  <2>6. PICK T : ran \in Seq(T)
    BY DEF RefineInv, AnswerInv
  <2>7. Len(ran) = Len(answers)
    BY DEF RefineInv, AnswerInv
  <2>13. PICK N \in Nat : N = Len(answers)
    BY <2>5
  <2>8. /\ DOMAIN answers = 1 .. N /\ DOMAIN answers' = 1 .. N + 1
        /\ answers'[N + 1] = SerializeSdk(m) /\ ran'[N + 1] = r
        /\ \A i \in 1 .. N : answers'[i] = answers[i] /\ ran'[i] = ran[i]
    BY <2>4, <2>5, <2>6, <2>7, <2>13
  <2>9. Reply(N + 1)' = answer
    <3>1. Reply(N + 1)'
            = [pack |-> m.header[1].pack_id, url |-> Told(m).url, method |-> Told(m).method,
               sdk |-> Told(m).sdk, content |-> Told(m).content, ran |-> r]
      BY <2>1, <2>8, ReplyIs DEF Reply
    <3> QED
      BY <2>1, <2>2, <3>1
  <2>10. \A i \in 1 .. N : Reply(i)' = Reply(i)
    BY <2>8 DEF Reply
  <2>11. Replies' = Append(Replies, answer)
    <3> DEFINE K(i) == Reply(i)
               Q(i) == Reply(i)'
    <3>1. Replies = [i \in 1 .. N |-> K(i)] /\ Replies' = [i \in 1 .. N + 1 |-> Q(i)]
      BY <2>8 DEF Replies
    <3>2. (\A i \in 1 .. N : Q(i) = K(i)) /\ Q(N + 1) = answer
      BY <2>9, <2>10
    <3> HIDE DEF K, Q
    <3>3. Replies \in Seq({K(i) : i \in 1 .. N}) /\ Len(Replies) = N
      BY <2>8, <3>1
    <3> QED
      BY <2>8, <3>1, <3>2, <3>3
  <2>12. Protocol!SdkProtocolDo(fields)
    <3>1. Protocol!HeaderCheck(Protocol!Pack(fields))
      BY <1>8
    <3> HIDE DEF fields
    <3> QED
      BY <1>3, <2>11, <3>1 DEF Protocol!SdkProtocolDo, Replies, answer
  <2> HIDE DEF fields
  <2> QED
    BY <1>2, <1>4, <1>5, <1>6, <2>12 DEF Protocol!OnRead, AskedAll, fields
<1> QED
  BY <1>7, <1>8

\* Every step is one of SdkProtocol, or changes nothing of it.
LEMMA StepImplements == RefineInv /\ [Next]_vars => [Protocol!Next]_(Protocol!vars)
<1> SUFFICES ASSUME RefineInv, [Next]_vars
             PROVE  [Protocol!Next]_(Protocol!vars)
  OBVIOUS
<1>1. ASSUME UNCHANGED <<client, conn, midwares, wire, asked, answers, ran>>
      PROVE  UNCHANGED Protocol!vars
  <2>1. UNCHANGED Wire
    BY <1>1 DEF Wire
  <2>2. UNCHANGED AskedAll
    BY <1>1 DEF AskedAll, Asked
  <2>3. UNCHANGED Replies /\ UNCHANGED IsMidwareExist(UserMidware)
    BY <1>1, SameReplies, SameMidwares
  <2> QED
    BY <1>1, <2>1, <2>2, <2>3 DEF Protocol!vars, AskedAll, Replies
<1>2. CASE StaticInit /\ UNCHANGED connVars
  BY <1>1, <1>2 DEF connVars
<1>3. ASSUME NEW request \in Requests, Send(request) PROVE Protocol!Next
  BY <1>3, SendImplements DEF Protocol!Next
<1>4. CASE RegisterSdkMidwares
  BY <1>4, RegisterImplements DEF Protocol!Next
<1>5. ASSUME NEW n \in 1 .. Len(wire), OnRead(n) PROVE Protocol!Next
  <2>1. Protocol!OnRead(n)
    BY <1>5, ReadImplements
  <2>2. n \in 1 .. Len(Wire)
    BY <1>5, RestOfWire DEF OnRead
  <2> QED
    BY <2>1, <2>2 DEF Protocol!Next
<1>6. CASE OnReadBroken
  BY <1>6, BrokenImplements DEF Protocol!Next
<1>7. CASE UNCHANGED vars
  BY <1>1, <1>7 DEF vars, connVars
<1> QED
  BY <1>2, <1>3, <1>4, <1>5, <1>6, <1>7 DEF Next

\* Whatever clients send, whatever middlewares and routers are registered, and
\* wherever the stream is cut: written out, cut at a zero byte, parsed,
\* checked, passed through the list and the tree and written again, messages
\* are answered as SdkProtocol says.  (onRead, sdk_protocol_do)
THEOREM ExchangeImplementsProtocol == Spec => ImplementsSdkProtocol
<1>1. Init => Protocol!Init
  BY InitImplements
<1>2. RefineInv /\ [Next]_vars => [Protocol!Next]_(Protocol!vars)
  BY StepImplements
<1> QED
  BY <1>1, <1>2, RefineInvariant, PTL DEF Spec, ImplementsSdkProtocol, Protocol!Spec
====
