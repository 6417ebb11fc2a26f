---------------------------- MODULE ProtoWire_proof ----------------------------
(***************************************************************************)
(* Proofs about the loop of ProtoWire, for any message: New is a cleared   *)
(* one, Take puts a field into one, Merge merges another one in, Serialize *)
(* writes one.  InSdk_proof instantiates this module for each of the       *)
(* generated messages.                                                     *)
(*                                                                         *)
(* Names are the parts of the message in the order in which they are       *)
(* written, Numbers gives each the number of its field; TakePart,          *)
(* MergePart and PutPart do to a part what Take, Merge and Serialize do to *)
(* the message.                                                            *)
(***************************************************************************)
EXTENDS ProtoWire

LOCAL INSTANCE WellFoundedInduction

CONSTANTS
  New, Take(_, _), Merge(_, _), Serialize(_),
  Names, Numbers, TakePart(_, _, _), MergePart(_, _, _), PutPart(_, _)

Parse(m, fields) == TakeFields(Take, m, fields)

\* No field of F leads out of M.
Closed(M, F) == New \in M /\ \A m \in M, field \in F : Take(m, field) \in M

\* Taking a field of F and merging into something can be exchanged.
Mergeable(To, From, F) ==
  /\ Closed(From, F)
  /\ New \in To
  /\ \A x \in To : Merge(x, New) = x
  /\ \A x \in To, y \in From, field \in F :
       Merge(x, Take(y, field)) = Take(Merge(x, y), field)

\* Fields of F, and m is what is read from them.
Reads(fields, F, m) == fields \in Seq(F) /\ Parse(New, fields) = m

RoundTrips(M, F) == \A m \in M : Reads(Serialize(m), F, m)

\* What is proved of each message.
Sound(To, From, F) == Mergeable(To, From, F) /\ RoundTrips(From, F)

-----------------------------------------------------------------------------
\* A sequence of fewer fields is one of more.
LEMMA MoreFields ==
  ASSUME NEW F, NEW G, F \subseteq G, NEW fields \in Seq(F)
  PROVE  fields \in Seq(G)
OBVIOUS

\* What the message becomes, field after field.
Steps(taken, m, fields) ==
  /\ taken[0] = m
  /\ \A i \in 1 .. Len(fields) : taken[i] = Take(taken[i - 1], fields[i])

\* Induction on the natural numbers, with the induction hypothesis as a set.
LEMMA NaturalInduction ==
  ASSUME NEW S \in SUBSET Nat, 0 \in S, \A n \in S : n + 1 \in S
  PROVE  \A n \in Nat : n \in S
<1> SUFFICES ASSUME Nat \ S # {} PROVE FALSE
  OBVIOUS
<1> DEFINE R == {pair \in Nat \X Nat : pair[1] < pair[2]}
<1>1. IsWellFoundedOn(R, Nat)
  BY NatLessThanWellFounded DEF OpToRel
<1> HIDE DEF R
<1>2. PICK m \in Nat \ S : \A y \in Nat \ S : ~(<<y, m>> \in R)
  BY <1>1, WFMin
<1>3. \A y \in Nat \ S : ~(y < m)
  BY <1>2 DEF R
<1>4. m # 0 /\ m - 1 \in Nat
  BY <1>2
<1>5. m - 1 \in S
  BY <1>2, <1>3, <1>4
<1>6. (m - 1) + 1 \in S
  BY <1>5
<1> QED
  BY <1>2, <1>4, <1>6

\* The loop has steps, and ends with the last one.
LEMMA ParseHasSteps ==
  ASSUME NEW F, NEW m, NEW fields \in Seq(F)
  PROVE  \E taken : Steps(taken, m, fields) /\ Parse(m, fields) = taken[Len(fields)]
<1> DEFINE Part(g, n) == g = [i \in 0 .. n |-> IF i = 0 THEN m ELSE Take(g[i - 1], fields[i])]
           S == {n \in Nat : \E g : Part(g, n)}
<1>1. 0 \in S
  <2>1. Part([i \in 0 .. 0 |-> m], 0)
    OBVIOUS
  <2> QED
    BY <2>1
<1>2. ASSUME NEW n \in S PROVE n + 1 \in S
  <2>1. PICK g : Part(g, n)
    BY <1>2
  <2>2. n \in Nat
    OBVIOUS
  <2>3. \A i \in 0 .. n : g[i] = IF i = 0 THEN m ELSE Take(g[i - 1], fields[i])
    BY <2>1
  <2> DEFINE h == [i \in 0 .. n + 1 |-> IF i <= n THEN g[i] ELSE Take(g[n], fields[n + 1])]
  <2> HIDE DEF S, Part
  <2>4. ASSUME NEW i \in 0 .. n + 1
        PROVE  h[i] = IF i = 0 THEN m ELSE Take(h[i - 1], fields[i])
    <3>1. CASE i = 0
      BY <2>2, <2>3, <3>1
    <3>2. CASE i # 0 /\ i <= n
      BY <2>2, <2>3, <3>2
    <3>3. CASE i = n + 1
      BY <2>2, <3>3
    <3> QED
      BY <2>2, <3>1, <3>2, <3>3
  <2>5. h = [i \in 0 .. n + 1 |-> h[i]]
    OBVIOUS
  <2> HIDE DEF h
  <2>6. Part(h, n + 1)
    BY <2>4, <2>5 DEF Part
  <2> QED
    BY <2>2, <2>6 DEF S
<1>3. Len(fields) \in Nat
  OBVIOUS
<1>4. \E g : Part(g, Len(fields))
  <2> HIDE DEF Part
  <2>1. S \subseteq Nat
    OBVIOUS
  <2> HIDE DEF S
  <2>2. Len(fields) \in S
    BY <1>1, <1>2, <1>3, <2>1, NaturalInduction
  <2> QED
    BY <2>2 DEF S
<1> DEFINE taken == CHOOSE g : Part(g, Len(fields))
<1>5. Parse(m, fields) = taken[Len(fields)]
  BY DEF Parse, TakeFields
<1> HIDE DEF Part
<1>6. Part(taken, Len(fields))
  BY <1>4
<1> HIDE DEF taken
<1>7. Steps(taken, m, fields)
  BY <1>3, <1>6 DEF Part, Steps
<1> QED
  BY <1>5, <1>7

\* Whatever has these steps ends like the loop.
LEMMA StepsEndAtParse ==
  ASSUME NEW F, NEW m, NEW fields \in Seq(F), NEW taken, Steps(taken, m, fields)
  PROVE  Parse(m, fields) = taken[Len(fields)]
<1>1. PICK t : Steps(t, m, fields) /\ Parse(m, fields) = t[Len(fields)]
  BY ParseHasSteps
<1> DEFINE S == {n \in Nat : n > Len(fields) \/ t[n] = taken[n]}
<1>2. 0 \in S
  BY <1>1 DEF Steps
<1>3. ASSUME NEW n \in S PROVE n + 1 \in S
  <2>1. CASE n + 1 > Len(fields)
    BY <2>1
  <2>2. CASE n + 1 <= Len(fields)
    <3>1. n + 1 \in 1 .. Len(fields) /\ (n + 1) - 1 = n /\ t[n] = taken[n]
      BY <2>2
    <3>2. t[n + 1] = Take(t[n], fields[n + 1])
      BY <1>1, <3>1 DEF Steps
    <3>3. taken[n + 1] = Take(taken[n], fields[n + 1])
      BY <3>1 DEF Steps
    <3> QED
      BY <3>1, <3>2, <3>3
  <2> QED
    BY <2>1, <2>2
<1>4. Len(fields) \in Nat /\ S \subseteq Nat
  OBVIOUS
<1> HIDE DEF S
<1>5. Len(fields) \in S
  BY <1>2, <1>3, <1>4, NaturalInduction
<1> QED
  BY <1>1, <1>4, <1>5 DEF S

\* No field changes nothing.
LEMMA ParseNothing ==
  ASSUME NEW m
  PROVE  Parse(m, << >>) = m
<1>1. << >> \in Seq({}) /\ Len(<< >>) = 0
  OBVIOUS
<1>2. PICK t : Steps(t, m, << >>) /\ Parse(m, << >>) = t[Len(<< >>)]
  BY <1>1, ParseHasSteps
<1> QED
  BY <1>1, <1>2 DEF Steps

\* One field is taken.
LEMMA ParseOne ==
  ASSUME NEW m, NEW field
  PROVE  Parse(m, <<field>>) = Take(m, field)
<1>1. <<field>> \in Seq({field}) /\ Len(<<field>>) = 1
  OBVIOUS
<1>2. PICK t : Steps(t, m, <<field>>) /\ Parse(m, <<field>>) = t[Len(<<field>>)]
  BY <1>1, ParseHasSteps
<1>3. 1 \in 1 .. Len(<<field>>) /\ <<field>>[1] = field /\ 1 - 1 = 0
  BY <1>1
<1> QED
  BY <1>1, <1>2, <1>3 DEF Steps

\* A set that no field leaves is not left.
LEMMA ParseStays ==
  ASSUME NEW F, NEW M, Closed(M, F), NEW m \in M, NEW fields \in Seq(F)
  PROVE  Parse(m, fields) \in M
<1>1. PICK t : Steps(t, m, fields) /\ Parse(m, fields) = t[Len(fields)]
  BY ParseHasSteps
<1> DEFINE S == {n \in Nat : n > Len(fields) \/ t[n] \in M}
<1>2. 0 \in S
  BY <1>1 DEF Steps
<1>3. ASSUME NEW n \in S PROVE n + 1 \in S
  <2>1. CASE n + 1 > Len(fields)
    BY <2>1
  <2>2. CASE n + 1 <= Len(fields)
    <3>1. n + 1 \in 1 .. Len(fields) /\ (n + 1) - 1 = n /\ t[n] \in M /\ fields[n + 1] \in F
      BY <2>2
    <3>2. t[n + 1] = Take(t[n], fields[n + 1])
      BY <1>1, <3>1 DEF Steps
    <3> QED
      BY <3>1, <3>2 DEF Closed
  <2> QED
    BY <2>1, <2>2
<1>4. Len(fields) \in Nat /\ S \subseteq Nat
  OBVIOUS
<1> HIDE DEF S
<1>5. Len(fields) \in S
  BY <1>2, <1>3, <1>4, NaturalInduction
<1> QED
  BY <1>1, <1>4, <1>5 DEF S

\* Two parts, one after the other.
LEMMA ParseParts ==
  ASSUME NEW F, NEW m, NEW first \in Seq(F), NEW second \in Seq(F)
  PROVE  Parse(m, first \o second) = Parse(Parse(m, first), second)
<1>1. PICK t : Steps(t, m, first) /\ Parse(m, first) = t[Len(first)]
  BY ParseHasSteps
<1>2. PICK u : /\ Steps(u, Parse(m, first), second)
               /\ Parse(Parse(m, first), second) = u[Len(second)]
  BY ParseHasSteps
<1> DEFINE all == first \o second
           v == [i \in 0 .. Len(all) |-> IF i <= Len(first) THEN t[i] ELSE u[i - Len(first)]]
<1>3. /\ all \in Seq(F) /\ Len(all) = Len(first) + Len(second)
      /\ Len(first) \in Nat /\ Len(second) \in Nat
  OBVIOUS
<1>4. u[0] = t[Len(first)]
  BY <1>1, <1>2 DEF Steps
<1>5. v[0] = m
  BY <1>1, <1>3 DEF Steps
<1>6. ASSUME NEW i \in 1 .. Len(all) PROVE v[i] = Take(v[i - 1], all[i])
  <2>1. CASE i <= Len(first)
    <3>1. all[i] = first[i] /\ i \in 1 .. Len(first)
      BY <1>3, <2>1
    <3>2. t[i] = Take(t[i - 1], first[i])
      BY <1>1, <3>1 DEF Steps
    <3>3. v[i] = t[i] /\ v[i - 1] = t[i - 1]
      BY <1>3, <2>1
    <3> QED
      BY <3>1, <3>2, <3>3
  <2>2. CASE i > Len(first)
    <3> DEFINE j == i - Len(first)
    <3>1. all[i] = second[j] /\ j \in 1 .. Len(second) /\ v[i] = u[j]
      BY <1>3, <2>2
    <3>2. v[i - 1] = u[j - 1]
      <4>1. CASE i - 1 = Len(first)
        <5>1. v[i - 1] = t[i - 1] /\ j - 1 = 0
          BY <1>3, <4>1
        <5> QED
          BY <1>4, <4>1, <5>1
      <4>2. CASE i - 1 # Len(first)
        BY <1>3, <2>2, <4>2
      <4> QED
        BY <4>1, <4>2
    <3>3. u[j] = Take(u[j - 1], second[j])
      BY <1>2, <3>1 DEF Steps
    <3> HIDE DEF j
    <3> QED
      BY <3>1, <3>2, <3>3
  <2> QED
    BY <1>3, <2>1, <2>2
<1>7. v[Len(all)] = u[Len(second)]
  <2>1. CASE Len(second) = 0
    BY <1>3, <1>4, <2>1
  <2>2. CASE Len(second) # 0
    BY <1>3, <2>2
  <2> QED
    BY <2>1, <2>2
<1> HIDE DEF all, v
<1>8. Steps(v, m, all)
  BY <1>5, <1>6 DEF Steps
<1>9. Parse(m, all) = v[Len(all)]
  BY <1>3, <1>8, StepsEndAtParse
<1> QED
  BY <1>2, <1>7, <1>9 DEF all

\* When merging and taking one field can be exchanged, merging and the loop can.
LEMMA ParseMerged ==
  ASSUME NEW F, NEW To, NEW From, Mergeable(To, From, F), NEW x \in To, NEW y \in From, NEW fields \in Seq(F)
  PROVE  Merge(x, Parse(y, fields)) = Parse(Merge(x, y), fields)
<1>1. PICK t : Steps(t, y, fields) /\ Parse(y, fields) = t[Len(fields)]
  BY ParseHasSteps
<1> DEFINE S == {n \in Nat : n > Len(fields) \/ t[n] \in From}
           u == [i \in 0 .. Len(fields) |-> Merge(x, t[i])]
<1>2. 0 \in S
  BY <1>1 DEF Steps
<1>3. ASSUME NEW n \in S PROVE n + 1 \in S
  <2>1. CASE n + 1 > Len(fields)
    BY <2>1
  <2>2. CASE n + 1 <= Len(fields)
    <3>1. n + 1 \in 1 .. Len(fields) /\ (n + 1) - 1 = n /\ t[n] \in From /\ fields[n + 1] \in F
      BY <2>2
    <3>2. t[n + 1] = Take(t[n], fields[n + 1])
      BY <1>1, <3>1 DEF Steps
    <3> QED
      BY <3>1, <3>2 DEF Mergeable, Closed
  <2> QED
    BY <2>1, <2>2
<1>4. Len(fields) \in Nat /\ S \subseteq Nat
  OBVIOUS
<1>5. \A n \in 0 .. Len(fields) : t[n] \in From
  <2> HIDE DEF S
  <2>1. \A n \in Nat : n \in S
    BY <1>2, <1>3, <1>4, NaturalInduction
  <2> QED
    BY <1>4, <2>1 DEF S
<1>6. u[0] = Merge(x, y)
  BY <1>1, <1>4 DEF Steps
<1>7. ASSUME NEW i \in 1 .. Len(fields) PROVE u[i] = Take(u[i - 1], fields[i])
  <2>1. i - 1 \in 0 .. Len(fields) /\ i \in 0 .. Len(fields) /\ fields[i] \in F
    BY <1>4
  <2>2. t[i] = Take(t[i - 1], fields[i])
    BY <1>1 DEF Steps
  <2>3. u[i] = Merge(x, t[i]) /\ u[i - 1] = Merge(x, t[i - 1])
    BY <2>1
  <2> HIDE DEF u
  <2> QED
    BY <1>5, <2>1, <2>2, <2>3 DEF Mergeable
<1>8. u[Len(fields)] = Merge(x, t[Len(fields)])
  BY <1>4
<1> HIDE DEF u
<1>9. Steps(u, Merge(x, y), fields)
  BY <1>6, <1>7 DEF Steps
<1> QED
  BY <1>1, <1>8, <1>9, StepsEndAtParse

\* So what is read at the end of something is merged into it.
LEMMA ParseIsMerge ==
  ASSUME NEW F, NEW To, NEW From, Mergeable(To, From, F), NEW x \in To, NEW fields \in Seq(F)
  PROVE  Parse(x, fields) = Merge(x, Parse(New, fields))
<1>1. New \in From /\ Merge(x, New) = x
  BY DEF Mergeable, Closed
<1>2. Merge(x, Parse(New, fields)) = Parse(Merge(x, New), fields)
  BY <1>1, ParseMerged
<1> QED
  BY <1>1, <1>2

-----------------------------------------------------------------------------
(* A pointer to such a message.                                            *)

TakePointer(pointer, field) == TakeMessage(pointer, field, Parse, New)

MergePointers(to, from) == MergeMessage(to, from, Merge, New)

PutPointer(number, pointer) == PutMessage(number, pointer, Serialize)

\* A pointer is null or leads to one message.
LEMMA PointerTo ==
  ASSUME NEW M
  PROVE  /\ << >> \in Pointer(M)
         /\ \A m \in M : <<m>> \in Pointer(M)
         /\ \A p \in Pointer(M) : p # << >> => p[1] \in M /\ p = <<p[1]>>
BY DEF Pointer

\* A message read through a pointer stays of its type.
LEMMA PointerClosed ==
  ASSUME NEW F, NEW M, Closed(M, F),
         NEW pointer \in Pointer(M), NEW field, field.value \in Seq(F)
  PROVE  TakePointer(pointer, field) \in Pointer(M)
<1>1. Deref(pointer, New) \in M
  BY PointerTo DEF Deref, Closed
<1>2. Parse(Deref(pointer, New), field.value) \in M
  BY <1>1, ParseStays
<1> QED
  BY <1>2, PointerTo DEF TakePointer, TakeMessage

\* Merging pointers and parsing into one can be exchanged as well.
LEMMA PointerMergeable ==
  ASSUME NEW F, NEW To, NEW From, Mergeable(To, From, F),
         NEW to \in Pointer(To), NEW from \in Pointer(From), NEW field, field.value \in Seq(F)
  PROVE  MergePointers(to, TakePointer(from, field)) = TakePointer(MergePointers(to, from), field)
<1> DEFINE x == Deref(to, New)
           y == Deref(from, New)
<1>1. x \in To /\ y \in From
  BY PointerTo DEF Deref, Mergeable, Closed
<1>2. MergePointers(to, TakePointer(from, field)) = <<Merge(x, Parse(y, field.value))>>
  BY DEF MergePointers, MergeMessage, TakePointer, TakeMessage
<1>3. Merge(x, Parse(y, field.value)) = Parse(Merge(x, y), field.value)
  BY <1>1, ParseMerged
<1>4. Deref(MergePointers(to, from), New) = Merge(x, y)
  <2>1. CASE from = << >>
    BY <1>1, <2>1 DEF MergePointers, MergeMessage, Deref, Mergeable
  <2>2. CASE from # << >>
    BY <2>2 DEF MergePointers, MergeMessage, Deref
  <2> QED
    BY <2>1, <2>2
<1> QED
  BY <1>2, <1>3, <1>4 DEF TakePointer, TakeMessage

\* A message that is there is written as one field, and read from it.
LEMMA PointerReads ==
  ASSUME NEW F, NEW To, NEW From, Sound(To, From, F), NEW number,
         NEW from \in Pointer(From) \ {<< >>}
  PROVE  \E field \in [number : {number}, value : Seq(F)] :
           PutPointer(number, from) = <<field>> /\ TakePointer(<< >>, field) = from
<1> DEFINE field == Field(number, Serialize(from[1]))
<1>1. from[1] \in From /\ from = <<from[1]>>
  BY PointerTo
<1>2. Reads(Serialize(from[1]), F, from[1])
  BY <1>1 DEF Sound, RoundTrips
<1>3. field \in [number : {number}, value : Seq(F)]
  BY <1>2 DEF Reads, Field
<1>4. PutPointer(number, from) = <<field>> /\ TakePointer(<< >>, field) = from
  BY <1>1, <1>2 DEF Reads, PutPointer, PutMessage, TakePointer, TakeMessage, Deref, Field
<1> HIDE DEF field
<1> QED
  BY <1>3, <1>4

\* What the message a pointer belongs to needs to know of it.
LEMMA PointerSound ==
  ASSUME NEW F, NEW To, NEW From, Sound(To, From, F), NEW number
  PROVE  /\ << >> \in Pointer(To) /\ << >> \in Pointer(From)
         /\ \A to \in Pointer(To) : MergePointers(to, << >>) = to
         /\ \A from \in Pointer(From) : \A field : field.value \in Seq(F) =>
              TakePointer(from, field) \in Pointer(From)
         /\ \A to \in Pointer(To), from \in Pointer(From) : \A field : field.value \in Seq(F) =>
              MergePointers(to, TakePointer(from, field))
                = TakePointer(MergePointers(to, from), field)
         /\ PutPointer(number, << >>) = << >>
         /\ \A from \in Pointer(From) \ {<< >>} : \E field \in [number : {number}, value : Seq(F)] :
              PutPointer(number, from) = <<field>> /\ TakePointer(<< >>, field) = from
<1>1. << >> \in Pointer(To) /\ << >> \in Pointer(From)
  BY PointerTo
<1>2. \A to \in Pointer(To) : MergePointers(to, << >>) = to
  BY DEF MergePointers, MergeMessage
<1>3. ASSUME NEW from \in Pointer(From), NEW field, field.value \in Seq(F)
      PROVE  TakePointer(from, field) \in Pointer(From)
  BY <1>3, PointerClosed DEF Sound, Mergeable
<1>4. ASSUME NEW to \in Pointer(To), NEW from \in Pointer(From), NEW field, field.value \in Seq(F)
      PROVE  MergePointers(to, TakePointer(from, field))
               = TakePointer(MergePointers(to, from), field)
  BY <1>4, PointerMergeable DEF Sound
<1>5. PutPointer(number, << >>) = << >>
  BY DEF PutPointer, PutMessage
<1>6. ASSUME NEW from \in Pointer(From) \ {<< >>}
      PROVE  \E field \in [number : {number}, value : Seq(F)] :
               PutPointer(number, from) = <<field>> /\ TakePointer(<< >>, field) = from
  BY PointerReads
<1> QED
  BY <1>1, <1>2, <1>3, <1>4, <1>5, <1>6

-----------------------------------------------------------------------------
(* Messages that are dealt with part by part.                              *)

Parts == DOMAIN New

\* These parts and no others.
HasParts(m) == m = [x \in Parts |-> m[x]]

With(m, x, value) == [m EXCEPT ![x] = value]

Typed(M, types) == \A m : m \in M <=> HasParts(m) /\ \A x \in Parts : m[x] \in types[x]

\* The fields with these values, each with the number of its part.
Wire(values) == UNION {[number : {Numbers[x]}, value : values[x]] : x \in Parts}

\* Every part is written once.
AllWritten ==
  /\ Len(Names) \in Nat \ {0}
  /\ \A x \in Parts : \E i \in 1 .. Len(Names) : x = Names[i]
  /\ \A i \in 1 .. Len(Names) : Names[i] \in Parts /\ \A j \in 1 .. i - 1 : Names[i] # Names[j]

\* One after the other.
WrittenInOrder(m, puts) ==
  /\ puts[1] = PutPart(Names[1], m[Names[1]])
  /\ \A i \in 2 .. Len(Names) : puts[i] = puts[i - 1] \o PutPart(Names[i], m[Names[i]])
  /\ Serialize(m) = puts[Len(Names)]

ByParts ==
  /\ HasParts(New)
  /\ AllWritten
  /\ \A x \in Parts : \A m, field : field.number = Numbers[x] =>
       Take(m, field) = With(m, x, TakePart(x, m[x], field))
  /\ \A to, from : Merge(to, from) = [x \in Parts |-> MergePart(x, to[x], from[x])]
  /\ \A m : \E puts : WrittenInOrder(m, puts)

\* A part that has nothing in it becomes value when its fields are read.
PartReads(x, value, values) ==
  /\ PutPart(x, value) \in Seq([number : {Numbers[x]}, value : values])
  /\ \A m : HasParts(m) /\ m[x] = New[x] => Parse(m, PutPart(x, value)) = With(m, x, value)

\* Sound for one part, with these things in it and fields with these values.
PartSound(x, to_s, from_s, values) ==
  /\ New[x] \in to_s /\ New[x] \in from_s
  /\ \A to \in to_s : MergePart(x, to, New[x]) = to
  /\ \A from \in from_s : \A field : field.value \in values =>
       TakePart(x, from, field) \in from_s
  /\ \A to \in to_s, from \in from_s : \A field : field.value \in values =>
       MergePart(x, to, TakePart(x, from, field)) = TakePart(x, MergePart(x, to, from), field)
  /\ \A from \in from_s : PartReads(x, from, values)

\* A number, a string or a flag.
ScalarPart(x) ==
  /\ \A old, field : TakePart(x, old, field) = field.value
  /\ \A to, from : MergePart(x, to, from) = IF from = New[x] THEN to ELSE from
  /\ \A value : PutPart(x, value) =
       IF value = New[x] THEN << >> ELSE <<[number |-> Numbers[x], value |-> value]>>

\* A part is read when it is written as one field, or as none when it is cleared.
LEMMA OneFieldReads ==
  ASSUME ByParts, NEW x \in Parts, NEW value, NEW values,
         \/ PutPart(x, value) = << >> /\ value = New[x]
         \/ \E field \in [number : {Numbers[x]}, value : values] :
              PutPart(x, value) = <<field>> /\ TakePart(x, New[x], field) = value
  PROVE  PartReads(x, value, values)
<1>1. CASE PutPart(x, value) = << >> /\ value = New[x]
  <2>1. PutPart(x, value) \in Seq([number : {Numbers[x]}, value : values])
    BY <1>1
  <2>2. ASSUME NEW m, HasParts(m), m[x] = New[x]
        PROVE  Parse(m, PutPart(x, value)) = With(m, x, value)
    <3>1. Parse(m, PutPart(x, value)) = m
      BY <1>1, ParseNothing
    <3>2. With(m, x, value) = m
      BY <1>1, <2>2 DEF With, HasParts
    <3> QED
      BY <3>1, <3>2
  <2> QED
    BY <2>1, <2>2 DEF PartReads
<1>2. ASSUME NEW field \in [number : {Numbers[x]}, value : values], PutPart(x, value) = <<field>>,
             TakePart(x, New[x], field) = value
      PROVE  PartReads(x, value, values)
  <2>1. PutPart(x, value) \in Seq([number : {Numbers[x]}, value : values])
    BY <1>2
  <2>2. ASSUME NEW m, HasParts(m), m[x] = New[x]
        PROVE  Parse(m, PutPart(x, value)) = With(m, x, value)
    <3>1. Parse(m, PutPart(x, value)) = Take(m, field)
      BY <1>2, ParseOne
    <3>2. field.number = Numbers[x]
      OBVIOUS
    <3>3. Take(m, field) = With(m, x, TakePart(x, m[x], field))
      BY <3>2 DEF ByParts
    <3> QED
      BY <1>2, <2>2, <3>1, <3>3
  <2> QED
    BY <2>1, <2>2 DEF PartReads
<1> QED
  BY <1>1, <1>2

\* A part is sound when each thing in it is read from at most one field.
LEMMA OneFieldSound ==
  ASSUME ByParts, NEW x \in Parts, NEW to_s, NEW from_s, NEW values,
         New[x] \in to_s, New[x] \in from_s,
         \A to \in to_s : MergePart(x, to, New[x]) = to,
         \A from \in from_s : \A field : field.value \in values =>
           TakePart(x, from, field) \in from_s,
         \A to \in to_s, from \in from_s : \A field : field.value \in values =>
           MergePart(x, to, TakePart(x, from, field)) = TakePart(x, MergePart(x, to, from), field),
         PutPart(x, New[x]) = << >>,
         \A from \in from_s \ {New[x]} : \E field \in [number : {Numbers[x]}, value : values] :
           PutPart(x, from) = <<field>> /\ TakePart(x, New[x], field) = from
  PROVE  PartSound(x, to_s, from_s, values)
<1>1. ASSUME NEW from \in from_s PROVE PartReads(x, from, values)
  <2>1. CASE from = New[x]
    BY <2>1, OneFieldReads
  <2>2. CASE from # New[x]
    BY <2>2, OneFieldReads
  <2> QED
    BY <2>1, <2>2
<1> QED
  BY <1>1 DEF PartSound

\* A part that is a number, a string or a flag is sound.
LEMMA ScalarSound ==
  ASSUME ByParts, NEW x \in Parts, ScalarPart(x), NEW S, New[x] \in S
  PROVE  PartSound(x, S, S, S \ {New[x]})
<1> DEFINE V == S \ {New[x]}
<1>1. /\ \A to \in S : MergePart(x, to, New[x]) = to
      /\ \A from \in S : \A field : field.value \in V => TakePart(x, from, field) \in S
      /\ \A to \in S, from \in S : \A field : field.value \in V =>
           MergePart(x, to, TakePart(x, from, field)) = TakePart(x, MergePart(x, to, from), field)
      /\ PutPart(x, New[x]) = << >>
  BY DEF ScalarPart
<1>2. ASSUME NEW from \in S \ {New[x]}
      PROVE  \E field \in [number : {Numbers[x]}, value : V] :
               PutPart(x, from) = <<field>> /\ TakePart(x, New[x], field) = from
  <2> DEFINE field == [number |-> Numbers[x], value |-> from]
  <2>1. field \in [number : {Numbers[x]}, value : V]
    OBVIOUS
  <2>2. PutPart(x, from) = <<field>> /\ TakePart(x, New[x], field) = from
    BY DEF ScalarPart
  <2> HIDE DEF field, V
  <2> QED
    BY <2>1, <2>2
<1> HIDE DEF V
<1>3. PartSound(x, S, S, V)
  BY <1>1, <1>2, OneFieldSound
<1> QED
  BY <1>3 DEF V

\* A field has the number of some part and a value for it.
LEMMA WireIs ==
  ASSUME NEW values, NEW field \in Wire(values)
  PROVE  \E x \in Parts : field.number = Numbers[x] /\ field.value \in values[x]
BY DEF Wire

\* If the parts are sound, no field leads out of the type,
LEMMA ByPartsClosed ==
  ASSUME ByParts, NEW froms, NEW From, Typed(From, froms), NEW tos, NEW values,
         \A x \in Parts : PartSound(x, tos[x], froms[x], values[x])
  PROVE  Closed(From, Wire(values))
<1>1. New \in From
  BY DEF Typed, ByParts, PartSound
<1>2. ASSUME NEW m \in From, NEW field \in Wire(values) PROVE Take(m, field) \in From
  <2>1. PICK x \in Parts : field.number = Numbers[x] /\ field.value \in values[x]
    BY WireIs
  <2> DEFINE taken == TakePart(x, m[x], field)
  <2>2. Take(m, field) = With(m, x, taken)
    BY <2>1 DEF ByParts
  <2>3. HasParts(m) /\ (\A y \in Parts : m[y] \in froms[y])
    BY DEF Typed
  <2>4. taken \in froms[x]
    BY <2>1, <2>3 DEF PartSound
  <2> HIDE DEF taken
  <2>5. /\ HasParts(With(m, x, taken))
        /\ \A y \in Parts : With(m, x, taken)[y] \in froms[y]
    BY <2>3, <2>4 DEF With, HasParts
  <2> QED
    BY <2>2, <2>5 DEF Typed
<1> QED
  BY <1>1, <1>2 DEF Closed

\* merging and taking a field can be exchanged,
LEMMA ByPartsMergeable ==
  ASSUME ByParts, NEW froms, NEW From, Typed(From, froms), NEW tos, NEW To, Typed(To, tos),
         NEW values, \A x \in Parts : PartSound(x, tos[x], froms[x], values[x])
  PROVE  Mergeable(To, From, Wire(values))
<1>1. New \in To
  BY DEF Typed, ByParts, PartSound
<1>2. ASSUME NEW m \in To PROVE Merge(m, New) = m
  <2>1. HasParts(m) /\ \A x \in Parts : m[x] \in tos[x]
    BY DEF Typed
  <2>2. ASSUME NEW x \in Parts PROVE MergePart(x, m[x], New[x]) = m[x]
    BY <2>1 DEF PartSound
  <2>3. Merge(m, New) = [x \in Parts |-> MergePart(x, m[x], New[x])]
    BY DEF ByParts
  <2> QED
    BY <2>1, <2>2, <2>3 DEF HasParts
<1>3. ASSUME NEW to \in To, NEW from \in From, NEW field \in Wire(values)
      PROVE  Merge(to, Take(from, field)) = Take(Merge(to, from), field)
  <2>1. PICK x \in Parts : field.number = Numbers[x] /\ field.value \in values[x]
    BY WireIs
  <2> DEFINE taken == TakePart(x, from[x], field)
             after == With(from, x, taken)
             merged == Merge(to, from)
             both == TakePart(x, merged[x], field)
  <2>2. Take(from, field) = after /\ Take(merged, field) = With(merged, x, both)
    BY <2>1 DEF ByParts
  <2>3. /\ HasParts(from)
        /\ to[x] \in tos[x] /\ from[x] \in froms[x]
    BY <2>1 DEF Typed
  <2>4. /\ merged = [y \in Parts |-> MergePart(y, to[y], from[y])]
        /\ Merge(to, after) = [y \in Parts |-> MergePart(y, to[y], after[y])]
    BY DEF ByParts
  <2>5. MergePart(x, to[x], taken) = both
    <3>1. merged[x] = MergePart(x, to[x], from[x])
      BY <2>1, <2>4
    <3>2. PartSound(x, tos[x], froms[x], values[x])
      BY <2>1
    <3>3. MergePart(x, to[x], TakePart(x, from[x], field))
            = TakePart(x, MergePart(x, to[x], from[x]), field)
      BY <2>1, <2>3, <3>2 DEF PartSound
    <3> QED
      BY <3>1, <3>3
  <2> HIDE DEF taken, both
  <2>6. after[x] = taken /\ \A y \in Parts \ {x} : after[y] = from[y]
    BY <2>1, <2>3 DEF With, HasParts
  <2> HIDE DEF after, merged
  <2>7. Merge(to, after) = With(merged, x, both)
    BY <2>1, <2>4, <2>5, <2>6 DEF With
  <2> QED
    BY <2>2, <2>7 DEF merged
<1>4. Closed(From, Wire(values))
  BY ByPartsClosed
<1> QED
  BY <1>1, <1>2, <1>3, <1>4 DEF Mergeable

\* m as far as these parts go, and cleared in the others.
Only(parts, m) == [x \in Parts |-> IF x \in parts THEN m[x] ELSE New[x]]

\* and what is written is read back.
LEMMA ByPartsRoundTrips ==
  ASSUME ByParts, NEW froms, NEW From, Typed(From, froms), NEW tos, NEW values,
         \A x \in Parts : PartSound(x, tos[x], froms[x], values[x])
  PROVE  RoundTrips(From, Wire(values))
<1> SUFFICES ASSUME NEW m \in From PROVE Reads(Serialize(m), Wire(values), m)
  BY DEF RoundTrips
<1>1. HasParts(m) /\ \A x \in Parts : m[x] \in froms[x]
  BY DEF Typed
<1>2. PICK puts : WrittenInOrder(m, puts)
  BY DEF ByParts
<1> DEFINE F == Wire(values)
           upto(i) == {Names[j] : j \in 1 .. i}
           put(i) == PutPart(Names[i], m[Names[i]])
<1>3. Len(Names) \in Nat \ {0}
  BY DEF ByParts, AllWritten
<1>4. ASSUME NEW i \in 1 .. Len(Names)
      PROVE  /\ put(i) \in Seq(F)
             /\ Parse(Only(upto(i - 1), m), put(i)) = Only(upto(i), m)
  <2>1. /\ Names[i] \in Parts /\ \A j \in 1 .. i - 1 : Names[i] # Names[j]
        /\ PartReads(Names[i], m[Names[i]], values[Names[i]])
    BY <1>1 DEF ByParts, AllWritten, PartSound
  <2>2. put(i) \in Seq(F)
    <3>1. [number : {Numbers[Names[i]]}, value : values[Names[i]]] \subseteq F
      BY <2>1 DEF Wire
    <3>2. put(i) \in Seq([number : {Numbers[Names[i]]}, value : values[Names[i]]])
      BY <2>1 DEF PartReads
    <3> HIDE DEF put, F
    <3> QED
      BY <3>1, <3>2, MoreFields
  <2>3. /\ HasParts(Only(upto(i - 1), m))
        /\ Only(upto(i - 1), m)[Names[i]] = New[Names[i]]
    BY <2>1 DEF Only, HasParts
  <2>4. Parse(Only(upto(i - 1), m), put(i)) = With(Only(upto(i - 1), m), Names[i], m[Names[i]])
    BY <2>1, <2>3 DEF PartReads
  <2>5. upto(i) = upto(i - 1) \cup {Names[i]}
    BY <1>3
  <2>6. With(Only(upto(i - 1), m), Names[i], m[Names[i]]) = Only(upto(i - 1) \cup {Names[i]}, m)
    BY <2>1 DEF With, Only
  <2> QED
    BY <2>2, <2>4, <2>5, <2>6
<1> HIDE DEF F, upto, put
<1> DEFINE S == {n \in Nat : n = 0 \/ n > Len(Names) \/ Reads(puts[n], F, Only(upto(n), m))}
<1>5. 0 \in S
  OBVIOUS
<1>6. Only(upto(0), m) = New
  BY DEF Only, upto, ByParts, HasParts
<1>7. ASSUME NEW n \in S PROVE n + 1 \in S
  <2>1. CASE n + 1 > Len(Names)
    BY <2>1
  <2>2. CASE n = 0 /\ n + 1 <= Len(Names)
    <3>1. put(1) \in Seq(F) /\ Parse(Only(upto(0), m), put(1)) = Only(upto(1), m)
      BY <1>3, <1>4
    <3>2. puts[1] = put(1)
      BY <1>2 DEF put, WrittenInOrder
    <3>3. Reads(puts[1], F, Only(upto(1), m))
      BY <1>6, <3>1, <3>2 DEF Reads
    <3> QED
      BY <2>2, <3>3
  <2>3. CASE n # 0 /\ n + 1 <= Len(Names)
    <3>1. n \in Nat /\ n + 1 \in 2 .. Len(Names) /\ (n + 1) - 1 = n
      BY <1>3, <2>3
    <3>2. puts[n] \in Seq(F) /\ Parse(New, puts[n]) = Only(upto(n), m)
      BY <2>3, <3>1 DEF Reads
    <3>3. put(n + 1) \in Seq(F) /\ Parse(Only(upto(n), m), put(n + 1)) = Only(upto(n + 1), m)
      BY <1>3, <1>4, <3>1
    <3>4. puts[n + 1] = puts[n] \o put(n + 1)
      BY <1>2, <3>1 DEF put, WrittenInOrder
    <3>5. Parse(New, puts[n + 1]) = Only(upto(n + 1), m) /\ puts[n + 1] \in Seq(F)
      BY <3>2, <3>3, <3>4, ParseParts
    <3> QED
      BY <3>1, <3>5 DEF Reads
  <2> QED
    BY <1>3, <2>1, <2>2, <2>3
<1>8. Reads(puts[Len(Names)], F, Only(upto(Len(Names)), m))
  <2>1. S \subseteq Nat
    OBVIOUS
  <2> HIDE DEF S
  <2>2. Len(Names) \in S
    BY <1>3, <1>5, <1>7, <2>1, NaturalInduction
  <2> QED
    BY <1>3, <2>2 DEF S
<1>9. Only(upto(Len(Names)), m) = m
  BY <1>1 DEF Only, upto, ByParts, AllWritten, HasParts
<1> QED
  BY <1>2, <1>8, <1>9 DEF F, WrittenInOrder

\* A message is sound when its parts are.
LEMMA ByPartsSound ==
  ASSUME ByParts, NEW froms, NEW From, Typed(From, froms), NEW tos, NEW To, Typed(To, tos),
         NEW values, \A x \in Parts : PartSound(x, tos[x], froms[x], values[x])
  PROVE  Sound(To, From, Wire(values))
BY ByPartsMergeable, ByPartsRoundTrips DEF Sound
=============================================================================
