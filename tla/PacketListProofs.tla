-------------------------- MODULE PacketListProofs --------------------------
(***************************************************************************)
(* The packets of a flow_t, for every number of packets and every length   *)
(* of them: the pointers lead through exactly what is allocated, and       *)
(* packets, partial writes and pointers together are the queue of bytes    *)
(* that ByteQueue describes and Session takes for granted.                 *)
(***************************************************************************)
EXTENDS PacketList, TLAPS, SequenceTheorems, WellFoundedInduction

-----------------------------------------------------------------------------
(* Putting sequences of bytes together.                                     *)

\* Every set of naturals that is not empty has a least element.
LEMMA LeastElement ==
    ASSUME NEW T \in SUBSET Nat, T # {}
    PROVE  \E n \in T : \A m \in T : n <= m
<1>1. PICK n \in T : \A m \in T : ~(<<m, n>> \in OpToRel(<, Nat))
  BY NatLessThanWellFounded, WFMin
<1>2. \A m \in T : ~(m < n)
  BY <1>1 DEF OpToRel
<1> QED
  BY <1>2

Bytes == Seq(Nat)
IsParts(ss) == ss \in Seq(Bytes)

Cat(a, b) == a \o b

LEMMA CatAssociative ==
    \A a, b, c \in Bytes : Cat(Cat(a, b), c) = Cat(a, Cat(b, c))
BY ConcatAssociative DEF Bytes, Cat

\* What the recursive function in FlattenSeq computes, up to n.
Joins(f, ss, n) ==
    /\ f \in [1 .. n -> Bytes]
    /\ \A i \in 1 .. n : f[i] = IF i = 1 THEN ss[i] ELSE Cat(f[i - 1], ss[i])

LEMMA BytesJoin ==
    ASSUME NEW a \in Bytes, NEW b \in Bytes
    PROVE  Cat(a, b) \in Bytes
BY DEF Bytes, Cat

Next1(f, ss, n) == IF n = 0 THEN ss[1] ELSE Cat(f[n], ss[n + 1])
OneMore(f, ss, n) ==
    [i \in 1 .. n + 1 |-> IF i = n + 1 THEN Next1(f, ss, n) ELSE f[i]]

LEMMA JoinsOneMore ==
    ASSUME NEW ss, NEW n \in Nat, NEW f, Joins(f, ss, n), ss[n + 1] \in Bytes
    PROVE  Joins(OneMore(f, ss, n), ss, n + 1)
<1> DEFINE next == IF n = 0 THEN ss[1] ELSE Cat(f[n], ss[n + 1])
           h == [i \in 1 .. n + 1 |-> IF i = n + 1 THEN next ELSE f[i]]
<1>1. \A i \in 1 .. n : f[i] \in Bytes
  BY DEF Joins
<1>2. next \in Bytes
  <2>1. n # 0 => f[n] \in Bytes
    BY <1>1
  <2> QED
    BY <2>1, BytesJoin
<1> HIDE DEF next
<1>3. h \in [1 .. n + 1 -> Bytes]
  BY <1>1, <1>2
<1>4. \A i \in 1 .. n + 1 : h[i] = IF i = 1 THEN ss[i] ELSE Cat(h[i - 1], ss[i])
  <2> TAKE i \in 1 .. n + 1
  <2>1. CASE i = n + 1
    <3>1. h[i] = next /\ (n # 0 => h[i - 1] = f[n])
      BY <2>1
    <3> QED
      BY <2>1, <3>1 DEF next
  <2>2. CASE i # n + 1
    <3>1. i \in 1 .. n /\ h[i] = f[i] /\ (i # 1 => h[i - 1] = f[i - 1])
      BY <2>2
    <3> QED
      BY <3>1 DEF Joins
  <2> QED
    BY <2>1, <2>2
<1> QED
  BY <1>3, <1>4 DEF Joins, next, Next1, OneMore

LEMMA JoinsExist ==
    ASSUME NEW ss, NEW len \in Nat, \A i \in 1 .. len : ss[i] \in Bytes
    PROVE  \E f : Joins(f, ss, len)
<1> DEFINE T == {n \in 0 .. len : ~ \E f : Joins(f, ss, n)}
<1>1. T \in SUBSET Nat
  OBVIOUS
<1>2. SUFFICES ASSUME ~ \E f : Joins(f, ss, len)
               PROVE  FALSE
  OBVIOUS
<1>3. len \in T
  BY <1>2
<1>4. PICK n \in T : \A m \in T : n <= m
  BY <1>1, <1>3, LeastElement
<1>5. n \in 0 .. len /\ ~ \E f : Joins(f, ss, n)
  BY <1>4
<1>6. n # 0
  <2>1. Joins([i \in 1 .. 0 |-> <<>>], ss, 0)
    BY DEF Joins
  <2> QED
    BY <1>5, <2>1
<1>7. n - 1 \in 0 .. len /\ n - 1 \notin T
  BY <1>4, <1>5, <1>6
<1>8. PICK f : Joins(f, ss, n - 1)
  BY <1>7
<1>9. n - 1 \in Nat /\ (n - 1) + 1 = n /\ ss[(n - 1) + 1] \in Bytes
  BY <1>5, <1>6
<1>10. \E h : Joins(h, ss, (n - 1) + 1)
  BY <1>8, <1>9, JoinsOneMore
<1> QED
  BY <1>5, <1>9, <1>10

LEMMA JoinsUnique ==
    ASSUME NEW ss, NEW len \in Nat, NEW f, NEW h, Joins(f, ss, len),
           \A i \in 1 .. len : h[i] = IF i = 1 THEN ss[i] ELSE Cat(h[i - 1], ss[i])
    PROVE  \A i \in 1 .. len : h[i] = f[i]
<1> DEFINE T == {i \in 1 .. len : h[i] # f[i]}
<1>1. T \in SUBSET Nat
  OBVIOUS
<1>2. SUFFICES ASSUME T # {}
               PROVE  FALSE
  OBVIOUS
<1>3. PICK i \in T : \A j \in T : i <= j
  BY <1>1, <1>2, LeastElement
<1>4. i \in 1 .. len /\ h[i] # f[i]
  BY <1>3
<1>5. f[i] = IF i = 1 THEN ss[i] ELSE Cat(f[i - 1], ss[i])
  BY <1>4 DEF Joins
<1>6. i # 1
  BY <1>4, <1>5
<1>7. i - 1 \in 1 .. len /\ i - 1 \notin T
  BY <1>3, <1>4, <1>6
<1> QED
  BY <1>4, <1>5, <1>6, <1>7

LEMMA FlattenIs ==
    ASSUME NEW ss, IsParts(ss), ss # <<>>, NEW f, Joins(f, ss, Len(ss))
    PROVE  FlattenSeq(ss) = f[Len(ss)]
<1> DEFINE Equation(h) ==
             h = [i \in 1 .. Len(ss) |-> IF i = 1 THEN ss[i] ELSE h[i - 1] \o ss[i]]
           flatten == CHOOSE h : Equation(h)
<1>1. Len(ss) \in Nat \ {0}
  BY EmptySeq DEF IsParts
<1>2. Equation(f)
  <2>1. f = [i \in 1 .. Len(ss) |-> IF i = 1 THEN ss[i] ELSE Cat(f[i - 1], ss[i])]
    BY DEF Joins
  <2> QED
    BY <2>1, Zenon DEF Cat
<1>3. Equation(flatten)
  BY <1>2, Zenon
<1>4. FlattenSeq(ss) = flatten[Len(ss)]
  BY <1>1 DEF FlattenSeq
<1> HIDE DEF flatten
<1>5. \A i \in 1 .. Len(ss) : flatten[i] = IF i = 1 THEN ss[i] ELSE Cat(flatten[i - 1], ss[i])
  BY <1>3 DEF Cat
<1>6. \A i \in 1 .. Len(ss) : flatten[i] = f[i]
  BY <1>1, <1>5, JoinsUnique
<1> QED
  BY <1>1, <1>4, <1>6

\* The parts are bytes, and so is what they make together.
LEMMA PartsTyped ==
    ASSUME NEW ss, IsParts(ss)
    PROVE  /\ Len(ss) \in Nat /\ (ss # <<>> <=> Len(ss) # 0)
           /\ \A i \in 1 .. Len(ss) : ss[i] \in Bytes
           /\ \E f : Joins(f, ss, Len(ss))
<1>1. Len(ss) \in Nat /\ (ss # <<>> <=> Len(ss) # 0)
  BY EmptySeq DEF IsParts
<1>2. \A i \in 1 .. Len(ss) : ss[i] \in Bytes
  BY DEF IsParts
<1> QED
  BY <1>1, <1>2, JoinsExist

LEMMA FlattenEmpty == FlattenSeq(<<>>) = <<>>
BY DEF FlattenSeq

LEMMA FlattenTyped ==
    ASSUME NEW ss, IsParts(ss)
    PROVE  FlattenSeq(ss) \in Bytes
<1>1. CASE ss = <<>>
  BY <1>1, FlattenEmpty, EmptySeq DEF Bytes
<1>2. CASE ss # <<>>
  <2>1. PICK f : Joins(f, ss, Len(ss))
    BY PartsTyped
  <2>2. Len(ss) \in 1 .. Len(ss)
    BY <1>2, PartsTyped
  <2> QED
    BY <1>2, <2>1, <2>2, FlattenIs DEF Joins
<1> QED
  BY <1>1, <1>2

\* One more part at the end.
LEMMA FlattenAppend ==
    ASSUME NEW ss, IsParts(ss), NEW e \in Bytes
    PROVE  IsParts(Append(ss, e)) /\ FlattenSeq(Append(ss, e)) = FlattenSeq(ss) \o e
<1> PICK n : n = Len(ss)
  OBVIOUS
<1> PICK s : s = Append(ss, e)
  OBVIOUS
<1>1. n \in Nat /\ (ss # <<>> <=> n # 0)
  BY PartsTyped
<1>2. /\ IsParts(s) /\ Len(s) = n + 1 /\ s # <<>> /\ s[n + 1] = e
      /\ \A i \in 1 .. n : s[i] = ss[i]
  BY AppendProperties DEF IsParts
<1>3. PICK f : Joins(f, ss, n)
  BY PartsTyped
<1>4. Joins(f, s, n)
  BY <1>2, <1>3 DEF Joins
<1> PICK h : h = OneMore(f, s, n)
  OBVIOUS
<1> PICK next : next = Next1(f, s, n)
  OBVIOUS
<1>10. s[n + 1] \in Bytes
  BY <1>2
<1>5. Joins(h, s, n + 1)
  BY <1>1, <1>4, <1>10, JoinsOneMore
<1>6. FlattenSeq(s) = h[n + 1]
  BY <1>2, <1>5, FlattenIs
<1>7. h[n + 1] = next
  BY <1>1 DEF OneMore
<1>8. CASE n = 0
  <2>1. FlattenSeq(s) = e /\ ss = <<>>
    BY <1>1, <1>2, <1>6, <1>7, <1>8 DEF Next1
  <2>2. <<>> \o e = e
    BY ConcatEmptySeq DEF Bytes
  <2> QED
    BY <1>2, <2>1, <2>2, FlattenEmpty
<1>9. CASE n # 0
  <2>1. FlattenSeq(s) = Cat(f[n], e)
    BY <1>2, <1>6, <1>7, <1>9 DEF Next1
  <2>2. FlattenSeq(ss) = f[n]
    BY <1>1, <1>3, <1>9, FlattenIs
  <2> QED
    BY <1>2, <2>1, <2>2 DEF Cat
<1> QED
  BY <1>8, <1>9

\* The first part and the rest.
LEMMA FlattenTail ==
    ASSUME NEW ss, IsParts(ss), ss # <<>>
    PROVE  /\ IsParts(Tail(ss)) /\ ss[1] \in Bytes
           /\ FlattenSeq(ss) = ss[1] \o FlattenSeq(Tail(ss))
<1> PICK n : n = Len(ss)
  OBVIOUS
<1> PICK u : u = Tail(ss)
  OBVIOUS
<1>1. n \in Nat \ {0} /\ \A i \in 1 .. n : ss[i] \in Bytes
  BY PartsTyped
<1>2. IsParts(u) /\ Len(u) = n - 1 /\ \A i \in 1 .. n - 1 : u[i] = ss[i + 1]
  BY HeadTailProperties DEF IsParts
<1>3. PICK f : Joins(f, ss, n)
  BY PartsTyped
<1>4. PICK g : Joins(g, u, n - 1)
  BY <1>2, PartsTyped
<1>5. \A i \in 1 .. n - 1 : f[i + 1] = Cat(ss[1], g[i])
  <2> DEFINE T == {i \in 1 .. n - 1 : f[i + 1] # Cat(ss[1], g[i])}
  <2>1. T \in SUBSET Nat
    BY <1>1
  <2>2. SUFFICES ASSUME T # {}
                 PROVE  FALSE
    OBVIOUS
  <2>3. PICK i \in T : \A j \in T : i <= j
    BY <2>1, <2>2, LeastElement
  <2>4. i \in 1 .. n - 1 /\ f[i + 1] # Cat(ss[1], g[i])
    BY <2>3
  <2> HIDE DEF T
  <2>5. i + 1 \in 1 .. n /\ i + 1 # 1 /\ (i + 1) - 1 = i /\ i \in 1 .. n
    BY <1>1, <2>4
  <2>6. f[i + 1] = Cat(f[i], ss[i + 1])
    BY <1>3, <2>5 DEF Joins
  <2>7. g[i] = IF i = 1 THEN u[i] ELSE Cat(g[i - 1], u[i])
    BY <1>4, <2>4 DEF Joins
  <2>8. u[i] = ss[i + 1] /\ ss[i + 1] \in Bytes
    BY <1>1, <1>2, <2>4, <2>5
  <2>9. CASE i = 1
    <3>1. f[1] = ss[1]
      BY <1>1, <1>3 DEF Joins
    <3> QED
      BY <2>4, <2>6, <2>7, <2>8, <2>9, <3>1
  <2>10. CASE i # 1
    <3>1. i - 1 \in 1 .. n - 1 /\ i - 1 \notin T /\ (i - 1) + 1 = i
      BY <2>3, <2>4, <2>10
    <3>2. f[i] = Cat(ss[1], g[i - 1])
      BY <3>1 DEF T
    <3>3. ss[1] \in Bytes /\ g[i - 1] \in Bytes
      BY <1>1, <1>4, <3>1 DEF Joins
    <3>4. Cat(Cat(ss[1], g[i - 1]), ss[i + 1]) = Cat(ss[1], Cat(g[i - 1], ss[i + 1]))
      BY <2>8, <3>3, CatAssociative
    <3> QED
      BY <2>4, <2>6, <2>7, <2>8, <2>10, <3>2, <3>4
  <2> QED
    BY <2>9, <2>10
<1>6. FlattenSeq(ss) = f[n]
  BY <1>3, FlattenIs
<1>7. CASE n = 1
  <2>1. u = <<>>
    BY <1>2, <1>7, PartsTyped
  <2>2. f[n] = ss[1] /\ ss[1] \in Bytes
    BY <1>1, <1>3, <1>7 DEF Joins
  <2>3. ss[1] \o <<>> = ss[1]
    BY <2>2, ConcatEmptySeq DEF Bytes
  <2> QED
    BY <1>2, <1>6, <2>1, <2>2, <2>3, FlattenEmpty
<1>8. CASE n # 1
  <2>1. n - 1 \in 1 .. n - 1 /\ (n - 1) + 1 = n
    BY <1>1, <1>8
  <2>2. u # <<>>
    BY <1>1, <1>2, <1>8, PartsTyped
  <2>3. FlattenSeq(u) = g[n - 1]
    BY <1>2, <1>4, <2>2, FlattenIs
  <2>4. f[n] = Cat(ss[1], g[n - 1])
    BY <1>5, <2>1
  <2> QED
    <3>1. ss[1] \in Bytes /\ IsParts(Tail(ss))
      BY <1>1, <1>2
    <3>2. FlattenSeq(ss) = Cat(ss[1], FlattenSeq(u))
      BY <1>6, <2>3, <2>4
    <3> QED
      BY <3>1, <3>2 DEF Cat
<1> QED
  BY <1>7, <1>8

-----------------------------------------------------------------------------
(* The list and the history of malloc().                                    *)

IsOrder(o) == o \in Seq(Node)
Distinct(o) == \A i, j \in 1 .. Len(o) : o[i] = o[j] => i = j

\* Once round: the head, the packets in order, the head again.
At(o, n) == IF n \in 2 .. Len(o) + 1 THEN o[n - 1] ELSE DataList

LinkType == [Addr -> [next : Addr \cup {NULL, Garbage}, prev : Addr \cup {NULL, Garbage}]]

Chained(l, o) ==
    \A n \in 1 .. Len(o) + 1 :
        l[At(o, n)].next = At(o, n + 1) /\ l[At(o, n + 1)].prev = At(o, n)

ListType ==
    /\ link \in LinkType
    /\ data \in [Node -> Bytes] /\ off \in [Node -> Nat]
    /\ pc \in {"free", "idle", "write", "drop", "walk"}
    /\ IsOrder(order) /\ written \in Bytes /\ taken \in Nat

\* What is queued is what malloc() has given, each packet once and with bytes
\* in it that are not yet written.
Filled ==
    /\ Distinct(order)
    /\ \A a : a \in allocated <=> \E i \in 1 .. Len(order) : order[i] = a
    /\ \A i \in 1 .. Len(order) : off[order[i]] < Len(data[order[i]])

Walked ==
    /\ pc = "free" => order = <<>>
    /\ pc # "free" => Chained(link, order)
    /\ pc = "walk" => pos = At(order, 2) /\ pos2 = At(order, 3)

Inv == ListType /\ Filled /\ Walked

LEMMA Places ==
    ASSUME NEW o, IsOrder(o)
    PROVE  /\ Len(o) \in Nat /\ (o = <<>> <=> Len(o) = 0)
           /\ At(o, 1) = DataList /\ At(o, Len(o) + 2) = DataList
           /\ \A i \in 1 .. Len(o) : At(o, i + 1) = o[i] /\ o[i] \in Node
           /\ \A n : At(o, n) \in Addr
<1>1. Len(o) \in Nat /\ (o = <<>> <=> Len(o) = 0)
  BY EmptySeq DEF IsOrder
<1>2. \A i \in 1 .. Len(o) : o[i] \in Node
  BY DEF IsOrder
<1>3. At(o, 1) = DataList /\ At(o, Len(o) + 2) = DataList
  BY <1>1 DEF At
<1>4. \A i \in 1 .. Len(o) : At(o, i + 1) = o[i]
  BY <1>1 DEF At
<1>5. \A n : At(o, n) \in Addr
  <2> TAKE n
  <2>1. CASE n \in 2 .. Len(o) + 1
    <3>1. n - 1 \in 1 .. Len(o)
      BY <1>1, <2>1
    <3> QED
      BY <1>2, <2>1, <3>1 DEF At, Addr
  <2>2. CASE n \notin 2 .. Len(o) + 1
    BY <2>2 DEF At, Addr
  <2> QED
    BY <2>1, <2>2
<1> QED
  BY <1>1, <1>2, <1>3, <1>4, <1>5

\* The head comes up only at the ends, a packet only once.
LEMMA Apart ==
    ASSUME NEW o, IsOrder(o), Distinct(o),
           NEW m \in 1 .. Len(o) + 1, NEW n \in 1 .. Len(o) + 1, At(o, m) = At(o, n)
    PROVE  m = n
<1>1. Len(o) \in Nat /\ DataList \notin Node
  BY Places, AddressAssumption
<1>2. \A i \in 1 .. Len(o) : At(o, i + 1) = o[i] /\ o[i] \in Node
  BY Places
<1>3. At(o, 1) = DataList
  BY Places
<1>4. CASE m = 1 /\ n # 1
  <2>1. n - 1 \in 1 .. Len(o) /\ (n - 1) + 1 = n
    BY <1>1, <1>4
  <2> QED
    BY <1>1, <1>2, <1>3, <1>4, <2>1
<1>5. CASE m # 1 /\ n = 1
  <2>1. m - 1 \in 1 .. Len(o) /\ (m - 1) + 1 = m
    BY <1>1, <1>5
  <2> QED
    BY <1>1, <1>2, <1>3, <1>5, <2>1
<1>6. CASE m # 1 /\ n # 1
  <2>1. /\ m - 1 \in 1 .. Len(o) /\ (m - 1) + 1 = m
        /\ n - 1 \in 1 .. Len(o) /\ (n - 1) + 1 = n
    BY <1>1, <1>6
  <2>2. o[m - 1] = o[n - 1]
    BY <1>2, <2>1
  <2>3. m - 1 = n - 1
    BY <2>1, <2>2 DEF Distinct
  <2> QED
    BY <2>1, <2>3
<1> QED
  BY <1>4, <1>5, <1>6

LEMMA AppendPlaces ==
    ASSUME NEW o, IsOrder(o), NEW a \in Node
    PROVE  LET e == Append(o, a) IN
           /\ IsOrder(e) /\ Len(e) = Len(o) + 1 /\ e[Len(o) + 1] = a
           /\ \A i \in 1 .. Len(o) : e[i] = o[i]
           /\ \A n \in 1 .. Len(o) + 1 : At(e, n) = At(o, n)
           /\ At(e, Len(o) + 2) = a /\ At(e, Len(o) + 3) = DataList
<1> DEFINE e == Append(o, a)
<1>1. /\ IsOrder(e) /\ Len(e) = Len(o) + 1 /\ e[Len(o) + 1] = a
      /\ \A i \in 1 .. Len(o) : e[i] = o[i]
  BY AppendProperties DEF IsOrder
<1>2. Len(o) \in Nat
  BY Places
<1> HIDE DEF e
<1>3. \A n \in 1 .. Len(o) + 1 : At(e, n) = At(o, n)
  <2> TAKE n \in 1 .. Len(o) + 1
  <2>1. CASE n = 1
    BY <1>1, <1>2, <2>1 DEF At
  <2>2. CASE n # 1
    <3>1. n - 1 \in 1 .. Len(o)
      BY <1>2, <2>2
    <3> QED
      BY <1>1, <1>2, <2>2, <3>1 DEF At
  <2> QED
    BY <2>1, <2>2
<1>4. At(e, Len(o) + 2) = a /\ At(e, Len(o) + 3) = DataList
  BY <1>1, <1>2 DEF At
<1> QED
  BY <1>1, <1>3, <1>4 DEF e

LEMMA TailPlaces ==
    ASSUME NEW o, IsOrder(o), o # <<>>
    PROVE  LET u == Tail(o) IN
           /\ IsOrder(u) /\ Len(u) = Len(o) - 1 /\ Len(o) \in Nat \ {0}
           /\ \A i \in 1 .. Len(u) : u[i] = o[i + 1]
           /\ At(u, 1) = DataList
           /\ \A n \in 2 .. Len(u) + 2 : At(u, n) = At(o, n + 1)
           /\ At(u, 3) = At(o, 4)
<1> DEFINE u == Tail(o)
<1>1. /\ IsOrder(u) /\ Len(u) = Len(o) - 1 /\ Len(o) \in Nat \ {0}
      /\ \A i \in 1 .. Len(u) : u[i] = o[i + 1]
  BY HeadTailProperties, EmptySeq DEF IsOrder
<1> HIDE DEF u
<1>2. ASSUME NEW n \in Nat, n >= 2
      PROVE  At(u, n) = At(o, n + 1)
  <2>1. CASE n <= Len(u) + 1
    <3>1. n - 1 \in 1 .. Len(u) /\ n \in 2 .. Len(u) + 1 /\ n + 1 \in 2 .. Len(o) + 1
      BY <1>1, <1>2, <2>1
    <3>2. u[n - 1] = o[(n + 1) - 1]
      BY <1>1, <3>1
    <3> QED
      BY <3>1, <3>2 DEF At
  <2>2. CASE n > Len(u) + 1
    <3>1. n \notin 2 .. Len(u) + 1 /\ n + 1 \notin 2 .. Len(o) + 1
      BY <1>1, <2>2
    <3> QED
      BY <3>1 DEF At
  <2> QED
    BY <1>1, <2>1, <2>2
<1>3. At(u, 1) = DataList
  BY <1>1 DEF At
<1>4. \A n \in 2 .. Len(u) + 2 : At(u, n) = At(o, n + 1)
  BY <1>1, <1>2
<1>5. At(u, 3) = At(o, 4)
  BY <1>2
<1> QED
  BY <1>1, <1>3, <1>4, <1>5 DEF u

\* list_add_tail joins the packet to the end of the list.
LEMMA Added ==
    ASSUME NEW l \in LinkType, NEW o, IsOrder(o), Distinct(o), Chained(l, o),
           NEW a \in Node, \A i \in 1 .. Len(o) : o[i] # a
    PROVE  LET k == ListAddTail(InitListHead(l, a), a, DataList)
           IN  k \in LinkType /\ Chained(k, Append(o, a))
<1> DEFINE last == At(o, Len(o) + 1)
           b == InitListHead(l, a)
           k == ListAddTail(b, a, DataList)
           e == Append(o, a)
<1>1. Len(o) \in Nat /\ DataList \notin Node /\ DataList # a
  BY Places, AddressAssumption
<1>2. /\ At(o, 1) = DataList
      /\ \A i \in 1 .. Len(o) : At(o, i + 1) = o[i] /\ o[i] \in Node
      /\ \A n : At(o, n) \in Addr
      /\ At(o, Len(o) + 2) = DataList
  BY Places
<1>3. \A n \in 1 .. Len(o) + 1 : At(o, n) # a
  <2> TAKE n \in 1 .. Len(o) + 1
  <2>1. CASE n = 1
    BY <1>1, <1>2, <2>1
  <2>2. CASE n # 1
    <3>1. n - 1 \in 1 .. Len(o) /\ (n - 1) + 1 = n
      BY <1>1, <2>2
    <3> QED
      BY <1>2, <3>1
  <2> QED
    BY <2>1, <2>2
<1>4. Len(o) + 1 \in 1 .. Len(o) + 1
  BY <1>1
<1>5. l[DataList].prev = last /\ last # a /\ last \in Addr
  BY <1>2, <1>3, <1>4 DEF Chained
<1> HIDE DEF last
<1>6. /\ b \in LinkType /\ b[a] = Pointer(a)
      /\ \A c \in Addr \ {a} : b[c] = l[c]
  BY DEF InitListHead, Pointer, LinkType, Addr
<1> HIDE DEF b
<1>7. k = [b EXCEPT ![DataList].prev = a,
                    ![a] = [next |-> DataList, prev |-> last],
                    ![last].next = a]
  <2>1. b[DataList].prev = last
    BY <1>1, <1>5, <1>6 DEF Addr
  <2> QED
    BY <2>1 DEF ListAddTail
<1> HIDE DEF k
<1>8. /\ k \in LinkType
      /\ \A c \in Addr :
           /\ k[c].next = IF c = last THEN a ELSE IF c = a THEN DataList ELSE b[c].next
           /\ k[c].prev = IF c = a THEN last ELSE IF c = DataList THEN a ELSE b[c].prev
  <2>1. a \in Addr /\ DataList \in Addr
    BY DEF Addr
  <2> QED
    BY <1>1, <1>5, <1>6, <1>7, <2>1 DEF LinkType
<1>9. /\ Len(e) = Len(o) + 1
      /\ \A n \in 1 .. Len(o) + 1 : At(e, n) = At(o, n)
      /\ At(e, Len(o) + 2) = a /\ At(e, Len(o) + 3) = DataList
  BY AppendPlaces
<1> HIDE DEF e
<1>10. \A n \in 1 .. Len(e) + 1 :
         k[At(e, n)].next = At(e, n + 1) /\ k[At(e, n + 1)].prev = At(e, n)
  <2> TAKE n \in 1 .. Len(e) + 1
  <2>1. CASE n \in 1 .. Len(o)
    <3>1. n \in 1 .. Len(o) + 1 /\ n + 1 \in 1 .. Len(o) + 1 /\ n + 1 # 1
      BY <1>1, <2>1
    <3>2. /\ At(e, n) = At(o, n) /\ At(e, n + 1) = At(o, n + 1)
          /\ At(o, n) # a /\ At(o, n + 1) # a
      BY <1>3, <1>9, <3>1
    <3>3. At(o, n) # last
      BY <1>1, <1>4, <2>1, <3>1, Apart DEF last
    <3>4. At(o, n + 1) # DataList
      BY <1>1, <1>2, <2>1
    <3>5. l[At(o, n)].next = At(o, n + 1) /\ l[At(o, n + 1)].prev = At(o, n)
      BY <3>1 DEF Chained
    <3> QED
      BY <1>2, <1>6, <1>8, <3>2, <3>3, <3>4, <3>5
  <2>2. CASE n = Len(o) + 1
    <3>1. At(e, n) = last /\ At(e, n + 1) = a
      BY <1>1, <1>4, <1>9, <2>2 DEF last
    <3> QED
      BY <1>5, <1>8, <3>1 DEF Addr
  <2>3. CASE n = Len(o) + 2
    <3>1. At(e, n) = a /\ At(e, n + 1) = DataList
      BY <1>1, <1>9, <2>3
    <3> QED
      BY <1>1, <1>5, <1>8, <3>1 DEF Addr
  <2> QED
    BY <1>1, <1>9, <2>1, <2>2, <2>3
<1> QED
  BY <1>8, <1>10 DEF k, b, e, Chained

\* list_del and free take the first packet out.
LEMMA Removed ==
    ASSUME NEW l \in LinkType, NEW o, IsOrder(o), Distinct(o), Chained(l, o), Len(o) # 0
    PROVE  LET k == [ListDel(l, o[1]) EXCEPT ![o[1]] = Pointer(Garbage)]
           IN  k \in LinkType /\ Chained(k, Tail(o))
<1> DEFINE a == o[1]
           s == At(o, 3)
           d == ListDel(l, a)
           k == [d EXCEPT ![a] = Pointer(Garbage)]
           u == Tail(o)
<1>1. Len(o) \in Nat \ {0} /\ DataList \notin Node
  BY Places, AddressAssumption
<1>2. /\ At(o, 1) = DataList
      /\ \A i \in 1 .. Len(o) : At(o, i + 1) = o[i] /\ o[i] \in Node
      /\ \A n : At(o, n) \in Addr
      /\ At(o, Len(o) + 2) = DataList
  BY Places
<1>3. a = At(o, 2) /\ a \in Node /\ a \in Addr /\ a # DataList /\ DataList \in Addr /\ s \in Addr
  BY <1>1, <1>2 DEF Addr
<1>4. s # a
  <2>1. CASE Len(o) = 1
    BY <1>2, <1>3, <2>1
  <2>2. CASE Len(o) # 1
    <3>1. ASSUME NEW m \in Nat \ {0}, m # 1
          PROVE  2 \in 1 .. m + 1 /\ 3 \in 1 .. m + 1 /\ 2 # 3
      BY <3>1
    <3>2. 2 \in 1 .. Len(o) + 1 /\ 3 \in 1 .. Len(o) + 1 /\ 2 # 3
      BY <1>1, <2>2, <3>1
    <3> QED
      BY <1>3, <3>2, Apart
  <2> QED
    BY <2>1, <2>2
<1>5. l[a].next = s /\ l[a].prev = DataList
  <2>1. 1 \in 1 .. Len(o) + 1 /\ 2 \in 1 .. Len(o) + 1
    BY <1>1
  <2> QED
    BY <1>2, <1>3, <2>1 DEF Chained
<1>6. d = [l EXCEPT ![s].prev = DataList, ![DataList].next = s]
  BY <1>5 DEF ListDel
<1> HIDE DEF a, d
<1>7. /\ k \in LinkType
      /\ \A c \in Addr \ {a} :
           /\ k[c].next = IF c = DataList THEN s ELSE l[c].next
           /\ k[c].prev = IF c = s THEN DataList ELSE l[c].prev
  <2>1. d \in LinkType /\ \A c \in Addr :
           /\ d[c].next = IF c = DataList THEN s ELSE l[c].next
           /\ d[c].prev = IF c = s THEN DataList ELSE l[c].prev
    <3> HIDE DEF s
    <3> QED
      BY <1>3, <1>6 DEF LinkType
  <2> QED
    BY <1>3, <2>1 DEF LinkType, Pointer
<1> HIDE DEF k
<1>8. /\ IsOrder(u) /\ Len(u) = Len(o) - 1
      /\ At(u, 1) = DataList
      /\ \A n \in 2 .. Len(u) + 2 : At(u, n) = At(o, n + 1)
  BY TailPlaces, Places
<1> HIDE DEF u
<1>9. \A n \in 1 .. Len(u) + 1 :
         k[At(u, n)].next = At(u, n + 1) /\ k[At(u, n + 1)].prev = At(u, n)
  <2> TAKE n \in 1 .. Len(u) + 1
  <2>1. CASE n = 1
    <3>1. At(u, 1) = DataList /\ At(u, 2) = s
      BY <1>1, <1>8
    <3> QED
      BY <1>3, <1>4, <1>7, <2>1, <3>1
  <2>2. CASE n # 1
    <3>1. /\ n \in 2 .. Len(u) + 2 /\ n + 1 \in 2 .. Len(u) + 2
          /\ n + 1 \in 1 .. Len(o) + 1 /\ (n + 1) + 1 = n + 2
          /\ n + 1 \in 3 .. Len(o) + 1 /\ n + 1 # 1 /\ n + 1 # 2
      BY <1>1, <1>8, <2>2
    <3>2. At(u, n) = At(o, n + 1) /\ At(u, n + 1) = At(o, n + 2)
      BY <1>8, <3>1
    <3>3. l[At(o, n + 1)].next = At(o, n + 2) /\ l[At(o, n + 2)].prev = At(o, n + 1)
      BY <3>1 DEF Chained
    <3>4. At(o, n + 1) # a /\ At(o, n + 1) # DataList
      <4>1. 1 \in 1 .. Len(o) + 1 /\ 2 \in 1 .. Len(o) + 1
        BY <1>1
      <4> QED
        BY <1>2, <1>3, <3>1, <4>1, Apart
    <3>5. At(o, n + 2) # a /\ At(o, n + 2) # s
      <4>1. CASE n + 2 \in 1 .. Len(o) + 1
        <5>1. 2 \in 1 .. Len(o) + 1 /\ 3 \in 1 .. Len(o) + 1 /\ n + 2 # 2 /\ n + 2 # 3
          BY <1>1, <2>2, <4>1
        <5> QED
          BY <1>3, <4>1, <5>1, Apart
      <4>2. CASE n + 2 = Len(o) + 2
        <5>1. 3 \in 1 .. Len(o) + 1 /\ 1 \in 1 .. Len(o) + 1
          BY <1>1, <3>1, <4>2
        <5>2. At(o, 3) # DataList
          BY <1>2, <5>1, Apart
        <5> QED
          BY <1>2, <1>3, <4>2, <5>2
      <4> QED
        BY <1>1, <1>8, <4>1, <4>2
    <3> QED
      BY <1>2, <1>7, <3>2, <3>3, <3>4, <3>5
  <2> QED
    BY <2>1, <2>2
<1> QED
  BY <1>7, <1>9 DEF k, d, a, u, Chained

\* The second step from the head, also when it leads round again.
LEMMA Onward ==
    ASSUME NEW l, NEW o, IsOrder(o), Chained(l, o)
    PROVE  /\ l[DataList].next = At(o, 2)
           /\ l[At(o, 2)].next = At(o, 3)
           /\ Len(o) = 0 => At(o, 2) = DataList
           /\ Len(o) # 0 => At(o, 2) = o[1] /\ o[1] \in Node
<1>1. ASSUME NEW m \in Nat
      PROVE  /\ 1 \in 1 .. m + 1
             /\ m # 0 => 2 \in 1 .. m + 1 /\ 1 \in 1 .. m
             /\ m = 0 => 2 \notin 2 .. m + 1 /\ 3 \notin 2 .. m + 1
             /\ 1 + 1 = 2 /\ 2 + 1 = 3
  OBVIOUS
<1>2. /\ 1 \in 1 .. Len(o) + 1
      /\ Len(o) # 0 => 2 \in 1 .. Len(o) + 1 /\ 1 \in 1 .. Len(o)
      /\ Len(o) = 0 => 2 \notin 2 .. Len(o) + 1 /\ 3 \notin 2 .. Len(o) + 1
      /\ 1 + 1 = 2 /\ 2 + 1 = 3
  BY <1>1, Places
<1>3. At(o, 1) = DataList /\ \A i \in 1 .. Len(o) : At(o, i + 1) = o[i] /\ o[i] \in Node
  BY Places
<1>4. l[DataList].next = At(o, 2)
  BY <1>2, <1>3 DEF Chained
<1>5. CASE Len(o) = 0
  <2>1. At(o, 2) = DataList /\ At(o, 3) = DataList
    BY <1>2, <1>5 DEF At
  <2> QED
    BY <1>4, <1>5, <2>1
<1>6. CASE Len(o) # 0
  <2>1. l[At(o, 2)].next = At(o, 3)
    BY <1>2, <1>6 DEF Chained
  <2>2. At(o, 2) = o[1] /\ o[1] \in Node
    BY <1>2, <1>3, <1>6
  <2> QED
    BY <1>4, <1>6, <2>1, <2>2
<1> QED
  BY <1>5, <1>6

\* What the loops see of the list.
LEMMA Seen ==
    ASSUME Inv, pc # "free"
    PROVE  /\ First = At(order, 2) /\ link[First].next = At(order, 3)
           /\ ListEmptySafe(link, DataList) <=> Len(order) = 0
           /\ Len(order) # 0 => First = order[1] /\ First \in Node /\ First # DataList
           /\ At(order, 2) = DataList <=> Len(order) = 0
<1>1. IsOrder(order) /\ Chained(link, order)
  BY DEF Inv, ListType, Walked
<1>2. /\ link[DataList].next = At(order, 2)
      /\ link[At(order, 2)].next = At(order, 3)
      /\ Len(order) = 0 => At(order, 2) = DataList
      /\ Len(order) # 0 => At(order, 2) = order[1] /\ order[1] \in Node
  BY <1>1, Onward
<1>3. DataList \notin Node /\ NULL \notin Node /\ DataList # NULL
  BY AddressAssumption DEF Addr
<1> QED
  BY <1>2, <1>3 DEF First, ListEmptySafe

\* A packet that was queued is as the invariant says.
LEMMA Kept ==
    ASSUME Inv, NEW o, order' = o, IsOrder(o), Distinct(o), link' \in LinkType,
           data' \in [Node -> Bytes], off' \in [Node -> Nat],
           \A a : a \in allocated' <=> \E i \in 1 .. Len(o) : o[i] = a,
           \A i \in 1 .. Len(o) : off'[o[i]] < Len(data'[o[i]]),
           Chained(link', o), written' \in Bytes, taken' \in Nat,
           pc' \in {"idle", "write", "drop", "walk"},
           pc' = "walk" => pos' = At(o, 2) /\ pos2' = At(o, 3)
    PROVE  Inv'
BY DEF Inv, ListType, Filled, Walked

\* The first packet is freed.
LEMMA FirstFreed ==
    ASSUME Inv, pc # "free", Len(order) # 0, DeleteAndFree(order[1])
    PROVE  /\ IsOrder(order') /\ Distinct(order') /\ link' \in LinkType
           /\ data' \in [Node -> Bytes] /\ off' \in [Node -> Nat]
           /\ Filled'
           /\ Chained(link', order')
           /\ At(order', 2) = At(order, 3)
           /\ Len(order') = Len(order) - 1
           /\ \A i \in 1 .. Len(order') :
                /\ order'[i] = order[i + 1] /\ i + 1 \in 1 .. Len(order)
                /\ data'[order'[i]] = data[order[i + 1]]
                /\ off'[order'[i]] = off[order[i + 1]]
<1> DEFINE o == order
           u == Tail(order)
           a == order[1]
<1>1. /\ IsOrder(o) /\ Distinct(o) /\ Chained(link, o) /\ link \in LinkType
      /\ data \in [Node -> Bytes] /\ off \in [Node -> Nat]
      /\ \A c : c \in allocated <=> \E i \in 1 .. Len(o) : o[i] = c
      /\ \A i \in 1 .. Len(o) : off[o[i]] < Len(data[o[i]])
  BY DEF Inv, ListType, Filled, Walked
<1>2. o # <<>> /\ Len(o) \in Nat
  BY <1>1, Places
<1>3. /\ IsOrder(u) /\ Len(u) = Len(o) - 1 /\ Len(o) \in Nat \ {0}
      /\ \A i \in 1 .. Len(u) : u[i] = o[i + 1]
      /\ \A n \in 2 .. Len(u) + 2 : At(u, n) = At(o, n + 1)
  BY <1>1, <1>2, TailPlaces
<1>4. order' = u /\ allocated' = allocated \ {a}
      /\ data' = [data EXCEPT ![a] = <<>>] /\ off' = [off EXCEPT ![a] = 0]
      /\ link' = [ListDel(link, a) EXCEPT ![a] = Pointer(Garbage)]
  BY DEF DeleteAndFree
<1>5. link' \in LinkType /\ Chained(link', u)
  BY <1>1, <1>4, Removed
<1>6. \A i \in 1 .. Len(u) : u[i] = o[i + 1] /\ i + 1 \in 1 .. Len(o) /\ i + 1 # 1 /\ i \in Nat
  BY <1>3
<1>7. 1 \in 1 .. Len(o) /\ \A i \in 1 .. Len(o) : o[i] \in Node
  BY <1>1, <1>3, Places
<1>8. Distinct(u)
  <2> SUFFICES ASSUME NEW i \in 1 .. Len(u), NEW j \in 1 .. Len(u), u[i] = u[j]
               PROVE  i = j
    BY DEF Distinct
  <2>1. i + 1 = j + 1
    BY <1>1, <1>6 DEF Distinct
  <2> QED
    BY <1>6, <2>1
<1>9. /\ data' \in [Node -> Bytes] /\ off' \in [Node -> Nat]
      /\ \A c \in Node \ {a} : data'[c] = data[c] /\ off'[c] = off[c]
  <2>1. <<>> \in Bytes
    BY DEF Bytes
  <2> QED
    BY <1>1, <1>4, <1>7, <2>1
<1>10. \A i \in 1 .. Len(u) :
         /\ u[i] = o[i + 1] /\ i + 1 \in 1 .. Len(o)
         /\ data'[u[i]] = data[o[i + 1]] /\ off'[u[i]] = off[o[i + 1]]
  <2> TAKE i \in 1 .. Len(u)
  <2>1. u[i] = o[i + 1] /\ i + 1 \in 1 .. Len(o) /\ i + 1 # 1
    BY <1>6
  <2>2. u[i] # a /\ u[i] \in Node
    BY <1>1, <1>7, <2>1 DEF Distinct
  <2> QED
    BY <1>9, <2>1, <2>2
<1>11. \A c : c \in allocated' <=> \E i \in 1 .. Len(u) : u[i] = c
  <2> TAKE c
  <2>1. ASSUME c \in allocated'
        PROVE  \E i \in 1 .. Len(u) : u[i] = c
    <3>1. PICK j \in 1 .. Len(o) : o[j] = c
      BY <1>1, <1>4, <2>1
    <3>2. j # 1
      BY <1>4, <2>1, <3>1
    <3>3. j - 1 \in 1 .. Len(u) /\ (j - 1) + 1 = j
      BY <1>3, <3>2
    <3> QED
      BY <1>6, <3>1, <3>3
  <2>2. ASSUME NEW i \in 1 .. Len(u), u[i] = c
        PROVE  c \in allocated'
    <3>1. u[i] = o[i + 1] /\ i + 1 \in 1 .. Len(o) /\ i + 1 # 1
      BY <1>6
    <3>2. c # a
      BY <1>1, <1>7, <2>2, <3>1 DEF Distinct
    <3> QED
      BY <1>1, <1>4, <2>2, <3>1, <3>2
  <2> QED
    BY <2>1, <2>2
<1>12. \A i \in 1 .. Len(u) : off'[u[i]] < Len(data'[u[i]])
  BY <1>1, <1>10
<1>13. At(u, 2) = At(o, 3)
  <2>1. 2 \in 2 .. Len(u) + 2 /\ 2 + 1 = 3
    BY <1>3
  <2> QED
    BY <1>3, <2>1
<1> HIDE DEF u
<1> QED
  BY <1>3, <1>4, <1>5, <1>8, <1>9, <1>10, <1>11, <1>12, <1>13 DEF Filled

-----------------------------------------------------------------------------
(* Every step keeps the invariant.                                          *)

LEMMA Payload ==
    ASSUME NEW s \in Payloads
    PROVE  s \in Bytes /\ Len(s) \in Nat \ {0}
<1>1. s \in Bytes /\ s # <<>>
  BY PayloadAssumption DEF Bytes
<1>2. Len(s) \in Nat /\ Len(s) # 0
  BY <1>1, EmptySeq DEF Bytes
<1> QED
  BY <1>1, <1>2

LEMMA Initially == Init => Inv
<1> SUFFICES ASSUME Init
             PROVE  Inv
  OBVIOUS
<1>1. order = <<>> /\ Len(order) = 0 /\ IsOrder(order) /\ <<>> \in Bytes
  BY DEF Init, IsOrder, Bytes
<1>2. link \in LinkType
  <2>1. \A x \in {NULL, Garbage} :
          Pointer(x) \in [next : Addr \cup {NULL, Garbage}, prev : Addr \cup {NULL, Garbage}]
    BY DEF Pointer
  <2> QED
    BY <2>1 DEF Init, LinkType
<1>3. ListType
  BY <1>1, <1>2 DEF Init, ListType
<1>4. Filled
  BY <1>1 DEF Init, Filled, Distinct
<1>5. Walked
  BY <1>1 DEF Init, Walked
<1> QED
  BY <1>3, <1>4, <1>5 DEF Inv

LEMMA Opens == Inv /\ OpenSession => Inv'
<1> SUFFICES ASSUME Inv, OpenSession
             PROVE  Inv'
  OBVIOUS
<1>1. /\ order = <<>> /\ link \in LinkType
      /\ data \in [Node -> Bytes] /\ off \in [Node -> Nat]
      /\ IsOrder(order) /\ Distinct(order)
      /\ \A a : a \in allocated <=> \E i \in 1 .. Len(order) : order[i] = a
      /\ \A i \in 1 .. Len(order) : off[order[i]] < Len(data[order[i]])
  BY DEF Inv, ListType, Filled, Walked, OpenSession
<1>2. /\ UNCHANGED <<allocated, data, off, order>> /\ pc' = "idle"
      /\ link' = [link EXCEPT ![DataList] = Pointer(DataList)]
      /\ written' = <<>> /\ taken' = 0
  BY DEF OpenSession, InitListHead
<1>3. DataList \in Addr /\ <<>> \in Bytes
  BY DEF Addr, Bytes
<1>4. link' \in LinkType /\ link'[DataList] = Pointer(DataList)
  BY <1>1, <1>2, <1>3 DEF LinkType, Pointer
<1>5. Chained(link', order)
  <2>1. Len(order) = 0
    BY <1>1
  <2>2. 1 .. Len(order) + 1 = {1} /\ 1 + 1 = 2
        /\ 1 \notin 2 .. Len(order) + 1 /\ 2 \notin 2 .. Len(order) + 1
    BY <2>1
  <2>3. At(order, 1) = DataList /\ At(order, 2) = DataList
    BY <2>2 DEF At
  <2> QED
    BY <1>4, <2>2, <2>3 DEF Chained, Pointer
<1> QED
  BY <1>1, <1>2, <1>3, <1>4, <1>5, Kept

\* The new packet is the last one.
LEMMA Joined ==
    ASSUME Inv, NEW a \in Node, NEW bytes \in Payloads, Enqueue(a, bytes)
    PROVE  /\ IsOrder(order') /\ Distinct(order') /\ Chained(link', order')
           /\ link' \in LinkType
           /\ data' \in [Node -> Bytes] /\ off' \in [Node -> Nat]
           /\ \A c : c \in allocated' <=> \E i \in 1 .. Len(order') : order'[i] = c
           /\ Len(order') = Len(order) + 1
           /\ data'[order'[Len(order) + 1]] = bytes /\ off'[order'[Len(order) + 1]] = 0
           /\ \A i \in 1 .. Len(order) :
                /\ order'[i] = order[i]
                /\ data'[order'[i]] = data[order[i]] /\ off'[order'[i]] = off[order[i]]
<1> DEFINE o == order
           e == Append(order, a)
<1>1. /\ IsOrder(o) /\ Distinct(o) /\ Chained(link, o) /\ link \in LinkType
      /\ data \in [Node -> Bytes] /\ off \in [Node -> Nat]
      /\ \A c : c \in allocated <=> \E i \in 1 .. Len(o) : o[i] = c
  BY DEF Inv, ListType, Filled, Walked, Enqueue
<1>2. Len(o) \in Nat /\ \A i \in 1 .. Len(o) : o[i] \in Node
  BY <1>1, Places
<1>3. IsOrder(e) /\ Len(e) = Len(o) + 1 /\ e[Len(o) + 1] = a
      /\ \A i \in 1 .. Len(o) : e[i] = o[i]
  BY <1>1, AppendPlaces
<1>4. /\ a \notin allocated /\ allocated' = allocated \cup {a} /\ order' = e
      /\ link' = ListAddTail(InitListHead(link, a), a, DataList)
      /\ data' = [data EXCEPT ![a] = bytes] /\ off' = [off EXCEPT ![a] = 0]
  BY DEF Enqueue
<1> HIDE DEF e
<1>5. \A i \in 1 .. Len(o) : o[i] # a
  BY <1>1, <1>4
<1>6. link' \in LinkType /\ Chained(link', e)
  BY <1>1, <1>4, <1>5, Added DEF e
<1>7. /\ data' \in [Node -> Bytes] /\ off' \in [Node -> Nat]
      /\ data'[a] = bytes /\ off'[a] = 0
      /\ \A c \in Node \ {a} : data'[c] = data[c] /\ off'[c] = off[c]
  BY <1>1, <1>4, Payload
<1>8. \A i \in 1 .. Len(e) : i = Len(o) + 1 \/ i \in 1 .. Len(o)
  BY <1>2, <1>3
<1>9. Len(o) + 1 \in 1 .. Len(e) /\ \A i \in 1 .. Len(o) : i \in 1 .. Len(e)
  BY <1>2, <1>3
<1>10. Distinct(e)
  <2> SUFFICES ASSUME NEW i \in 1 .. Len(e), NEW j \in 1 .. Len(e), e[i] = e[j]
               PROVE  i = j
    BY DEF Distinct
  <2> QED
    BY <1>1, <1>3, <1>5, <1>8 DEF Distinct
<1>11. \A c : c \in allocated' <=> \E i \in 1 .. Len(e) : e[i] = c
  BY <1>1, <1>3, <1>4, <1>8, <1>9
<1> QED
  BY <1>2, <1>3, <1>4, <1>5, <1>6, <1>7, <1>10, <1>11

LEMMA Enqueues ==
    ASSUME Inv, NEW a \in Node, NEW bytes \in Payloads, Enqueue(a, bytes)
    PROVE  Inv'
<1>1. /\ IsOrder(order') /\ Distinct(order') /\ Chained(link', order')
      /\ link' \in LinkType
      /\ data' \in [Node -> Bytes] /\ off' \in [Node -> Nat]
      /\ \A c : c \in allocated' <=> \E i \in 1 .. Len(order') : order'[i] = c
      /\ Len(order') = Len(order) + 1
      /\ data'[order'[Len(order) + 1]] = bytes /\ off'[order'[Len(order) + 1]] = 0
      /\ \A i \in 1 .. Len(order) :
           /\ order'[i] = order[i]
           /\ data'[order'[i]] = data[order[i]] /\ off'[order'[i]] = off[order[i]]
  BY Joined
<1>2. Len(order) \in Nat
  BY Places DEF Inv, ListType
<1>3. \A i \in 1 .. Len(order') : off'[order'[i]] < Len(data'[order'[i]])
  <2>1. \A i \in 1 .. Len(order) : off[order[i]] < Len(data[order[i]])
    BY DEF Inv, Filled
  <2>2. 0 < Len(bytes)
    BY Payload
  <2>3. \A i \in 1 .. Len(order') : i = Len(order) + 1 \/ i \in 1 .. Len(order)
    BY <1>1, <1>2
  <2>4. \A i \in 1 .. Len(order) : off'[order'[i]] < Len(data'[order'[i]])
    BY <1>1, <2>1
  <2>5. off'[order'[Len(order) + 1]] < Len(data'[order'[Len(order) + 1]])
    BY <1>1, <2>2
  <2> QED
    BY <2>3, <2>4, <2>5
<1>4. pc' = "idle" /\ written' \in Bytes /\ taken' \in Nat
  BY Payload DEF Inv, ListType, Enqueue
<1> QED
  BY <1>1, <1>3, <1>4, Kept

-----------------------------------------------------------------------------
(* Cutting sequences of bytes.                                              *)

Past(s, n) == SubSeq(s, n + 1, Len(s))
Upto(s, n) == SubSeq(s, 1, n)

LEMMA BytesLength == \A s \in Bytes : Len(s) \in Nat /\ (s = <<>> <=> Len(s) = 0)
<1> SUFFICES ASSUME NEW s \in Bytes
             PROVE  Len(s) \in Nat /\ (s = <<>> <=> Len(s) = 0)
  OBVIOUS
<1>1. Len(<<>>) = 0
  BY EmptySeq
<1>2. s # <<>> => Len(s) \in Nat \ {0}
  BY EmptySeq DEF Bytes
<1> QED
  BY <1>1, <1>2

LEMMA SameBytes ==
    ASSUME NEW s \in Bytes, NEW t \in Bytes, Len(s) = Len(t),
           \A i \in 1 .. Len(s) : s[i] = t[i]
    PROVE  s = t
BY SeqEqual DEF Bytes

LEMMA CatPlaces ==
    ASSUME NEW a \in Bytes, NEW b \in Bytes
    PROVE  /\ Cat(a, b) \in Bytes /\ Len(Cat(a, b)) = Len(a) + Len(b)
           /\ \A i \in 1 .. Len(a) + Len(b) :
                Cat(a, b)[i] = IF i <= Len(a) THEN a[i] ELSE b[i - Len(a)]
BY ConcatProperties DEF Bytes, Cat

LEMMA PastPlaces ==
    ASSUME NEW s \in Bytes, NEW n \in 0 .. Len(s)
    PROVE  /\ Past(s, n) \in Bytes /\ Len(Past(s, n)) = Len(s) - n
           /\ \A i \in 1 .. Len(s) - n : Past(s, n)[i] = s[i + n] /\ i + n \in 1 .. Len(s)
<1>1. Len(s) \in Nat /\ \A i \in 1 .. Len(s) : s[i] \in Nat
  BY DEF Bytes
<1>2. n + 1 \in Int /\ Len(s) \in Int /\ n \in Nat
  BY <1>1
<1>3. \A i \in n + 1 .. Len(s) : s[i] \in Nat
  BY <1>1, <1>2
<1>4. /\ Past(s, n) \in Bytes
      /\ Len(Past(s, n)) = IF n + 1 <= Len(s) THEN Len(s) - (n + 1) + 1 ELSE 0
      /\ \A i \in 1 .. Len(s) - (n + 1) + 1 : Past(s, n)[i] = s[(n + 1) + i - 1]
  BY <1>2, <1>3, SubSeqProperties DEF Past, Bytes
<1>5. Len(Past(s, n)) = Len(s) - n
  BY <1>1, <1>2, <1>4
<1>6. Len(s) - (n + 1) + 1 = Len(s) - n
      /\ \A i \in 1 .. Len(s) - n : (n + 1) + i - 1 = i + n /\ i + n \in 1 .. Len(s)
  BY <1>1, <1>2
<1> QED
  BY <1>4, <1>5, <1>6

LEMMA UptoPlaces ==
    ASSUME NEW s \in Bytes, NEW n \in 0 .. Len(s)
    PROVE  /\ Upto(s, n) \in Bytes /\ Len(Upto(s, n)) = n
           /\ \A i \in 1 .. n : Upto(s, n)[i] = s[i]
<1>1. Len(s) \in Nat /\ \A i \in 1 .. Len(s) : s[i] \in Nat
  BY DEF Bytes
<1>2. n \in Int /\ n \in Nat /\ 1 \in Int /\ \A i \in 1 .. n : i \in 1 .. Len(s)
  BY <1>1
<1>3. \A i \in 1 .. n : s[i] \in Nat
  BY <1>1, <1>2
<1>4. /\ Upto(s, n) \in Bytes
      /\ Len(Upto(s, n)) = IF 1 <= n THEN n - 1 + 1 ELSE 0
      /\ \A i \in 1 .. n - 1 + 1 : Upto(s, n)[i] = s[1 + i - 1]
  BY <1>2, <1>3, SubSeqProperties DEF Upto, Bytes
<1>5. Len(Upto(s, n)) = n
  BY <1>2, <1>4
<1>6. n - 1 + 1 = n /\ \A i \in 1 .. n : 1 + i - 1 = i
  BY <1>2
<1> QED
  BY <1>4, <1>5, <1>6

\* Cutting twice is cutting once.
LEMMA PastTwice ==
    ASSUME NEW s \in Bytes, NEW m \in Nat, NEW n \in Nat, m + n <= Len(s)
    PROVE  Past(Past(s, m), n) = Past(s, m + n)
<1>1. /\ m \in 0 .. Len(s) /\ m + n \in 0 .. Len(s) /\ n \in 0 .. Len(s) - m
      /\ (Len(s) - m) - n = Len(s) - (m + n)
  BY BytesLength
<1>2. /\ Past(s, m) \in Bytes /\ Len(Past(s, m)) = Len(s) - m
      /\ \A i \in 1 .. Len(s) - m : Past(s, m)[i] = s[i + m]
  BY <1>1, PastPlaces
<1>3. /\ Past(s, m + n) \in Bytes /\ Len(Past(s, m + n)) = Len(s) - (m + n)
      /\ \A i \in 1 .. Len(s) - (m + n) : Past(s, m + n)[i] = s[i + (m + n)]
  BY <1>1, PastPlaces
<1>4. /\ Past(Past(s, m), n) \in Bytes
      /\ Len(Past(Past(s, m), n)) = Len(s) - (m + n)
      /\ \A i \in 1 .. Len(s) - (m + n) :
           Past(Past(s, m), n)[i] = Past(s, m)[i + n] /\ i + n \in 1 .. Len(s) - m
  <2> DEFINE t == Past(s, m)
  <2>1. t \in Bytes /\ Len(t) = Len(s) - m /\ n \in 0 .. Len(t)
        /\ Len(t) - n = Len(s) - (m + n)
    BY <1>1, <1>2
  <2> HIDE DEF t
  <2>2. /\ Past(t, n) \in Bytes /\ Len(Past(t, n)) = Len(t) - n
        /\ \A i \in 1 .. Len(t) - n : Past(t, n)[i] = t[i + n] /\ i + n \in 1 .. Len(t)
    BY <2>1, PastPlaces
  <2> QED
    BY <2>1, <2>2 DEF t
<1>5. \A i \in 1 .. Len(s) - (m + n) : (i + n) + m = i + (m + n)
  BY BytesLength
<1>6. \A i \in 1 .. Len(s) - (m + n) : Past(Past(s, m), n)[i] = Past(s, m + n)[i]
  BY <1>2, <1>3, <1>4, <1>5
<1> QED
  BY <1>3, <1>4, <1>6, SameBytes

\* Cutting inside the first of two.
LEMMA PastCat ==
    ASSUME NEW a \in Bytes, NEW b \in Bytes, NEW n \in 0 .. Len(a)
    PROVE  /\ Past(Cat(a, b), n) = Cat(Past(a, n), b)
           /\ Upto(Cat(a, b), n) = Upto(a, n)
           /\ n \in 0 .. Len(Cat(a, b))
<1>1. Len(a) \in Nat /\ Len(b) \in Nat /\ n \in Nat /\ n <= Len(a)
  BY BytesLength
<1>2. /\ Cat(a, b) \in Bytes /\ Len(Cat(a, b)) = Len(a) + Len(b)
      /\ \A i \in 1 .. Len(a) + Len(b) :
           Cat(a, b)[i] = IF i <= Len(a) THEN a[i] ELSE b[i - Len(a)]
  BY CatPlaces
<1>3. n \in 0 .. Len(Cat(a, b))
  BY <1>1, <1>2
<1>4. /\ Past(a, n) \in Bytes /\ Len(Past(a, n)) = Len(a) - n
      /\ \A i \in 1 .. Len(a) - n : Past(a, n)[i] = a[i + n]
  BY PastPlaces
<1>5. /\ Past(Cat(a, b), n) \in Bytes /\ Len(Past(Cat(a, b), n)) = Len(Cat(a, b)) - n
      /\ \A i \in 1 .. Len(Cat(a, b)) - n : Past(Cat(a, b), n)[i] = Cat(a, b)[i + n]
  BY <1>2, <1>3, PastPlaces
<1>6. /\ Cat(Past(a, n), b) \in Bytes /\ Len(Cat(Past(a, n), b)) = Len(Past(a, n)) + Len(b)
      /\ \A i \in 1 .. Len(Past(a, n)) + Len(b) :
           Cat(Past(a, n), b)[i]
           = IF i <= Len(Past(a, n)) THEN Past(a, n)[i] ELSE b[i - Len(Past(a, n))]
  BY <1>4, CatPlaces
<1>7. Past(Cat(a, b), n) = Cat(Past(a, n), b)
  <2> DEFINE x == Past(Cat(a, b), n)
             y == Cat(Past(a, n), b)
  <2>1. Len(x) = Len(a) + Len(b) - n /\ Len(y) = Len(x)
    BY <1>1, <1>2, <1>4, <1>5, <1>6
  <2>2. \A i \in 1 .. Len(x) : x[i] = y[i]
    <3> TAKE i \in 1 .. Len(x)
    <3>1. /\ i \in 1 .. Len(Cat(a, b)) - n /\ i + n \in 1 .. Len(a) + Len(b)
          /\ i \in 1 .. Len(Past(a, n)) + Len(b) /\ i \in Nat
      BY <1>1, <1>2, <1>4, <2>1
    <3>2. x[i] = IF i + n <= Len(a) THEN a[i + n] ELSE b[(i + n) - Len(a)]
      BY <1>2, <1>5, <3>1
    <3>3. y[i] = IF i <= Len(a) - n THEN Past(a, n)[i] ELSE b[i - (Len(a) - n)]
      BY <1>4, <1>6, <3>1
    <3>4. CASE i <= Len(a) - n
      <4>1. i \in 1 .. Len(a) - n /\ i + n <= Len(a)
        BY <1>1, <3>1, <3>4
      <4> QED
        BY <1>4, <3>2, <3>3, <3>4, <4>1
    <3>5. CASE ~ (i <= Len(a) - n)
      <4>1. ~ (i + n <= Len(a)) /\ (i + n) - Len(a) = i - (Len(a) - n)
        BY <1>1, <3>1, <3>5
      <4> QED
        BY <3>2, <3>3, <3>5, <4>1
    <3> QED
      BY <3>4, <3>5
  <2> QED
    BY <1>5, <1>6, <2>1, <2>2, SameBytes
<1>8. Upto(Cat(a, b), n) = Upto(a, n)
  <2>1. /\ Upto(Cat(a, b), n) \in Bytes /\ Len(Upto(Cat(a, b), n)) = n
        /\ \A i \in 1 .. n : Upto(Cat(a, b), n)[i] = Cat(a, b)[i]
    BY <1>2, <1>3, UptoPlaces
  <2>2. /\ Upto(a, n) \in Bytes /\ Len(Upto(a, n)) = n
        /\ \A i \in 1 .. n : Upto(a, n)[i] = a[i]
    BY UptoPlaces
  <2>3. \A i \in 1 .. n : i \in 1 .. Len(a) + Len(b) /\ i <= Len(a)
    BY <1>1
  <2>4. \A i \in 1 .. n : Upto(Cat(a, b), n)[i] = Upto(a, n)[i]
    BY <1>2, <2>1, <2>2, <2>3
  <2> QED
    BY <2>1, <2>2, <2>4, SameBytes
<1> QED
  BY <1>3, <1>7, <1>8

LEMMA PastNone ==
    ASSUME NEW s \in Bytes
    PROVE  Past(s, 0) = s
<1>1. SubSeq(s, 1, Len(s)) = s
  BY SubSeqFull DEF Bytes
<1>2. 0 + 1 = 1
  OBVIOUS
<1> QED
  BY <1>1, <1>2 DEF Past

LEMMA PastAll ==
    ASSUME NEW s \in Bytes
    PROVE  Past(s, Len(s)) = <<>> /\ Upto(s, Len(s)) = s /\ Cat(<<>>, s) = s /\ Cat(s, <<>>) = s
<1>1. Len(s) \in 0 .. Len(s)
  BY BytesLength
<1>2. Past(s, Len(s)) = <<>>
  BY <1>1, PastPlaces, BytesLength
<1>3. Upto(s, Len(s)) = s
  BY SubSeqFull DEF Bytes, Upto
<1>4. Cat(<<>>, s) = s /\ Cat(s, <<>>) = s
  BY ConcatEmptySeq DEF Bytes, Cat
<1> QED
  BY <1>2, <1>3, <1>4

-----------------------------------------------------------------------------
(* The bytes that wait, packet by packet.                                   *)

RestsOf(o, d, f) == [n \in DOMAIN o |-> Past(d[o[n]], f[o[n]])]

LEMMA WaitingIs ==
    /\ Waiting = FlattenSeq(RestsOf(order, data, off))
    /\ Waiting' = FlattenSeq(RestsOf(order', data', off'))
    /\ \A a : Rest(a) = Past(data[a], off[a])
BY DEF Waiting, RestsOf, Rest, Past

Packed(o, d, f) ==
    /\ IsOrder(o) /\ d \in [Node -> Bytes] /\ f \in [Node -> Nat]
    /\ \A i \in 1 .. Len(o) : f[o[i]] < Len(d[o[i]])

ArePartsOf(r, o, d, f) ==
    /\ IsParts(r) /\ Len(r) = Len(o)
    /\ \A i \in 1 .. Len(o) : r[i] = Past(d[o[i]], f[o[i]]) /\ r[i] \in Bytes

LEMMA Parts ==
    ASSUME NEW o, NEW d, NEW f, Packed(o, d, f)
    PROVE  LET r == RestsOf(o, d, f) IN
           /\ IsParts(r) /\ Len(r) = Len(o) /\ Len(o) \in Nat
           /\ \A i \in 1 .. Len(o) :
                /\ r[i] = Past(d[o[i]], f[o[i]]) /\ r[i] \in Bytes
                /\ Len(r[i]) = Len(d[o[i]]) - f[o[i]]
                /\ Len(r[i]) \in Nat \ {0}
<1> USE DEF Packed
<1> DEFINE r == RestsOf(o, d, f)
<1>1. Len(o) \in Nat /\ DOMAIN o = 1 .. Len(o) /\ \A i \in 1 .. Len(o) : o[i] \in Node
  BY LenProperties, Places DEF IsOrder
<1>2. \A i \in 1 .. Len(o) : r[i] = Past(d[o[i]], f[o[i]])
  BY <1>1 DEF RestsOf
<1>3. ASSUME NEW i \in 1 .. Len(o)
      PROVE  r[i] \in Bytes /\ Len(r[i]) = Len(d[o[i]]) - f[o[i]] /\ Len(r[i]) \in Nat \ {0}
  <2> DEFINE s == d[o[i]]
             n == f[o[i]]
  <2>1. s \in Bytes /\ n \in Nat /\ n < Len(s) /\ Len(s) \in Nat
    BY <1>1, BytesLength
  <2> HIDE DEF s, n
  <2>2. n \in 0 .. Len(s) /\ Len(s) - n \in Nat \ {0}
    BY <2>1
  <2>3. Past(s, n) \in Bytes /\ Len(Past(s, n)) = Len(s) - n
    BY <2>1, <2>2, PastPlaces
  <2> QED
    BY <1>2, <2>2, <2>3 DEF s, n
<1>4. IsParts(r) /\ Len(r) = Len(o)
  <2>1. r = [i \in 1 .. Len(o) |-> Past(d[o[i]], f[o[i]])]
    BY <1>1 DEF RestsOf
  <2>2. r \in [1 .. Len(o) -> Bytes]
    BY <1>2, <1>3, <2>1
  <2> HIDE DEF r
  <2> QED
    BY <1>1, <2>2 DEF IsParts
<1> QED
  BY <1>1, <1>2, <1>3, <1>4

LEMMA PartsOf ==
    ASSUME NEW o, NEW d, NEW f, Packed(o, d, f)
    PROVE  ArePartsOf(RestsOf(o, d, f), o, d, f)
BY Parts DEF ArePartsOf

LEMMA SameParts ==
    ASSUME NEW p, NEW q, IsParts(p), IsParts(q), Len(p) = Len(q),
           \A i \in 1 .. Len(p) : p[i] = q[i]
    PROVE  p = q
BY SeqEqual DEF IsParts

\* A list with a packet in it, and what waits behind the first packet.
LEMMA FirstWaits ==
    ASSUME Inv, Len(order) # 0
    PROVE  LET r == RestsOf(order, data, off) IN
           /\ IsParts(r) /\ r # <<>> /\ IsParts(Tail(r))
           /\ Len(Tail(r)) = Len(order) - 1
           /\ \A i \in 1 .. Len(Tail(r)) : Tail(r)[i] = r[i + 1] /\ i + 1 \in 1 .. Len(order)
           /\ \A i \in 1 .. Len(order) : r[i] = Past(data[order[i]], off[order[i]])
           /\ r[1] = Rest(order[1]) /\ r[1] \in Bytes /\ Len(r[1]) \in Nat \ {0}
           /\ Len(r[1]) = Len(data[order[1]]) - off[order[1]]
           /\ FlattenSeq(Tail(r)) \in Bytes
           /\ Waiting = Cat(r[1], FlattenSeq(Tail(r)))
<1> DEFINE r == RestsOf(order, data, off)
<1>1. /\ IsOrder(order) /\ data \in [Node -> Bytes] /\ off \in [Node -> Nat]
      /\ \A i \in 1 .. Len(order) : off[order[i]] < Len(data[order[i]])
  BY DEF Inv, ListType, Filled
<1>2. /\ IsParts(r) /\ Len(r) = Len(order) /\ Len(order) \in Nat
      /\ \A i \in 1 .. Len(order) :
           /\ r[i] = Past(data[order[i]], off[order[i]]) /\ r[i] \in Bytes
           /\ Len(r[i]) = Len(data[order[i]]) - off[order[i]]
           /\ Len(r[i]) \in Nat \ {0}
  BY <1>1, Parts DEF Packed
<1>3. Waiting = FlattenSeq(r) /\ \A a : Rest(a) = Past(data[a], off[a])
  BY WaitingIs
<1>4. 1 \in 1 .. Len(order)
  BY <1>2
<1> HIDE DEF r
<1>5. r # <<>>
  BY <1>2, EmptySeq
<1>6. IsParts(Tail(r)) /\ Len(Tail(r)) = Len(r) - 1
      /\ \A i \in 1 .. Len(Tail(r)) : Tail(r)[i] = r[i + 1]
  BY <1>2, <1>5, HeadTailProperties DEF IsParts
<1>7. \A i \in 1 .. Len(Tail(r)) : i + 1 \in 1 .. Len(order)
  BY <1>2, <1>6
<1>8. FlattenSeq(Tail(r)) \in Bytes
  BY <1>6, FlattenTyped
<1>9. Waiting = Cat(r[1], FlattenSeq(Tail(r)))
  BY <1>2, <1>3, <1>5, FlattenTail DEF Cat
<1> QED
  BY <1>2, <1>3, <1>4, <1>5, <1>6, <1>7, <1>8, <1>9 DEF r

-----------------------------------------------------------------------------
(* What each step does to the bytes that wait.                              *)

\* Freeing the first packet takes its bytes from the front of the queue.
LEMMA FreedWaiting ==
    ASSUME Inv, pc # "free", Len(order) # 0, DeleteAndFree(order[1])
    PROVE  /\ Len(Rest(order[1])) \in 1 .. Len(Waiting)
           /\ Waiting' = Past(Waiting, Len(Rest(order[1])))
           /\ Upto(Waiting, Len(Rest(order[1]))) = Rest(order[1])
<1> DEFINE r == RestsOf(order, data, off)
           t == RestsOf(order', data', off')
           w == FlattenSeq(Tail(r))
<1>1. /\ IsParts(Tail(r)) /\ Len(Tail(r)) = Len(order) - 1
      /\ \A i \in 1 .. Len(Tail(r)) : Tail(r)[i] = r[i + 1] /\ i + 1 \in 1 .. Len(order)
      /\ \A i \in 1 .. Len(order) : r[i] = Past(data[order[i]], off[order[i]])
      /\ r[1] = Rest(order[1]) /\ r[1] \in Bytes /\ Len(r[1]) \in Nat \ {0}
      /\ w \in Bytes /\ Waiting = Cat(r[1], w)
  BY FirstWaits
<1>2. /\ IsOrder(order') /\ data' \in [Node -> Bytes] /\ off' \in [Node -> Nat]
      /\ Len(order') = Len(order) - 1
      /\ \A i \in 1 .. Len(order') :
           /\ i + 1 \in 1 .. Len(order)
           /\ data'[order'[i]] = data[order[i + 1]]
           /\ off'[order'[i]] = off[order[i + 1]]
  BY FirstFreed
<1>3. \A i \in 1 .. Len(order') : off'[order'[i]] < Len(data'[order'[i]])
  <2>1. \A i \in 1 .. Len(order) : off[order[i]] < Len(data[order[i]])
    BY DEF Inv, Filled
  <2> QED
    BY <1>2, <2>1
<1>4. /\ IsParts(t) /\ Len(t) = Len(order')
      /\ \A i \in 1 .. Len(order') : t[i] = Past(data'[order'[i]], off'[order'[i]])
  <2>1. Packed(order', data', off')
    BY <1>2, <1>3 DEF Packed
  <2> QED
    BY <2>1, PartsOf DEF ArePartsOf
<1>5. Waiting' = FlattenSeq(t)
  BY WaitingIs
<1> HIDE DEF t, r
<1>6. t = Tail(r)
  <2>1. Len(t) = Len(Tail(r))
    BY <1>1, <1>2, <1>4
  <2>2. \A i \in 1 .. Len(t) : t[i] = Tail(r)[i]
    BY <1>1, <1>2, <1>4, <2>1
  <2> QED
    BY <1>1, <1>4, <2>1, <2>2, SameParts
<1>7. Waiting' = w
  BY <1>5, <1>6
<1> HIDE DEF w
<1> DEFINE a == r[1]
<1>8. a \in Bytes /\ w \in Bytes /\ Waiting = Cat(a, w) /\ Len(a) \in Nat \ {0}
      /\ a = Rest(order[1])
  BY <1>1
<1> HIDE DEF a
<1>9. Len(a) \in 0 .. Len(a) /\ Len(a) \in 1 .. Len(a) + Len(w)
  BY <1>8, BytesLength
<1>10. /\ Past(Cat(a, w), Len(a)) = Cat(Past(a, Len(a)), w)
       /\ Upto(Cat(a, w), Len(a)) = Upto(a, Len(a))
  BY <1>8, <1>9, PastCat
<1>11. Past(a, Len(a)) = <<>> /\ Upto(a, Len(a)) = a /\ Cat(<<>>, w) = w
  BY <1>8, PastAll
<1>12. Len(Waiting) = Len(a) + Len(w)
  BY <1>8, CatPlaces
<1> QED
  BY <1>7, <1>8, <1>9, <1>10, <1>11, <1>12

\* So does moving off forward.
LEMMA MovedWaiting ==
    ASSUME Inv, Len(order) # 0, NEW n \in 0 .. Len(Rest(order[1])), n # Len(Rest(order[1])),
           off' = [off EXCEPT ![order[1]] = @ + n], UNCHANGED <<order, data>>
    PROVE  /\ off' \in [Node -> Nat]
           /\ \A i \in 1 .. Len(order) : off'[order[i]] < Len(data[order[i]])
           /\ n \in 0 .. Len(Waiting)
           /\ Waiting' = Past(Waiting, n)
           /\ Upto(Waiting, n) = Upto(Rest(order[1]), n)
<1> DEFINE r == RestsOf(order, data, off)
           t == RestsOf(order, data, off')
           w == FlattenSeq(Tail(r))
           x == order[1]
<1>1. /\ IsParts(r) /\ IsParts(Tail(r)) /\ Len(Tail(r)) = Len(order) - 1
      /\ \A i \in 1 .. Len(Tail(r)) : Tail(r)[i] = r[i + 1] /\ i + 1 \in 1 .. Len(order)
      /\ \A i \in 1 .. Len(order) : r[i] = Past(data[order[i]], off[order[i]])
      /\ r[1] = Rest(x) /\ r[1] \in Bytes /\ Len(r[1]) \in Nat \ {0}
      /\ Len(r[1]) = Len(data[x]) - off[x]
      /\ w \in Bytes /\ Waiting = Cat(r[1], w)
  BY FirstWaits
<1>2. /\ IsOrder(order) /\ Distinct(order)
      /\ data \in [Node -> Bytes] /\ off \in [Node -> Nat]
      /\ \A i \in 1 .. Len(order) : off[order[i]] < Len(data[order[i]])
  BY DEF Inv, ListType, Filled
<1>3. Len(order) \in Nat /\ 1 \in 1 .. Len(order) /\ \A i \in 1 .. Len(order) : order[i] \in Node
  BY <1>2, Places
<1>4. x \in Node /\ data[x] \in Bytes /\ off[x] \in Nat /\ Len(data[x]) \in Nat
      /\ off[x] < Len(data[x])
  BY <1>2, <1>3, BytesLength
<1>5. n \in Nat /\ off[x] + n < Len(data[x])
  BY <1>1, <1>4
<1>6. off' \in [Node -> Nat] /\ off'[x] = off[x] + n /\ \A c \in Node \ {x} : off'[c] = off[c]
  BY <1>2, <1>4, <1>5
<1>7. \A i \in 1 .. Len(order) : i # 1 => order[i] # x
  BY <1>2, <1>3 DEF Distinct
<1>8. \A i \in 1 .. Len(order) : off'[order[i]] < Len(data[order[i]])
  <2> TAKE i \in 1 .. Len(order)
  <2>1. CASE i = 1
    BY <1>5, <1>6, <2>1
  <2>2. CASE i # 1
    BY <1>2, <1>3, <1>6, <1>7, <2>2
  <2> QED
    BY <2>1, <2>2
<1>9. /\ IsParts(t) /\ Len(t) = Len(order)
      /\ \A i \in 1 .. Len(order) :
           t[i] = Past(data[order[i]], off'[order[i]]) /\ t[i] \in Bytes
  <2>1. Packed(order, data, off')
    BY <1>2, <1>6, <1>8 DEF Packed
  <2>2. ArePartsOf(t, order, data, off')
    BY <2>1, PartsOf
  <2> QED
    BY <2>2 DEF ArePartsOf
<1>10. Waiting' = FlattenSeq(t)
  <2>1. Waiting' = FlattenSeq(RestsOf(order', data', off'))
    BY WaitingIs
  <2> QED
    BY <2>1
<1>11. Rest(x) = Past(data[x], off[x])
  BY WaitingIs
<1> HIDE DEF t, r
<1>12. t # <<>>
  BY <1>9, EmptySeq
<1>13. /\ IsParts(Tail(t)) /\ Len(Tail(t)) = Len(t) - 1
       /\ \A i \in 1 .. Len(Tail(t)) : Tail(t)[i] = t[i + 1]
  BY <1>9, <1>12, HeadTailProperties DEF IsParts
<1>14. Tail(t) = Tail(r)
  <2>1. Len(Tail(t)) = Len(Tail(r))
    BY <1>1, <1>9, <1>13
  <2>2. \A i \in 1 .. Len(Tail(t)) : i + 1 \in 1 .. Len(order) /\ i + 1 # 1
    BY <1>3, <1>9, <1>13
  <2>3. \A i \in 1 .. Len(Tail(t)) : t[i + 1] = r[i + 1]
    BY <1>1, <1>3, <1>6, <1>7, <1>9, <2>2
  <2>4. \A i \in 1 .. Len(Tail(t)) : Tail(t)[i] = Tail(r)[i]
    BY <1>1, <1>13, <2>1, <2>3
  <2> QED
    BY <1>1, <1>13, <2>1, <2>4, SameParts
<1>15. Waiting' = Cat(t[1], w)
  BY <1>9, <1>10, <1>12, <1>14, FlattenTail DEF Cat
<1> HIDE DEF w
<1>16. t[1] = Past(Rest(x), n)
  BY <1>3, <1>4, <1>5, <1>6, <1>9, <1>11, PastTwice
<1> DEFINE a == Rest(x)
<1>17. a \in Bytes /\ w \in Bytes /\ n \in 0 .. Len(a) /\ Waiting = Cat(a, w)
       /\ Waiting' = Cat(Past(a, n), w)
  BY <1>1, <1>15, <1>16
<1> HIDE DEF a, x
<1>18. /\ Past(Cat(a, w), n) = Cat(Past(a, n), w) /\ Upto(Cat(a, w), n) = Upto(a, n)
       /\ n \in 0 .. Len(Cat(a, w))
  BY <1>17, PastCat
<1> QED
  BY <1>6, <1>8, <1>17, <1>18 DEF a, x

\* A packet that is queued joins the end.
LEMMA JoinedWaiting ==
    ASSUME Inv, NEW a \in Node, NEW bytes \in Payloads, Enqueue(a, bytes)
    PROVE  Waiting \in Bytes /\ bytes \in Bytes /\ Len(bytes) \in Nat \ {0}
           /\ Waiting' = Cat(Waiting, bytes)
<1> DEFINE r == RestsOf(order, data, off)
           t == RestsOf(order', data', off')
           e == Append(r, bytes)
<1>1. Packed(order, data, off)
  BY DEF Inv, ListType, Filled, Packed
<1>2. Packed(order', data', off')
  <2>1. Inv'
    BY Enqueues
  <2> QED
    BY <2>1 DEF Inv, ListType, Filled, Packed
<1>3. ArePartsOf(r, order, data, off)
  BY <1>1, PartsOf
<1>4. ArePartsOf(t, order', data', off')
  BY <1>2, PartsOf
<1>5. /\ Len(order') = Len(order) + 1
      /\ data'[order'[Len(order) + 1]] = bytes /\ off'[order'[Len(order) + 1]] = 0
      /\ \A i \in 1 .. Len(order) :
           data'[order'[i]] = data[order[i]] /\ off'[order'[i]] = off[order[i]]
  BY Joined
<1>6. bytes \in Bytes /\ Len(bytes) \in Nat \ {0}
  BY Payload
<1>7. Waiting = FlattenSeq(r) /\ Waiting' = FlattenSeq(t)
  BY WaitingIs
<1>8. Len(order) \in Nat
  BY <1>1, Places DEF Packed
<1>9. Past(bytes, 0) = bytes
  BY <1>6, PastNone
<1> HIDE DEF r, t
<1>10. IsParts(r) /\ Len(r) = Len(order)
       /\ \A i \in 1 .. Len(order) : r[i] = Past(data[order[i]], off[order[i]])
  BY <1>3 DEF ArePartsOf
<1>11. IsParts(t) /\ Len(t) = Len(order')
       /\ \A i \in 1 .. Len(order') : t[i] = Past(data'[order'[i]], off'[order'[i]])
  BY <1>4 DEF ArePartsOf
<1>12. /\ Len(e) = Len(r) + 1 /\ e[Len(r) + 1] = bytes
       /\ \A i \in 1 .. Len(r) : e[i] = r[i]
  BY <1>6, <1>10, AppendProperties DEF IsParts
<1>13. IsParts(e) /\ FlattenSeq(e) = Cat(FlattenSeq(r), bytes)
  BY <1>6, <1>10, FlattenAppend DEF Cat
<1> HIDE DEF e
<1>14. \A i \in 1 .. Len(t) : t[i] = e[i]
  <2>1. \A i \in 1 .. Len(t) : i \in 1 .. Len(order') /\ (i = Len(order) + 1 \/ i \in 1 .. Len(order))
    BY <1>5, <1>8, <1>11
  <2>2. \A i \in 1 .. Len(order) : i \in 1 .. Len(order')
    BY <1>5, <1>8
  <2>3. \A i \in 1 .. Len(order) : t[i] = e[i]
    BY <1>5, <1>10, <1>11, <1>12, <2>2
  <2>4. Len(order) + 1 \in 1 .. Len(order')
    BY <1>5, <1>8
  <2>5. t[Len(order) + 1] = e[Len(order) + 1]
    BY <1>5, <1>9, <1>10, <1>11, <1>12, <2>4
  <2> QED
    BY <2>1, <2>3, <2>5
<1>15. t = e
  BY <1>5, <1>10, <1>11, <1>12, <1>13, <1>14, SameParts
<1>16. FlattenSeq(r) \in Bytes
  BY <1>10, FlattenTyped
<1> QED
  BY <1>6, <1>7, <1>13, <1>15, <1>16

\* Nothing waits in an empty list.
LEMMA NothingWaits ==
    ASSUME Inv
    PROVE  Waiting \in Bytes /\ (Len(order) = 0 => Waiting = <<>>)
<1>1. Packed(order, data, off)
  BY DEF Inv, ListType, Filled, Packed
<1>2. IsParts(RestsOf(order, data, off)) /\ Len(RestsOf(order, data, off)) = Len(order)
  BY <1>1, PartsOf DEF ArePartsOf
<1>3. Waiting = FlattenSeq(RestsOf(order, data, off))
  BY WaitingIs
<1>4. Waiting \in Bytes
  BY <1>2, <1>3, FlattenTyped
<1>5. ASSUME Len(order) = 0
      PROVE  Waiting = <<>>
  <2>1. RestsOf(order, data, off) = <<>>
    BY <1>2, <1>5, PartsTyped
  <2> QED
    BY <1>3, <2>1, FlattenEmpty
<1> QED
  BY <1>4, <1>5

LEMMA SamePacketsWait ==
    ASSUME UNCHANGED <<order, data, off>>
    PROVE  Waiting' = Waiting
BY DEF Waiting, Rest

-----------------------------------------------------------------------------
(* Each step keeps the invariant and is a step of the queue of bytes.       *)

\* Bytes leave the queue at the front: how many, and what stays.
Leaves(n) == n \in 0 .. Len(Waiting) /\ Waiting' = Past(Waiting, n)

LEMMA Writes ==
    ASSUME Inv, WriteTurn
    PROVE  /\ Inv'
           /\ Phase = "open" /\ Phase' = "open"
           /\ \E n \in 0 .. Len(Waiting) :
                Leaves(n) /\ written' = written \o Upto(Waiting, n)
<1>1. pc = "write" /\ ~ListEmptySafe(link, DataList)
  BY DEF WriteTurn
<1>2. pc # "free" /\ Len(order) # 0 /\ First = order[1]
  BY <1>1, Seen
<1>3. PICK n \in 0 .. Len(Rest(First)) :
        /\ written' = written \o SubSeq(Rest(First), 1, n)
        /\ IF n = Len(Rest(First))
           THEN DeleteAndFree(First) /\ UNCHANGED pc
           ELSE /\ off' = [off EXCEPT ![First] = @ + n]
                /\ pc' = "idle"
                /\ UNCHANGED <<link, allocated, data, order>>
  BY DEF WriteTurn
<1>4. UNCHANGED <<pos, pos2, taken>>
  BY DEF WriteTurn, SameWalk
<1>5. /\ IsOrder(order) /\ Distinct(order) /\ Chained(link, order) /\ link \in LinkType
      /\ data \in [Node -> Bytes] /\ off \in [Node -> Nat]
      /\ written \in Bytes /\ taken \in Nat
      /\ \A a : a \in allocated <=> \E i \in 1 .. Len(order) : order[i] = a
  BY <1>2 DEF Inv, ListType, Filled, Walked
<1>6. written' = written \o Upto(Rest(order[1]), n)
  BY <1>2, <1>3 DEF Upto
<1>7. written' \in Bytes
  <2>1. Rest(order[1]) \in Bytes /\ n \in 0 .. Len(Rest(order[1]))
    BY <1>2, <1>3, FirstWaits
  <2>2. Upto(Rest(order[1]), n) \in Bytes
    BY <2>1, UptoPlaces
  <2> QED
    BY <1>5, <1>6, <2>2, BytesJoin DEF Cat
<1>8. CASE n = Len(Rest(First))
  <2>1. DeleteAndFree(order[1]) /\ pc' = "write" /\ n = Len(Rest(order[1]))
    BY <1>1, <1>2, <1>3, <1>8
  <2>2. /\ IsOrder(order') /\ Distinct(order') /\ link' \in LinkType
        /\ data' \in [Node -> Bytes] /\ off' \in [Node -> Nat]
        /\ Filled' /\ Chained(link', order')
    BY <1>2, <2>1, FirstFreed
  <2>3. Inv'
    BY <1>4, <1>5, <1>7, <2>1, <2>2 DEF Inv, ListType, Walked
  <2>4. n \in 1 .. Len(Waiting) /\ Waiting' = Past(Waiting, n)
        /\ Upto(Waiting, n) = Rest(order[1])
    BY <1>2, <2>1, FreedWaiting
  <2>5. Upto(Rest(order[1]), n) = Rest(order[1])
    BY <1>2, <2>1, FirstWaits, PastAll
  <2>6. Len(Waiting) \in Nat
    BY NothingWaits, BytesLength
  <2>7. Leaves(n) /\ written' = written \o Upto(Waiting, n) /\ n \in 0 .. Len(Waiting)
    BY <1>6, <2>4, <2>5, <2>6 DEF Leaves
  <2> QED
    BY <1>1, <2>1, <2>3, <2>7 DEF Phase
<1>9. CASE n # Len(Rest(First))
  <2>1. /\ off' = [off EXCEPT ![order[1]] = @ + n] /\ UNCHANGED <<order, data>>
        /\ n \in 0 .. Len(Rest(order[1])) /\ n # Len(Rest(order[1]))
        /\ UNCHANGED <<link, allocated>> /\ pc' = "idle"
    BY <1>2, <1>3, <1>9
  <2>2. /\ off' \in [Node -> Nat]
        /\ \A i \in 1 .. Len(order) : off'[order[i]] < Len(data[order[i]])
        /\ n \in 0 .. Len(Waiting) /\ Waiting' = Past(Waiting, n)
        /\ Upto(Waiting, n) = Upto(Rest(order[1]), n)
    BY <1>2, <2>1, MovedWaiting
  <2>3. Inv'
    BY <1>4, <1>5, <1>7, <2>1, <2>2 DEF Inv, ListType, Filled, Walked
  <2>4. Leaves(n) /\ written' = written \o Upto(Waiting, n)
    BY <1>6, <2>2 DEF Leaves
  <2> QED
    BY <1>1, <2>1, <2>2, <2>3, <2>4 DEF Phase
<1> QED
  BY <1>8, <1>9

\* The list stays as it is.
LEMMA SameList ==
    ASSUME Inv, SamePackets, UNCHANGED <<written, taken>>,
           pc' \in {"idle", "write", "drop", "walk"}, pc # "free",
           pc' = "walk" => WalkBegins
    PROVE  Inv' /\ Waiting' = Waiting
<1>1. /\ First = At(order, 2) /\ link[First].next = At(order, 3)
  BY Seen
<1>2. UNCHANGED <<link, allocated, data, off, order>>
  BY DEF SamePackets
<1>3. pc' = "walk" => pos' = At(order', 2) /\ pos2' = At(order', 3)
  BY <1>1, <1>2 DEF WalkBegins
<1>4. Inv'
  BY <1>2, <1>3 DEF Inv, ListType, Filled, Walked
<1> QED
  BY <1>2, <1>4, SamePacketsWait

\* A loop that drops frees the first packet.
LEMMA Drops ==
    ASSUME Inv, pc # "free", Len(order) # 0, DeleteAndFree(order[1]),
           UNCHANGED <<pc, written, taken>>,
           pc = "walk" => pos' = At(order', 2) /\ pos2' = At(order', 3)
    PROVE  Inv' /\ \E n \in 1 .. Len(Waiting) : Waiting' = Past(Waiting, n)
<1>1. /\ IsOrder(order') /\ link' \in LinkType
      /\ data' \in [Node -> Bytes] /\ off' \in [Node -> Nat]
      /\ Filled' /\ Chained(link', order')
  BY FirstFreed
<1>2. Inv'
  BY <1>1 DEF Inv, ListType, Walked
<1>3. Len(Rest(order[1])) \in 1 .. Len(Waiting)
      /\ Waiting' = Past(Waiting, Len(Rest(order[1])))
  BY FreedWaiting
<1> QED
  BY <1>2, <1>3

LEMMA WalksOn ==
    ASSUME Inv, WalkTurn
    PROVE  /\ pc # "free" /\ Len(order) # 0 /\ DeleteAndFree(order[1])
           /\ UNCHANGED <<pc, written, taken>>
           /\ pos' = At(order', 2) /\ pos2' = At(order', 3)
<1>1. pc = "walk" /\ pos # DataList /\ DeleteAndFree(pos)
      /\ pos' = pos2 /\ pos2' = link'[pos2].next /\ UNCHANGED <<pc, written, taken>>
  BY DEF WalkTurn
<1>2. pc # "free" /\ pos = At(order, 2) /\ pos2 = At(order, 3)
  BY <1>1 DEF Inv, Walked
<1>3. Len(order) # 0 /\ pos = order[1]
  BY <1>1, <1>2, Seen
<1>4. /\ IsOrder(order') /\ Chained(link', order') /\ At(order', 2) = At(order, 3)
  BY <1>1, <1>2, <1>3, FirstFreed
<1>5. link'[At(order', 2)].next = At(order', 3)
  BY <1>4, Onward
<1> QED
  BY <1>1, <1>2, <1>3, <1>4, <1>5

LEMMA Step ==
    ASSUME Inv, [Next]_vars
    PROVE  Inv' /\ [Queue!Next]_<<Waiting, written, Phase>>
<1>1. CASE OpenSession
  <2>1. Inv'
    BY <1>1, Opens
  <2>2. order = <<>> /\ pc = "free" /\ pc' = "idle" /\ written' = <<>>
        /\ UNCHANGED <<order, data, off>>
    BY <1>1 DEF Inv, Walked, OpenSession
  <2>3. Waiting = <<>> /\ Waiting' = <<>>
    BY <2>2, NothingWaits, SamePacketsWait
  <2>4. Queue!Begin
    BY <2>2, <2>3 DEF Queue!Begin, Phase
  <2> QED
    BY <2>1, <2>4 DEF Queue!Next
<1>2. CASE \E a \in Node, bytes \in Payloads : Enqueue(a, bytes)
  <2> PICK a \in Node, bytes \in Payloads : Enqueue(a, bytes)
    BY <1>2
  <2>1. Inv'
    BY Enqueues
  <2>2. Waiting \in Bytes /\ bytes \in Bytes /\ Len(bytes) \in Nat \ {0}
        /\ Waiting' = Cat(Waiting, bytes)
    BY JoinedWaiting
  <2>3. IsStrictPrefix(Waiting, Waiting')
    <3>1. Len(Waiting) \in 0 .. Len(Waiting) /\ Len(Waiting) \in Nat
      BY <2>2, BytesLength
    <3>2. Upto(Waiting', Len(Waiting)) = Upto(Waiting, Len(Waiting))
      BY <2>2, <3>1, PastCat
    <3>3. Len(Waiting') = Len(Waiting) + Len(bytes)
      BY <2>2, CatPlaces
    <3>4. Len(Waiting) <= Len(Waiting') /\ Len(Waiting) # Len(Waiting')
      BY <2>2, <3>1, <3>3
    <3> QED
      BY <3>2, <3>4 DEF IsStrictPrefix, IsPrefix, Upto
  <2>4. pc = "idle" /\ UNCHANGED <<written, pc>>
    BY DEF Enqueue
  <2>5. Queue!Put
    BY <2>3, <2>4
      DEF Queue!Put, Phase, IsStrictPrefix, IsPrefix, Queue!IsStrictPrefix, Queue!IsPrefix
  <2> QED
    BY <2>1, <2>5 DEF Queue!Next
<1>3. CASE WriteTurn
  <2>1. /\ Inv' /\ Phase = "open" /\ Phase' = "open"
        /\ \E n \in 0 .. Len(Waiting) :
             Leaves(n) /\ written' = written \o Upto(Waiting, n)
    BY <1>3, Writes
  <2> PICK n \in 0 .. Len(Waiting) : Leaves(n) /\ written' = written \o Upto(Waiting, n)
    BY <2>1
  <2>2. Waiting' = Past(Waiting, n)
    BY DEF Leaves
  <2>3. Waiting \in Bytes /\ Len(Waiting) \in Nat /\ written \in Bytes
    BY NothingWaits, BytesLength DEF Inv, ListType
  <2>4. CASE n = 0
    <3>1. Past(Waiting, 0) = Waiting
      BY <2>3, PastNone
    <3>2. Upto(Waiting, 0) = <<>>
      <4>1. 0 \in 0 .. Len(Waiting)
        BY <2>3
      <4> QED
        BY <2>3, <4>1, UptoPlaces, BytesLength
    <3>3. written' = written
      BY <2>3, <2>4, <3>2, PastAll DEF Cat
    <3> QED
      BY <2>1, <2>2, <2>4, <3>1, <3>3
  <2>5. CASE n # 0
    <3>1. n \in 1 .. Len(Waiting)
      BY <2>3, <2>5
    <3>2. written' = written \o SubSeq(Waiting, 1, n)
          /\ Waiting' = Queue!From(Waiting, n + 1)
      BY <2>2 DEF Upto, Past, Queue!From
    <3>3. Queue!Write
      BY <2>1, <3>1, <3>2 DEF Queue!Write
    <3> QED
      BY <2>1, <3>3 DEF Queue!Next
  <2> QED
    BY <2>4, <2>5
<1>4. CASE WriteBegins \/ DropBegins \/ SessionFreed
  <2>1. /\ pc \in {"idle", "write"} /\ pc' \in {"write", "drop", "walk"}
        /\ SamePackets /\ UNCHANGED <<written, taken>>
        /\ pc' = "walk" => WalkBegins
    BY <1>4 DEF WriteBegins, DropBegins, SessionFreed, WalkBegins
  <2>2. Inv' /\ Waiting' = Waiting
    BY <2>1, SameList
  <2>3. Phase = "open" /\ Phase' \in {"open", "dropping"}
    BY <2>1 DEF Phase
  <2> QED
    BY <2>1, <2>2, <2>3 DEF Queue!Next, Queue!StartDropping
<1>5. CASE WriteEnds
  <2>1. /\ pc = "write" /\ pc' \in {"idle", "walk"}
        /\ SamePackets /\ UNCHANGED <<written, taken>>
        /\ pc' = "walk" => WalkBegins
    BY <1>5 DEF WriteEnds, WalkBegins
  <2>2. Inv' /\ Waiting' = Waiting
    BY <2>1, SameList
  <2>3. Phase = "open" /\ Phase' \in {"open", "dropping"}
    BY <2>1 DEF Phase
  <2> QED
    BY <2>1, <2>2, <2>3 DEF Queue!Next, Queue!StartDropping
<1>6. CASE DropEnds
  <2>1. /\ pc = "drop" /\ pc' \in {"idle", "walk"} /\ ListEmptySafe(link, DataList)
        /\ SamePackets /\ UNCHANGED <<written, taken>>
        /\ pc' = "walk" => WalkBegins
    BY <1>6 DEF DropEnds, WalkBegins
  <2>2. Inv' /\ Waiting' = Waiting
    BY <2>1, SameList
  <2>3. Waiting = <<>>
    BY <2>1, Seen, NothingWaits
  <2>4. Phase = "dropping" /\ Phase' \in {"open", "dropping"}
    BY <2>1 DEF Phase
  <2> QED
    BY <2>1, <2>2, <2>3, <2>4 DEF Queue!Next, Queue!Dropped
<1>7. CASE DropTurn \/ WalkTurn
  <2>1. /\ pc \in {"drop", "walk"} /\ Len(order) # 0 /\ DeleteAndFree(order[1])
        /\ UNCHANGED <<pc, written, taken>>
        /\ pc = "walk" => pos' = At(order', 2) /\ pos2' = At(order', 3)
    <3>1. CASE DropTurn
      <4>1. /\ pc = "drop" /\ ~ListEmptySafe(link, DataList) /\ DeleteAndFree(First)
            /\ UNCHANGED <<pc, written, taken>>
        BY <3>1 DEF DropTurn
      <4> QED
        BY <4>1, Seen
    <3>2. CASE WalkTurn
      <4>1. pc = "walk"
        BY <3>2 DEF WalkTurn
      <4> QED
        BY <3>2, <4>1, WalksOn
    <3> QED
      BY <1>7, <3>1, <3>2
  <2>2. Inv' /\ \E n \in 1 .. Len(Waiting) : Waiting' = Past(Waiting, n)
    BY <2>1, Drops
  <2>3. Phase = "dropping" /\ Phase' = Phase
    BY <2>1 DEF Phase
  <2>4. Queue!Drop
    BY <2>1, <2>2, <2>3 DEF Queue!Drop, Queue!From, Past
  <2> QED
    BY <2>2, <2>4 DEF Queue!Next
<1>8. CASE WalkEnds
  <2>1. /\ pc = "walk" /\ pos = DataList /\ pc' = "free"
        /\ UNCHANGED <<link, allocated, data, off, order, pos, pos2, written, taken>>
    BY <1>8 DEF WalkEnds, SamePackets, SameWalk
  <2>2. Len(order) = 0 /\ IsOrder(order)
    BY <2>1, Seen DEF Inv, ListType, Walked
  <2>3. order = <<>>
    BY <2>2, Places
  <2>4. Inv'
    BY <2>1, <2>3 DEF Inv, ListType, Filled, Walked
  <2>5. Waiting = <<>> /\ Waiting' = Waiting
    BY <2>1, <2>2, NothingWaits, SamePacketsWait
  <2>6. Phase = "dropping" /\ Phase' = "closed"
    BY <2>1 DEF Phase
  <2> QED
    BY <2>1, <2>4, <2>5, <2>6 DEF Queue!Next, Queue!Dropped
<1>9. CASE UNCHANGED vars
  <2>1. UNCHANGED <<link, allocated, data, off, pc, pos, pos2, order, written, taken>>
    BY <1>9 DEF vars
  <2>2. Inv'
    BY <2>1 DEF Inv, ListType, Filled, Walked
  <2>3. Waiting' = Waiting
    BY <2>1, SamePacketsWait
  <2> QED
    BY <2>1, <2>2, <2>3 DEF Phase
<1> QED
  BY <1>1, <1>2, <1>3, <1>4, <1>5, <1>6, <1>7, <1>8, <1>9 DEF Next

-----------------------------------------------------------------------------
(* The theorems.                                                            *)

\* list.h and the loops of client.c and server.c, with any number of packets
\* of any length: the invariant holds in every state.
THEOREM Invariant == Spec => []Inv
<1>1. Init => Inv
  BY Initially
<1>2. Inv /\ [Next]_vars => Inv'
  BY Step
<1> QED
  BY <1>1, <1>2, PTL DEF Spec

\* The pointers of the list lead through exactly the packets that are
\* allocated, forwards and backwards, in the order of list_add_tail, and
\* list_for_each_safe of free_client_session stands on the first of them.
THEOREM ListWellLinked == Spec => []WellLinked
<1>1. Inv => WellLinked
  <2> SUFFICES ASSUME Inv
               PROVE  WellLinked
    OBVIOUS
  <2>1. /\ IsOrder(order)
        /\ \A a : a \in allocated <=> \E i \in 1 .. Len(order) : order[i] = a
    BY DEF Inv, ListType, Filled
  <2>2. Len(order) \in Nat /\ (order = <<>> <=> Len(order) = 0) /\ DOMAIN order = 1 .. Len(order)
    BY <2>1, Places, LenProperties DEF IsOrder
  <2>3. ToSet(order) = allocated
    BY <2>1, <2>2 DEF ToSet
  <2>4. \A n \in 1 .. Len(order) + 2 : Around[n] = At(order, n)
    <3> DEFINE L == <<DataList>> \o order
    <3>1. /\ <<DataList>> \in Seq(Addr) /\ order \in Seq(Addr)
          /\ Len(<<DataList>>) = 1 /\ <<DataList>>[1] = DataList
      BY <2>1 DEF IsOrder, Addr
    <3>2. /\ L \in Seq(Addr) /\ Len(L) = 1 + Len(order)
          /\ \A i \in 1 .. 1 + Len(order) :
               L[i] = IF i <= 1 THEN <<DataList>>[i] ELSE order[i - 1]
      BY <3>1, ConcatProperties
    <3> HIDE DEF L
    <3>3. \A i \in 1 .. (1 + Len(order)) + 1 :
            Around[i] = IF i <= 1 + Len(order) THEN L[i] ELSE <<DataList>>[i - (1 + Len(order))]
      BY <3>1, <3>2, ConcatProperties DEF Around, L
    <3> TAKE n \in 1 .. Len(order) + 2
    <3>4. n \in 1 .. (1 + Len(order)) + 1
      BY <2>2
    <3>5. CASE n = 1
      <4>1. 1 \in 1 .. 1 + Len(order) /\ 1 <= 1 + Len(order) /\ 1 \notin 2 .. Len(order) + 1
        BY <2>2
      <4> QED
        BY <3>1, <3>2, <3>3, <3>4, <3>5, <4>1 DEF At
    <3>6. CASE n \in 2 .. Len(order) + 1
      <4>1. n \in 1 .. 1 + Len(order) /\ n <= 1 + Len(order) /\ ~(n <= 1)
        BY <2>2, <3>6
      <4> QED
        BY <3>2, <3>3, <3>4, <3>6, <4>1 DEF At
    <3>7. CASE n = Len(order) + 2
      <4>1. ~(n <= 1 + Len(order)) /\ n - (1 + Len(order)) = 1 /\ n \notin 2 .. Len(order) + 1
        BY <2>2, <3>7
      <4> QED
        BY <3>1, <3>3, <3>4, <4>1 DEF At
    <3> QED
      BY <2>2, <3>5, <3>6, <3>7
  <2>5. \A n \in 1 .. Len(order) + 1 : n \in 1 .. Len(order) + 2 /\ n + 1 \in 1 .. Len(order) + 2
    BY <2>2
  <2>6. pc = "free" => order = <<>>
    BY DEF Inv, Walked
  <2>7. ASSUME pc # "free", NEW n \in 1 .. Len(order) + 1
        PROVE  /\ link[Around[n]].next = Around[n + 1]
               /\ link[Around[n + 1]].prev = Around[n]
    <3>1. Chained(link, order)
      BY <2>7 DEF Inv, Walked
    <3>2. Around[n] = At(order, n) /\ Around[n + 1] = At(order, n + 1)
      BY <2>4, <2>5
    <3> QED
      BY <3>1, <3>2 DEF Chained
  <2>8. ASSUME pc = "walk"
        PROVE  pos = Around[2] /\ pos2 = (IF order = <<>> THEN DataList ELSE Around[3])
    <3>1. pos = At(order, 2) /\ pos2 = At(order, 3)
      BY <2>8 DEF Inv, Walked
    <3>2. 2 \in 1 .. Len(order) + 2 /\ (Len(order) # 0 => 3 \in 1 .. Len(order) + 2)
          /\ (Len(order) = 0 => 3 \notin 2 .. Len(order) + 1)
      BY <2>2
    <3>3. order = <<>> => At(order, 3) = DataList
      BY <2>2, <3>2 DEF At
    <3> QED
      BY <2>2, <2>4, <3>1, <3>2, <3>3
  <2> QED
    BY <2>3, <2>6, <2>7, <2>8 DEF WellLinked
<1> QED
  BY <1>1, Invariant, PTL

\* Packets, partial writes and pointers together implement the queue of bytes
\* that Session has in their place.
THEOREM QueueOfBytes == Spec => IsByteQueue
<1>1. Init => Queue!Init
  <2> SUFFICES ASSUME Init
               PROVE  Queue!Init
    OBVIOUS
  <2>1. Inv /\ Len(order) = 0
    BY Initially DEF Init
  <2>2. Waiting = <<>>
    BY <2>1, NothingWaits
  <2> QED
    BY <2>2 DEF Init, Queue!Init, Phase
<1>2. Inv /\ [Next]_vars => [Queue!Next]_(Queue!queue)
  BY Step DEF Queue!queue
<1> QED
  BY <1>1, <1>2, Invariant, PTL DEF Spec, IsByteQueue, Queue!Spec

=============================================================================
