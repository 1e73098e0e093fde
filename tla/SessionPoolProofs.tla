-------------------------- MODULE SessionPoolProofs --------------------------
(***************************************************************************)
(* The two-part scan and the rotating walk are right for a pool of any     *)
(* size.                                                                   *)
(***************************************************************************)
EXTENDS SessionPool, TLAPS, WellFoundedInduction

Indexes ==
    /\ flag \in [Slot -> BOOLEAN]
    /\ s_index \in Slot
    /\ i_start \in Slot
    /\ result \in Slot \cup {NULL}

-----------------------------------------------------------------------------
(* The scan.                                                                *)

\* Every set of naturals that is not empty has a least element.
LEMMA LeastElement ==
    ASSUME NEW T \in SUBSET Nat, T # {}
    PROVE  \E x \in T : \A y \in T : x <= y
<1>1. PICK x \in T : \A y \in T : ~(<<y, x>> \in OpToRel(<, Nat))
  BY NatLessThanWellFounded, WFMin
<1>2. \A y \in T : ~(y < x)
  BY <1>1 DEF OpToRel
<1> QED
  BY <1>2

\* A scan stops at the first free slot of its range, or at the end.
LEMMA ScanStops ==
    ASSUME Indexes, NEW from \in Slot, NEW to \in Slot \cup {MaxSession}
    PROVE  LET stop == ScanStop(from, to)
           IN  \/ /\ stop = to
                  /\ \A s \in Slot : from <= s /\ s < to => flag[s]
               \/ /\ stop \in Slot /\ from <= stop /\ stop < to /\ ~flag[stop]
                  /\ \A s \in Slot : from <= s /\ s < stop => flag[s]
<1> DEFINE free == {s \in Slot : from <= s /\ s < to /\ ~flag[s]}
           least == CHOOSE s \in free : \A r \in free : s <= r
<1>1. CASE free = {}
  BY <1>1 DEF ScanStop
<1>2. CASE free # {}
  <2>1. free \in SUBSET Nat
    BY PoolAssumption DEF Slot
  <2>2. least \in free /\ \A r \in free : least <= r
    BY <1>2, <2>1, LeastElement
  <2>3. ScanStop(from, to) = least
    BY <1>2 DEF ScanStop
  <2> HIDE DEF least
  <2>4. \A s \in Slot : from <= s /\ s < least => flag[s]
    BY <2>1, <2>2, PoolAssumption DEF Slot
  <2> QED
    BY <2>2, <2>3, <2>4
<1> QED
  BY <1>1, <1>2

\* Distances on the ring, without the remainder.
LEMMA RingDistance ==
    ASSUME NEW s \in Slot, NEW from \in Slot
    PROVE  (s - from) % MaxSession =
             IF from <= s THEN s - from ELSE s - from + MaxSession
BY PoolAssumption DEF Slot

\* The scan finds the first free slot from the hint on, if there is one.
LEMMA FoundExact ==
    ASSUME Indexes
    PROVE  \/ Found = NULL /\ \A s \in Slot : flag[s]
           \/ /\ Found \in Slot /\ ~flag[Found]
              /\ \A s \in Slot :
                   (s - s_index) % MaxSession < (Found - s_index) % MaxSession
                      => flag[s]
<1> DEFINE first == ScanStop(s_index, MaxSession)
           second == ScanStop(0, s_index)
<1>1. /\ 0 \in Slot /\ s_index \in Slot /\ NULL \notin Slot
      /\ \A s \in Slot : s \in Int /\ 0 <= s /\ s < MaxSession
      /\ MaxSession \in Int
  BY PoolAssumption DEF Slot, Indexes, NULL
<1>2. \/ /\ first = MaxSession
         /\ \A s \in Slot : s_index <= s => flag[s]
      \/ /\ first \in Slot /\ s_index <= first /\ ~flag[first]
         /\ \A s \in Slot : s_index <= s /\ s < first => flag[s]
  BY <1>1, ScanStops
<1>3. \/ /\ second = s_index
         /\ \A s \in Slot : s < s_index => flag[s]
      \/ /\ second \in Slot /\ second < s_index /\ ~flag[second]
         /\ \A s \in Slot : s < second => flag[s]
  BY <1>1, ScanStops
<1> DEFINE dist == [s \in Slot |-> IF s_index <= s THEN s - s_index
                                  ELSE s - s_index + MaxSession]
<1>4. \A s \in Slot : (s - s_index) % MaxSession = dist[s]
  BY <1>1, RingDistance
<1> HIDE DEF first, second, dist
<1>5. CASE first \in Slot /\ s_index <= first /\ ~flag[first]
           /\ \A s \in Slot : s_index <= s /\ s < first => flag[s]
  <2>1. Found = first
    BY <1>1, <1>5 DEF Found, first
  <2>2. \A s \in Slot : dist[s] < dist[first] => flag[s]
    BY <1>1, <1>5 DEF dist
  <2> QED
    BY <1>5, <1>4, <2>1, <2>2
<1>6. CASE first = MaxSession /\ \A s \in Slot : s_index <= s => flag[s]
  <2>1. CASE s_index = 0
    <3>1. Found = NULL
      BY <1>1, <1>3, <1>6, <2>1 DEF Found, first, second
    <3> QED
      BY <1>1, <1>6, <2>1, <3>1
  <2>2. CASE s_index # 0
    <3>1. Found = IF second >= s_index THEN NULL ELSE second
      BY <1>1, <1>6, <2>2 DEF Found, first, second
    <3>2. CASE second = s_index /\ \A s \in Slot : s < s_index => flag[s]
      BY <1>1, <1>6, <3>1, <3>2
    <3>3. CASE /\ second \in Slot /\ second < s_index /\ ~flag[second]
               /\ \A s \in Slot : s < second => flag[s]
      <4>1. \A s \in Slot : dist[s] < dist[second] => flag[s]
        BY <1>1, <1>6, <3>3 DEF dist
      <4>2. Found = second
        BY <1>1, <3>1, <3>3
      <4> QED
        BY <1>4, <3>3, <4>1, <4>2
    <3> QED
      BY <1>3, <3>2, <3>3
  <2> QED
    BY <2>1, <2>2
<1> QED
  BY <1>2, <1>5, <1>6

\* The step to the next slot of the ring stays in the pool.
LEMMA InSlot ==
    ASSUME NEW n \in Nat
    PROVE  n % MaxSession \in Slot
BY PoolAssumption DEF Slot

\* A walk is shorter than the pool, and not empty if its share allows.
LEMMA WalkLenBounds ==
    WalkLen \in Nat /\ WalkLen < MaxSession
    /\ (MaxSession >= WalkShare => WalkLen > 0)
BY PoolAssumption DEF WalkLen

\* The indexes stay in the pool.
LEMMA IndexesStep ==
    ASSUME Indexes, [Next]_vars
    PROVE  Indexes'
<1>1. CASE Malloc
  <2>1. Found = NULL \/ Found \in Slot
    BY FoundExact
  <2>2. Found \in Slot => IndexAfter(Found) \in Slot
    BY InSlot, PoolAssumption DEF IndexAfter, Slot
  <2> QED
    BY <1>1, <2>1, <2>2 DEF Malloc, Indexes
<1>2. CASE \E s \in Slot : Free(s)
  BY <1>2 DEF Free, Indexes
<1>3. CASE WalkSession
  <2>1. WalkEnd \in Slot
    <3>1. i_start + WalkLen \in Nat
      BY WalkLenBounds, PoolAssumption DEF Slot, Indexes
    <3> QED
      BY <3>1, InSlot DEF WalkEnd
  <2> QED
    BY <1>3, <2>1 DEF WalkSession, Indexes
<1>4. CASE UNCHANGED vars
  BY <1>4 DEF vars, Indexes
<1> QED
  BY <1>1, <1>2, <1>3, <1>4 DEF Next

\* They are in the pool always.
LEMMA IndexesInvariant == Spec => []Indexes
<1>1. Init => Indexes
  BY PoolAssumption DEF Init, Indexes, Slot
<1> QED
  BY <1>1, IndexesStep, PTL DEF Spec

\* malloc_client_session and malloc_server_session hand out a free slot
\* whenever there is one, the first from s_index on, in a pool of any size.
THEOREM ScanIsExact == Spec => MallocExact
<1>1. Indexes /\ [Next]_vars =>
        [Malloc =>
           \/ result' = NULL /\ \A s \in Slot : flag[s]
           \/ /\ result' \in Slot /\ ~flag[result']
              /\ \A s \in Slot :
                   (s - s_index) % MaxSession < (result' - s_index) % MaxSession
                      => flag[s]]_vars
  BY FoundExact DEF Malloc
<1> QED
  BY <1>1, IndexesInvariant, PTL DEF Spec, MallocExact

-----------------------------------------------------------------------------
(* The walk.                                                                *)

\* How far the walk has to go until it comes to slot s.
Ahead(s) == IF i_start <= s THEN s - i_start ELSE s - i_start + MaxSession

\* A slot that was passed over came nearer by a window each time.
Nearer ==
    /\ unseen \in [Slot -> Nat]
    /\ \A s \in Slot : unseen[s] * WalkLen + Ahead(s) < MaxSession

\* The end of the window, without the remainder.
LEMMA WindowEnd ==
    ASSUME Indexes
    PROVE  WalkEnd = IF i_start + WalkLen < MaxSession
                     THEN i_start + WalkLen
                     ELSE i_start + WalkLen - MaxSession
BY PoolAssumption, WalkLenBounds DEF WalkEnd, Slot, Indexes

\* A walk visits a slot or brings the index nearer to it.
LEMMA WalkBringsNearer ==
    ASSUME Indexes, NEW s \in Slot, WalkSession
    PROVE  /\ s \in Visited <=> Ahead(s) < WalkLen
           /\ s \notin Visited => Ahead(s)' = Ahead(s) - WalkLen
           /\ Ahead(s)' \in 0 .. MaxSession - 1
<1> DEFINE len == WalkLen
<1>1. len \in Nat /\ len < MaxSession
  BY WalkLenBounds
<1>2. /\ i_start \in Int /\ 0 <= i_start /\ i_start < MaxSession
      /\ s \in Int /\ 0 <= s /\ s < MaxSession /\ MaxSession \in Int
  BY PoolAssumption DEF Slot, Indexes
<1>3. WalkEnd = IF i_start + len < MaxSession
                THEN i_start + len ELSE i_start + len - MaxSession
  BY WindowEnd
<1>4. i_start' = WalkEnd
  BY DEF WalkSession
<1>5. s \in Visited <=> IF i_start <= WalkEnd
                        THEN i_start <= s /\ s < WalkEnd
                        ELSE i_start <= s \/ s < WalkEnd
  BY DEF Visited
<1> HIDE DEF len
<1>6. s \in Visited <=> Ahead(s) < len
  BY <1>1, <1>2, <1>3, <1>5 DEF Ahead
<1>7. s \notin Visited => Ahead(s)' = Ahead(s) - len
  BY <1>1, <1>2, <1>3, <1>4, <1>6 DEF Ahead
<1>8. Ahead(s)' \in 0 .. MaxSession - 1
  BY <1>1, <1>2, <1>3, <1>4 DEF Ahead
<1> QED
  BY <1>6, <1>7, <1>8 DEF len

\* Every step keeps the count of the walks still needed true.
LEMMA NearerStep ==
    ASSUME Indexes, Nearer, [Next]_vars
    PROVE  Nearer'
<1>1. CASE WalkSession
  <2>1. unseen' = [s \in Slot |-> IF s \in Visited THEN 0 ELSE unseen[s] + 1]
    BY <1>1 DEF WalkSession
  <2>2. unseen' \in [Slot -> Nat]
    BY <2>1 DEF Nearer
  <2>3. ASSUME NEW s \in Slot
        PROVE  unseen'[s] * WalkLen + Ahead(s)' < MaxSession
    <3> DEFINE u == unseen[s]
               len == WalkLen
               a == Ahead(s)
    <3>1. u \in Nat /\ len \in Nat /\ MaxSession \in Nat
      BY WalkLenBounds, PoolAssumption DEF Nearer
    <3>2. u * len + a < MaxSession
      BY DEF Nearer
    <3>3. a \in Int
      BY PoolAssumption DEF Ahead, Slot, Indexes
    <3>4. CASE s \in Visited
      <4>1. unseen'[s] = 0 /\ 0 * len = 0
        BY <2>1, <3>1, <3>4
      <4> QED
        BY <1>1, <3>1, <4>1, WalkBringsNearer
    <3>5. CASE s \notin Visited
      <4>1. unseen'[s] = u + 1 /\ Ahead(s)' = a - len
        BY <1>1, <2>1, <3>5, WalkBringsNearer
      <4> HIDE DEF u, len, a
      <4>2. (u + 1) * len = u * len + len
        BY <3>1
      <4>3. u * len \in Nat
        BY <3>1
      <4>4. (u + 1) * len + (a - len) < MaxSession
        BY <3>1, <3>2, <3>3, <4>2, <4>3
      <4> QED
        BY <4>1, <4>4 DEF len
    <3> QED
      BY <3>4, <3>5
  <2> QED
    BY <2>2, <2>3 DEF Nearer
<1>2. CASE Malloc \/ (\E s \in Slot : Free(s)) \/ UNCHANGED vars
  <2>1. i_start' = i_start /\ unseen' = unseen
    BY <1>2 DEF Malloc, Free, vars
  <2> QED
    BY <2>1 DEF Nearer, Ahead
<1> QED
  BY <1>1, <1>2 DEF Next

\* ceil(m / w) windows of w slots cover m slots.
LEMMA WindowsCover ==
    ASSUME NEW m \in Nat, NEW w \in Nat, w > 0, NEW u \in Nat, u * w < m
    PROVE  u < (m + w - 1) \div w
<1> DEFINE r == (m + w - 1) \div w
<1>1. r \in Nat /\ m <= r * w
  <2>1. m + w - 1 \in Nat
    OBVIOUS
  <2>2. r \in Nat
    BY <2>1
  <2>3. (m + w - 1) = r * w + ((m + w - 1) % w) /\ (m + w - 1) % w \in 0 .. w - 1
    BY <2>1, SMT
  <2> QED
    BY <2>2, <2>3
<1> HIDE DEF r
<1>2. ASSUME u >= r PROVE FALSE
  <2>1. PICK d \in Nat : u = r + d
    <3>1. u - r \in Nat /\ u = r + (u - r)
      BY <1>1, <1>2
    <3> QED
      BY <3>1
  <2>2. u * w = r * w + d * w /\ d * w \in Nat /\ r * w \in Nat
    BY <1>1, <2>1
  <2> QED
    BY <1>1, <2>2
<1>3. u < r
  BY <1>1, <1>2
<1> QED
  BY <1>3 DEF r

\* walk_session comes by every slot within one round, whatever the size of the
\* pool, provided that a fifth of it is at least one slot.
THEOREM WalkMissesNothing == MaxSession >= WalkShare => (Spec => []WalkComesRound)
<1> SUFFICES ASSUME MaxSession >= WalkShare
             PROVE  Spec => []WalkComesRound
  OBVIOUS
<1>1. Init => Nearer
  <2> SUFFICES ASSUME Init PROVE Nearer
    OBVIOUS
  <2>1. WalkLen \in Nat /\ 0 * WalkLen = 0
    BY WalkLenBounds
  <2> QED
    BY <2>1, PoolAssumption DEF Init, Nearer, Ahead, Slot
<1>2. Indexes /\ Nearer /\ [Next]_vars => Nearer'
  BY NearerStep
<1>3. Indexes /\ Nearer => WalkComesRound
  <2> SUFFICES ASSUME Indexes, Nearer, NEW s \in Slot
               PROVE  unseen[s] < Rounds
    BY DEF WalkComesRound
  <2>1. Ahead(s) \in Nat
    BY PoolAssumption DEF Ahead, Slot, Indexes
  <2>2. unseen[s] \in Nat /\ WalkLen \in Nat /\ WalkLen > 0 /\ MaxSession \in Nat
    BY WalkLenBounds, PoolAssumption DEF Nearer
  <2>3. unseen[s] * WalkLen + Ahead(s) < MaxSession
    BY DEF Nearer
  <2>4. unseen[s] * WalkLen \in Nat
    BY <2>2
  <2>5. unseen[s] * WalkLen < MaxSession
    BY <2>1, <2>2, <2>3, <2>4
  <2> QED
    BY <2>2, <2>5, WindowsCover DEF Rounds
<1> QED
  BY <1>1, <1>2, <1>3, IndexesInvariant, PTL DEF Spec

\* With it the whole state keeps its type, the counters of the walk included.
THEOREM TypeCorrect == MaxSession >= WalkShare => (Spec => []TypeOK)
<1> SUFFICES ASSUME MaxSession >= WalkShare
             PROVE  Spec => []TypeOK
  OBVIOUS
<1>1. Spec => []WalkComesRound
  BY WalkMissesNothing
<1>2. Init => unseen \in [Slot -> Nat]
  BY DEF Init
<1>3. unseen \in [Slot -> Nat] /\ [Next]_vars => (unseen \in [Slot -> Nat])'
  BY DEF Next, Malloc, Free, WalkSession, vars
<1>4. Indexes /\ unseen \in [Slot -> Nat] /\ WalkComesRound => TypeOK
  <2>1. Rounds \in Nat
    <3>1. WalkLen \in Nat /\ WalkLen > 0
      BY WalkLenBounds
    <3>2. MaxSession + WalkLen - 1 \in Nat
      BY <3>1, PoolAssumption
    <3> QED
      BY <3>1, <3>2 DEF Rounds
  <2> QED
    BY <2>1 DEF Indexes, WalkComesRound, TypeOK
<1> QED
  BY <1>1, <1>2, <1>3, <1>4, IndexesInvariant, PTL DEF Spec
=============================================================================
