---------------------------- MODULE TunnelProofs ----------------------------
(***************************************************************************)
(* The two programs in a row, for every key, every size of buffers, all    *)
(* requests and answers: the proof that what arrives at either end is the  *)
(* beginning of what the other end has sent.                               *)
(***************************************************************************)
EXTENDS Tunnel, TLAPS, SequenceTheorems

-----------------------------------------------------------------------------
(* Pieces of a sequence.                                                    *)

\* s is the piece of the whole that follows its first `from` bytes.
Run(s, whole, from) ==
    /\ s \in Seq(Byte) /\ whole \in Seq(Byte) /\ from \in Nat
    /\ from + Len(s) <= Len(whole)
    /\ \A i \in 1 .. Len(s) : s[i] = whole[from + i]

LEMMA RunNothing ==
    ASSUME NEW whole \in Seq(Byte), NEW from \in Nat, from <= Len(whole)
    PROVE  Run(<<>>, whole, from)
BY DEF Run

\* What is left of a piece without its first byte.
LEMMA RunTail ==
    ASSUME NEW s, NEW whole, NEW from, Run(s, whole, from), s # <<>>
    PROVE  /\ Head(s) = whole[from + 1] /\ from < Len(whole)
           /\ Len(Tail(s)) = Len(s) - 1
           /\ Run(Tail(s), whole, from + 1)
BY DEF Run

\* Two pieces that follow one another are one piece.
LEMMA RunOn ==
    ASSUME NEW s, NEW w, NEW whole, NEW from, Run(s, whole, from),
           NEW next, next = from + Len(s), Run(w, whole, next)
    PROVE  Run(s \o w, whole, from) /\ Len(s \o w) = Len(s) + Len(w)
BY DEF Run

\* What is given on top of the first bytes is the piece that follows them.
LEMMA GivenRun ==
    ASSUME NEW out \in Seq(Byte), NEW w \in Seq(Byte), NEW whole \in Seq(Byte),
           Len(out \o w) = Len(out) + Len(w), Len(out \o w) <= Len(whole),
           out \o w = SubSeq(whole, 1, Len(out \o w))
    PROVE  Run(w, whole, Len(out)) /\ Run(out \o w, whole, 0)
<1> DEFINE t == out \o w
<1>1. /\ Len(out) \in Nat /\ Len(w) \in Nat /\ Len(whole) \in Nat
      /\ t \in Seq(Byte) /\ Len(t) = Len(out) + Len(w)
      /\ \A i \in 1 .. Len(out) + Len(w) :
           t[i] = IF i <= Len(out) THEN out[i] ELSE w[i - Len(out)]
  OBVIOUS
<1>2. Run(w, whole, Len(out))
  BY <1>1 DEF Run
<1>3. Run(t, whole, 0)
  BY DEF Run
<1> QED
  BY <1>2, <1>3

\* A piece at the front is a prefix of every longer beginning.
LEMMA RunPrefix ==
    ASSUME NEW s, NEW whole, Run(s, whole, 0), NEW n \in Nat, Len(s) <= n,
           n <= Len(whole)
    PROVE  StartOf(s, SubSeq(whole, 1, n))
<1> DEFINE m == Len(s)
<1>1. /\ s \in Seq(Byte) /\ whole \in Seq(Byte) /\ m \in Nat /\ Len(whole) \in Nat
      /\ \A i \in 1 .. m : s[i] = whole[0 + i]
  BY DEF Run
<1> QED
  BY <1>1 DEF StartOf

-----------------------------------------------------------------------------
(* The key, and the two programs as instances.                              *)

LEMMA Sides ==
    /\ Cli = "cli" /\ Svr = "svr" /\ Cli # Svr
    /\ C!Cli = Cli /\ C!Svr = Svr /\ S!Cli = Cli /\ S!Svr = Svr
    /\ C!Side = {Cli, Svr} /\ S!Side = {Cli, Svr}
    /\ C!Other(Cli) = Svr /\ C!Other(Svr) = Cli
    /\ S!Other(Cli) = Svr /\ S!Other(Svr) = Cli
    /\ C!Slot = {0} /\ S!Slot = {0}
BY DEF Cli, Svr, C!Side, S!Side, C!Cli, C!Svr, S!Cli, S!Svr, C!Other, S!Other,
       C!Slot, S!Slot

LEMMA UnkeyType ==
    /\ Unkey \in [Byte -> Byte]
    /\ \A b \in Byte : Unkey[Key[b]] = b
BY KeyAssumption DEF Unkey

LEMMA SealType ==
    ASSUME NEW s \in Seq(Byte)
    PROVE  /\ Seal(s) \in Seq(Byte) /\ Len(Seal(s)) = Len(s)
           /\ \A i \in 1 .. Len(s) : Seal(s)[i] = Key[s[i]]
BY KeyAssumption DEF Seal

\* Sealing goes byte by byte.
LEMMA SealConcat ==
    ASSUME NEW s \in Seq(Byte), NEW t \in Seq(Byte)
    PROVE  Seal(s \o t) = Seal(s) \o Seal(t)
<1> DEFINE l == Seal(s \o t)
           r == Seal(s) \o Seal(t)
<1>1. /\ Len(s) \in Nat /\ Len(t) \in Nat
      /\ s \o t \in Seq(Byte) /\ Len(s \o t) = Len(s) + Len(t)
      /\ \A i \in 1 .. Len(s) + Len(t) :
           (s \o t)[i] = IF i <= Len(s) THEN s[i] ELSE t[i - Len(s)]
  OBVIOUS
<1>2. /\ Seal(s) \in Seq(Byte) /\ Len(Seal(s)) = Len(s)
      /\ Seal(t) \in Seq(Byte) /\ Len(Seal(t)) = Len(t)
      /\ \A i \in 1 .. Len(s) : Seal(s)[i] = Key[s[i]]
      /\ \A i \in 1 .. Len(t) : Seal(t)[i] = Key[t[i]]
  BY SealType
<1>3. /\ l \in Seq(Byte) /\ Len(l) = Len(s) + Len(t)
      /\ \A i \in 1 .. Len(s) + Len(t) : l[i] = Key[(s \o t)[i]]
  BY <1>1, SealType
<1>4. /\ r \in Seq(Byte) /\ Len(r) = Len(s) + Len(t)
      /\ \A i \in 1 .. Len(s) + Len(t) :
           r[i] = IF i <= Len(s) THEN Seal(s)[i] ELSE Seal(t)[i - Len(s)]
  <2>1. /\ r \in Seq(Byte) /\ Len(r) = Len(Seal(s)) + Len(Seal(t))
        /\ \A i \in 1 .. Len(Seal(s)) + Len(Seal(t)) :
             r[i] = IF i <= Len(Seal(s)) THEN Seal(s)[i]
                    ELSE Seal(t)[i - Len(Seal(s))]
    BY <1>2, ConcatProperties
  <2> HIDE DEF r
  <2> QED
    BY <1>2, <2>1
<1> HIDE DEF l, r
<1>5. \A i \in 1 .. Len(s) + Len(t) : l[i] = r[i]
  <2> TAKE i \in 1 .. Len(s) + Len(t)
  <2>1. CASE i <= Len(s)
    <3>1. i \in 1 .. Len(s)
      BY <2>1
    <3>2. l[i] = Key[(s \o t)[i]] /\ (s \o t)[i] = s[i]
      BY <1>3, <2>1
    <3>3. r[i] = Seal(s)[i]
      BY <1>4, <2>1
    <3>4. Seal(s)[i] = Key[s[i]]
      BY <1>2, <3>1
    <3> QED
      BY <3>2, <3>3, <3>4
  <2>2. CASE ~(i <= Len(s))
    <3>1. i - Len(s) \in 1 .. Len(t)
      BY <2>2
    <3>2. l[i] = Key[(s \o t)[i]] /\ (s \o t)[i] = t[i - Len(s)]
      BY <1>3, <2>2
    <3>3. r[i] = Seal(t)[i - Len(s)]
      BY <1>4, <2>2
    <3>4. Seal(t)[i - Len(s)] = Key[t[i - Len(s)]]
      BY <1>2, <3>1
    <3> QED
      BY <3>2, <3>3, <3>4
  <2> QED
    BY <2>1, <2>2
<1>6. l = r
  BY <1>3, <1>4, <1>5
<1> QED
  BY <1>6 DEF l, r

\* The client seals what its browser sends and opens what its server sends,
LEMMA ClientTranslates ==
    ASSUME NEW s \in Seq(Byte)
    PROVE  C!Translate(Cli, s) = Seal(s) /\ C!Translate(Svr, Seal(s)) = s
<1>1. C!Translate(Cli, s) = Seal(s)
  BY Sides DEF C!Translate, Seal
<1> DEFINE t == C!Translate(Svr, Seal(s))
<1>2. t = [i \in DOMAIN Seal(s) |-> Unkey[Seal(s)[i]]]
  BY Sides DEF C!Translate
<1>3. Seal(s) = [i \in DOMAIN s |-> Key[s[i]]]
  BY DEF Seal
<1>4. DOMAIN Seal(s) = 1 .. Len(s)
  BY <1>3
<1>5. \A i \in 1 .. Len(s) : Unkey[Seal(s)[i]] = s[i]
  BY <1>3, UnkeyType
<1>6. t = s
  BY <1>2, <1>4, <1>5
<1> QED
  BY <1>1, <1>6

\* the server the other way round.
LEMMA ServerTranslates ==
    ASSUME NEW s \in Seq(Byte)
    PROVE  S!Translate(Svr, s) = Seal(s) /\ S!Translate(Cli, Seal(s)) = s
<1>1. S!Translate(Svr, s) = C!Translate(Cli, s)
  BY Sides DEF S!Translate, C!Translate
<1>2. S!Translate(Cli, Seal(s)) = C!Translate(Svr, Seal(s))
  BY Sides DEF S!Translate, C!Translate
<1> QED
  BY <1>1, <1>2, ClientTranslates

LEMMA AnswerType ==
    ASSUME NEW q \in Requests
    PROVE  LET front == IF q.connect THEN Established ELSE <<>> IN
           /\ front \in Seq(Byte) /\ AnswerTo(q) = front \o Reply
           /\ AnswerTo(q) \in Seq(Byte)
           /\ Len(AnswerTo(q)) = Len(front) + Len(Reply)
BY TunnelAssumption DEF AnswerTo

LEMMA SealedType ==
    ASSUME NEW q \in Requests
    PROVE  /\ q \in C!RequestType /\ q.bytes \in Seq(Byte)
           /\ Sealed(q) \in S!RequestType
           /\ Sealed(q).end = q.end
           /\ Sealed(q).connect = q.connect
           /\ Sealed(q).bytes = Seal(q.bytes)
<1>1. q \in C!RequestType
  BY TunnelAssumption
<1>2. Seal(q.bytes) \in Seq(Byte)
  BY <1>1, SealType DEF C!RequestType
<1> QED
  BY <1>1, <1>2 DEF Sealed, C!RequestType, S!RequestType

\* What the modules of the two programs assume of their constants.
LEMMA Numbers ==
    /\ FALSE \in BOOLEAN /\ TRUE \in BOOLEAN
    /\ 1 \in Nat \ {0} /\ 1 \in Nat /\ 0 \in Nat
    /\ 0 < 1
    /\ {0} \subseteq Nat
    /\ 2 \in Nat /\ 2 >= 2
OBVIOUS

LEMMA Buffers == ReadMax \in Nat \ {0} /\ SndBuf \in Nat \ {0}
BY TunnelAssumption

LEMMA Heads == HeadMax \in Nat \ {0} /\ Established \in Seq(Byte)
BY TunnelAssumption

LEMMA ClientKeys ==
    [x \in {"cli", "svr"} |-> IF x = "cli" THEN Key ELSE Unkey]
      \in [C!Side -> [Byte -> Byte]]
BY UnkeyType, KeyAssumption, Sides

LEMMA ServerKeys ==
    [x \in {"cli", "svr"} |-> IF x = "cli" THEN Unkey ELSE Key]
      \in [S!Side -> [Byte -> Byte]]
BY UnkeyType, KeyAssumption, Sides

LEMMA ClientTraffic ==
    /\ Requests # {}
    /\ Requests \subseteq C!RequestType
    /\ [q \in Requests |-> Seal(AnswerTo(q))] \in [Requests -> Seq(Byte)]
BY AnswerType, SealType, TunnelAssumption

LEMMA ServerTraffic ==
    /\ {Sealed(q) : q \in Requests} # {}
    /\ {Sealed(q) : q \in Requests} \subseteq S!RequestType
    /\ [q \in {Sealed(q) : q \in Requests} |-> Reply]
       \in [{Sealed(q) : q \in Requests} -> Seq(Byte)]
BY SealedType, TunnelAssumption

LEMMA ClientConstants ==
    /\ C!CipherOK /\ C!TrafficOK /\ C!BuffersOK
    /\ C!PoolOK /\ C!TimeOK /\ C!EnvironmentOK
BY ClientTraffic, ClientKeys, Buffers
   DEF C!CipherOK, C!TrafficOK, C!BuffersOK, C!PoolOK, C!TimeOK, C!EnvironmentOK

LEMMA ServerConstants ==
    /\ S!CipherOK /\ S!TrafficOK /\ S!BuffersOK
    /\ S!PoolOK /\ S!TimeOK /\ S!EnvironmentOK /\ S!HeadOK
BY ServerTraffic, ServerKeys, Heads, Buffers
   DEF S!CipherOK, S!TrafficOK, S!BuffersOK, S!PoolOK, S!TimeOK, S!EnvironmentOK,
       S!HeadOK

\* The length of a piece.
LEMMA PieceOf ==
    ASSUME NEW p \in Seq(Byte), NEW a \in Nat, NEW b \in Nat, a <= b,
           b <= Len(p)
    PROVE  SubSeq(p, a + 1, b) \in Seq(Byte) /\ Len(SubSeq(p, a + 1, b)) = b - a
BY C!Pieces, ClientConstants, Zenon

LEMMA ClientSoundStep ==
    ASSUME C!Sound, [C!Next]_(C!vars)
    PROVE  C!Sound'
BY C!SoundStep, ClientConstants, Zenon

LEMMA ServerSoundStep ==
    ASSUME S!Sound, S!Quiet, [S!Next]_(S!vars)
    PROVE  S!Sound' /\ S!Quiet'
BY S!SoundStep, ServerConstants, Zenon

LEMMA SoundAtStart ==
    ASSUME C!Init, S!Init
    PROVE  C!Sound /\ S!Sound /\ S!Quiet
<1>1. C!Sound
  BY C!SoundInit, ClientConstants, Zenon
<1>2. S!Sound /\ S!Quiet
  BY S!SoundInit, ServerConstants, Zenon
<1> QED
  BY <1>1, <1>2

\* What is known of the two slots before a step,
LEMMA NearSlot ==
    ASSUME C!Sound
    PROVE  /\ C!SlotOK(near) /\ C!Streams(near) /\ C!Kept(near)
           /\ near \in C!SlotType /\ c_conn \in [{0} -> C!SlotType]
           /\ \A x \in {Cli, Svr} : /\ near.fd[x] <=> near.sock[x].st # "none"
                                    /\ near.fd[x] => near.flag
                                    /\ near.sock[x] \in C!SocketType
                                    /\ near.taken[x] \in Nat
<1>1. 0 \in C!Slot /\ c_conn \in [C!Slot -> C!SlotType]
  BY Sides DEF C!Sound, C!Inv, C!TypeOK
<1>2. C!SlotOK(near) /\ C!Streams(near) /\ C!Kept(near)
  BY <1>1, C!SoundSlot, ClientConstants, Zenon
     DEF near
<1> QED
  BY <1>1, <1>2, Sides DEF near, C!SlotOK, C!SlotHoldsWhatItOwns, C!SlotType

LEMMA FarSlot ==
    ASSUME S!Sound
    PROVE  /\ S!SlotOK(far) /\ S!Streams(far) /\ S!Kept(far)
           /\ far \in S!SlotType /\ s_conn \in [{0} -> S!SlotType]
           /\ \A x \in {Cli, Svr} : /\ far.fd[x] <=> far.sock[x].st # "none"
                                    /\ far.fd[x] => far.flag
                                    /\ far.sock[x] \in S!SocketType
                                    /\ far.taken[x] \in Nat
<1>1. 0 \in S!Slot /\ s_conn \in [S!Slot -> S!SlotType]
  BY Sides DEF S!Sound, S!Inv, S!TypeOK
<1>2. S!SlotOK(far) /\ S!Streams(far) /\ S!Kept(far)
  BY <1>1, S!SoundSlot, ServerConstants, Zenon
     DEF far
<1> QED
  BY <1>1, <1>2, Sides DEF far, S!SlotOK, S!SlotHoldsWhatItOwns, S!SlotType

\* and after it.
LEMMA NearSlotAfter ==
    ASSUME C!Sound'
    PROVE  /\ C!SlotOK(near') /\ C!Streams(near') /\ C!Kept(near')
           /\ near' \in C!SlotType /\ c_conn' \in [{0} -> C!SlotType]
           /\ \A x \in {Cli, Svr} : /\ near'.fd[x] <=> near'.sock[x].st # "none"
                                    /\ near'.fd[x] => near'.flag
                                    /\ near'.sock[x] \in C!SocketType
                                    /\ near'.taken[x] \in Nat
<1>1. 0 \in C!Slot /\ c_conn' \in [C!Slot -> C!SlotType]
  BY Sides DEF C!Sound, C!Inv, C!TypeOK
<1>2. C!SlotOK(near') /\ C!Streams(near') /\ C!Kept(near')
  BY <1>1, C!SoundSlotAfter, ClientConstants, Zenon
     DEF near
<1> QED
  BY <1>1, <1>2, Sides DEF near, C!SlotOK, C!SlotHoldsWhatItOwns, C!SlotType

LEMMA FarSlotAfter ==
    ASSUME S!Sound'
    PROVE  /\ S!SlotOK(far') /\ S!Streams(far') /\ S!Kept(far')
           /\ far' \in S!SlotType /\ s_conn' \in [{0} -> S!SlotType]
           /\ \A x \in {Cli, Svr} : /\ far'.fd[x] <=> far'.sock[x].st # "none"
                                    /\ far'.fd[x] => far'.flag
                                    /\ far'.sock[x] \in S!SocketType
                                    /\ far'.taken[x] \in Nat
<1>1. 0 \in S!Slot /\ s_conn' \in [S!Slot -> S!SlotType]
  BY Sides DEF S!Sound, S!Inv, S!TypeOK
<1>2. S!SlotOK(far') /\ S!Streams(far') /\ S!Kept(far')
  BY <1>1, S!SoundSlotAfter, ServerConstants, Zenon
     DEF far
<1> QED
  BY <1>1, <1>2, Sides DEF far, S!SlotOK, S!SlotHoldsWhatItOwns, S!SlotType

-----------------------------------------------------------------------------
(* One event of either program, seen from outside.                          *)

\* What the client's slot and the two writers see of an event.
NearMoves(e) ==
    /\ near.flag
    /\ near'.flag => near'.req = near.req /\ near'.status[Cli] # "INIT"
    /\ \A x \in {Cli, Svr} :
         /\ ClientWrites(x, e) \in Seq(Byte)
         /\ ClientWrites(x, e) # <<>> => near.fd[x] /\ ~near.sock[x].rst
         /\ near'.flag => C!Pending(near', x) <= C!Pending(near, x)
         /\ near'.fd[x] =>
              \/ near.fd[x] /\ C!Given(near.sock[x], near'.sock[x], ClientWrites(x, e))
              \/ /\ x = Svr /\ ~near.fd[x] /\ near.status[Cli] = "INIT"
                 /\ ClientWrites(x, e) = <<>> /\ C!Opened(near'.sock[x])

LEMMA ClientSees ==
    ASSUME C!Sound, C!Sound', NEW e \in c_batch,
           C!HandleSvrEvent(e) \/ C!HandleCliEvent(e)
    PROVE  NearMoves(e)
<1>1. C!Inv /\ C!Discipline /\ C!Streaming
  BY DEF C!Sound
<1>2. e.slot = 0
  BY <1>1, Sides DEF C!Inv, C!TypeOK, C!EventType
<1>3. /\ C!EventSeen(e)
      /\ near'.flag => near'.status[Cli] # "INIT"
      /\ near'.flag /\ near'.fd[Svr] /\ ~near.fd[Svr] => near.status[Cli] = "INIT"
  <2>1. /\ C!EventSeen(e)
        /\ c_conn'[e.slot].flag => c_conn'[e.slot].status[C!Cli] # "INIT"
        /\ c_conn'[e.slot].flag /\ c_conn'[e.slot].fd[C!Svr]
             /\ ~c_conn[e.slot].fd[C!Svr] => c_conn[e.slot].status[C!Cli] = "INIT"
    BY <1>1, C!EventHandled, ClientConstants, Zenon
  <2> QED
    BY <1>2, <2>1, Sides DEF near
<1> DEFINE w == C!WrittenBy(near, e)
<1>4. /\ near.flag /\ e.tag \in {Cli, Svr} /\ w \in Seq(Byte)
      /\ w # <<>> => near.fd[e.tag] /\ ~near.sock[e.tag].rst
      /\ C!Handled(near, near', C!GivesOnly(e.tag, w))
  BY <1>3, Sides DEF C!EventSeen, near
<1> HIDE DEF w
<1>5. \A x \in {Cli, Svr} : C!GivesOnly(e.tag, w)[x] = ClientWrites(x, e)
  BY Sides DEF C!GivesOnly, ClientWrites, w
<1>6. \A x \in {Cli, Svr} :
        /\ ClientWrites(x, e) \in Seq(Byte)
        /\ ClientWrites(x, e) # <<>> => near.fd[x] /\ ~near.sock[x].rst
  BY <1>4 DEF ClientWrites, w
<1>7. near'.flag =>
        /\ near'.req = near.req
        /\ \A x \in {Cli, Svr} :
             /\ C!Pending(near', x) <= C!Pending(near, x)
             /\ near'.fd[x] =>
                  \/ near.fd[x] /\ C!Given(near.sock[x], near'.sock[x], ClientWrites(x, e))
                  \/ /\ ~near.fd[x] /\ x = Svr /\ ClientWrites(x, e) = <<>>
                     /\ C!Opened(near'.sock[x])
  BY <1>4, <1>5, Sides DEF C!Handled
<1>8. \A x \in {Cli, Svr} : near'.fd[x] => near'.flag
  BY NearSlotAfter
<1> QED
  BY <1>3, <1>4, <1>6, <1>7, <1>8 DEF NearMoves

\* The same of the server.
FarMoves(e) ==
    /\ far.flag
    /\ far'.flag =>
         /\ far'.req = far.req
         /\ S!HeaderDone(far) => S!HeaderDone(far') /\ far'.head = far.head
    /\ \A x \in {Cli, Svr} :
         /\ ServerWrites(x, e) \in Seq(Byte)
         /\ ServerWrites(x, e) # <<>> =>
              far.fd[x] /\ ~far.sock[x].rst /\ S!HeaderDone(far)
         /\ far'.flag => S!Pending(far', x) <= S!Pending(far, x)
         /\ far'.fd[x] =>
              \/ far.fd[x] /\ S!Given(far.sock[x], far'.sock[x], ServerWrites(x, e))
              \/ /\ x = Svr /\ ~far.fd[x] /\ ~S!HeaderDone(far)
                 /\ ServerWrites(x, e) = <<>> /\ S!Opened(far'.sock[x])

LEMMA ServerSees ==
    ASSUME S!Sound, S!Sound', S!Quiet, NEW e \in s_batch,
           S!HandleSvrEvent(e) \/ S!HandleCliEvent(e)
    PROVE  FarMoves(e)
<1>1. S!Inv /\ S!Order
  BY DEF S!Sound
<1>2. e.slot = 0
  BY <1>1, Sides DEF S!Inv, S!TypeOK, S!EventType
<1>3. S!EventSeen(e)
  BY <1>1, S!EventHandled, ServerConstants, Zenon
<1>4. /\ far'.flag /\ S!HeaderDone(far) => S!HeaderDone(far') /\ far'.head = far.head
      /\ far'.flag /\ far'.fd[Svr] /\ ~far.fd[Svr] => ~S!HeaderDone(far)
  <2>1. /\ s_conn'[e.slot].flag /\ S!HeaderDone(s_conn[e.slot])
             => /\ S!HeaderDone(s_conn'[e.slot])
                /\ s_conn'[e.slot].head = s_conn[e.slot].head
        /\ s_conn'[e.slot].flag /\ s_conn'[e.slot].fd[S!Svr]
             /\ ~s_conn[e.slot].fd[S!Svr] => ~S!HeaderDone(s_conn[e.slot])
    BY <1>1, S!HeaderStaysDone, ServerConstants, Zenon
  <2> QED
    BY <1>2, <2>1, Sides DEF far
<1> DEFINE w == S!WrittenBy(far, e)
<1>5. /\ far.flag /\ e.tag \in {Cli, Svr} /\ w \in Seq(Byte)
      /\ w # <<>> => far.fd[e.tag] /\ ~far.sock[e.tag].rst
      /\ S!Handled(far, far', S!GivesOnly(e.tag, w))
  BY <1>3, Sides DEF S!EventSeen, far
<1>6. w # <<>> => S!HeaderDone(far)
  <2>1. S!WrittenBy(s_conn[e.slot], e) # <<>> => S!HeaderDone(s_conn[e.slot])
    BY S!EventPromised, ServerConstants, Zenon
  <2> QED
    BY <1>2, <2>1 DEF far
<1> HIDE DEF w
<1>7. \A x \in {Cli, Svr} : S!GivesOnly(e.tag, w)[x] = ServerWrites(x, e)
  BY Sides DEF S!GivesOnly, ServerWrites, w
<1>8. \A x \in {Cli, Svr} :
        /\ ServerWrites(x, e) \in Seq(Byte)
        /\ ServerWrites(x, e) # <<>> =>
             far.fd[x] /\ ~far.sock[x].rst /\ S!HeaderDone(far)
  BY <1>5, <1>6 DEF ServerWrites, w
<1>9. far'.flag =>
        /\ far'.req = far.req
        /\ \A x \in {Cli, Svr} :
             /\ S!Pending(far', x) <= S!Pending(far, x)
             /\ far'.fd[x] =>
                  \/ far.fd[x] /\ S!Given(far.sock[x], far'.sock[x], ServerWrites(x, e))
                  \/ /\ ~far.fd[x] /\ x = Svr /\ ServerWrites(x, e) = <<>>
                     /\ S!Opened(far'.sock[x])
  BY <1>5, <1>7, Sides DEF S!Handled
<1>10. \A x \in {Cli, Svr} : far'.fd[x] => far'.flag
  BY FarSlotAfter
<1> QED
  BY <1>4, <1>5, <1>8, <1>9, <1>10 DEF FarMoves

\* All that the client may ever give to either side,
LEMMA ClientDue ==
    ASSUME NEW c, c.req = req, req \in Requests
    PROVE  /\ C!Due(c, Svr, <<>>, 0) = Answer
           /\ C!Due(c, Cli, <<>>, 0) = Seal(req.bytes)
           /\ C!PeerBytes(c, Cli) = req.bytes
           /\ C!PeerBytes(c, Svr) = Seal(Answer)
           /\ req.bytes \in Seq(Byte) /\ Answer \in Seq(Byte)
<1>1. /\ req.bytes \in Seq(Byte) /\ AnswerTo(req) \in Seq(Byte)
      /\ Seal(AnswerTo(req)) \in Seq(Byte) /\ Seal(req.bytes) \in Seq(Byte)
  BY AnswerType, SealedType, SealType
<1>2. C!PeerBytes(c, Cli) = req.bytes /\ C!PeerBytes(c, Svr) = Seal(AnswerTo(req))
  BY Sides DEF C!PeerBytes
<1>3. \A s \in Seq(Byte) : SubSeq(s, 0 + 1, Len(s)) = s /\ <<>> \o s = s
  OBVIOUS
<1>4. C!Due(c, Svr, <<>>, 0) = <<>> \o C!Translate(Svr, Seal(AnswerTo(req)))
  BY <1>1, <1>2, <1>3 DEF C!Due
<1>5. C!Due(c, Cli, <<>>, 0) = <<>> \o C!Translate(Cli, req.bytes)
  BY <1>1, <1>2, <1>3 DEF C!Due
<1> QED
  BY <1>1, <1>2, <1>4, <1>5, ClientTranslates DEF Answer

\* so that what it writes in an event continues what it has written.
LEMMA ClientContinues ==
    ASSUME C!Sound, near.req = req, req \in Requests, NEW e \in c_batch,
           C!HandleSvrEvent(e) \/ C!HandleCliEvent(e)
    PROVE  LET v == ClientWrites(Cli, e)
               w == ClientWrites(Svr, e)
           IN  /\ v # <<>> =>
                    /\ Run(near.sock[Cli].out \o v, Answer, 0)
                    /\ Len(near.sock[Cli].out \o v) <= near.taken[Svr]
               /\ w # <<>> =>
                    /\ Run(w, Seal(req.bytes), Len(near.sock[Svr].out))
                    /\ Len(near.sock[Svr].out) + Len(w) <= near.taken[Cli]
<1>1. C!Inv
  BY DEF C!Sound
<1>2. e.slot = 0
  BY <1>1, Sides DEF C!Inv, C!TypeOK, C!EventType
<1> DEFINE w == C!WrittenBy(near, e)
           x == C!Other(e.tag)
<1>3. w # <<>> => C!Promised(near, e.tag, w, C!Due(near, x, <<>>, 0), near.taken[x])
  <2>1. C!WrittenBy(c_conn[e.slot], e) # <<>> =>
          C!Promised(c_conn[e.slot], e.tag, C!WrittenBy(c_conn[e.slot], e),
                     C!Due(c_conn[e.slot], C!Other(e.tag), <<>>, 0),
                     c_conn[e.slot].taken[C!Other(e.tag)])
    BY C!EventPromised, ClientConstants, Zenon
  <2> QED
    BY <1>2, <2>1 DEF near
<1>4. w \in Seq(Byte) /\ e.tag \in {Cli, Svr}
  <2>1. C!WrittenBy(c_conn[e.slot], e) \in Seq(Byte) /\ e.tag \in C!Side
    <3>1. C!Inv /\ C!Discipline /\ C!Streaming
      BY DEF C!Sound
    <3>2. C!EventSeen(e)
      BY <3>1, C!EventHandled, ClientConstants, Zenon
    <3> QED
      BY <3>2 DEF C!EventSeen
  <2> QED
    BY <1>2, <2>1, Sides DEF near
<1>5. /\ near.sock[Cli].out \in Seq(Byte) /\ near.sock[Svr].out \in Seq(Byte)
      /\ near.taken[Cli] \in Nat /\ near.taken[Svr] \in Nat
  BY NearSlot DEF C!SocketType
<1>6. /\ C!Due(near, Svr, <<>>, 0) = Answer
      /\ C!Due(near, Cli, <<>>, 0) = Seal(req.bytes)
      /\ req.bytes \in Seq(Byte) /\ Answer \in Seq(Byte)
      /\ Seal(req.bytes) \in Seq(Byte)
  BY ClientDue, SealType
<1> HIDE DEF w, x
<1>7. ASSUME NEW y \in {Cli, Svr}, NEW v \in Seq(Byte), NEW whole \in Seq(Byte),
             NEW most \in Nat, C!Promised(near, y, v, whole, most)
      PROVE  LET out == near.sock[y].out IN
             /\ Run(v, whole, Len(out)) /\ Run(out \o v, whole, 0)
             /\ Len(out \o v) <= most /\ Len(out) + Len(v) <= most
  <2> DEFINE out == near.sock[y].out
  <2>1. /\ out \in Seq(Byte) /\ Len(out \o v) = Len(out) + Len(v)
        /\ Len(out \o v) <= most /\ most <= Len(whole)
        /\ out \o v = SubSeq(whole, 1, Len(out \o v))
    BY <1>5, <1>7 DEF C!Promised
  <2> HIDE DEF out
  <2>2. Len(out \o v) <= Len(whole) /\ Len(out) + Len(v) <= most
    BY <2>1
  <2>3. Run(v, whole, Len(out)) /\ Run(out \o v, whole, 0)
    BY <2>1, <2>2, GivenRun
  <2> QED
    BY <2>1, <2>3 DEF out
<1>8. CASE e.tag = Cli
  <2>1. ClientWrites(Cli, e) = w /\ ClientWrites(Svr, e) = <<>> /\ x = Svr
    BY <1>8, Sides DEF ClientWrites, w, x
  <2> QED
    BY <1>3, <1>4, <1>5, <1>6, <1>7, <1>8, <2>1
<1>9. CASE e.tag = Svr
  <2>1. ClientWrites(Svr, e) = w /\ ClientWrites(Cli, e) = <<>> /\ x = Cli
    BY <1>9, Sides DEF ClientWrites, w, x
  <2> QED
    BY <1>3, <1>4, <1>5, <1>6, <1>7, <1>9, <2>1
<1> QED
  BY <1>4, <1>8, <1>9

\* The answer to CONNECT, and how much of the request is not for the host.
Greeting == IF req.connect THEN Established ELSE <<>>
Skip == IF req.connect THEN req.end ELSE 0

LEMMA Wanted ==
    ASSUME req \in Requests
    PROVE  /\ Greeting \in Seq(Byte) /\ Reply \in Seq(Byte)
           /\ Answer = Greeting \o Reply /\ Answer \in Seq(Byte)
           /\ Len(Answer) = Len(Greeting) + Len(Reply)
           /\ Skip \in Nat /\ Skip <= Len(req.bytes) /\ req.bytes \in Seq(Byte)
           /\ Asked \in Seq(Byte) /\ Len(Asked) = Len(req.bytes) - Skip
           /\ Asked = SubSeq(req.bytes, Skip + 1, Len(req.bytes))
<1>1. /\ Greeting \in Seq(Byte) /\ Reply \in Seq(Byte) /\ Answer = Greeting \o Reply
      /\ Answer \in Seq(Byte) /\ Len(Answer) = Len(Greeting) + Len(Reply)
  BY AnswerType, TunnelAssumption DEF Greeting, Answer
<1>2. /\ req.bytes \in Seq(Byte) /\ Len(req.bytes) \in Nat
      /\ req.end \in 1 .. HeadMax /\ req.end <= Len(req.bytes)
  BY SealedType, TunnelAssumption
<1>3. Skip \in Nat /\ Skip <= Len(req.bytes)
  BY <1>2 DEF Skip
<1>4. Asked = SubSeq(req.bytes, Skip + 1, Len(req.bytes))
  <2>1. SubSeq(req.bytes, 0 + 1, Len(req.bytes)) = req.bytes
    BY <1>2
  <2> QED
    BY <2>1 DEF Asked, Skip
<1> QED
  BY <1>1, <1>2, <1>3, <1>4

\* The rest of what is sealed is what seals the rest.
LEMMA SealPiece ==
    ASSUME NEW p \in Seq(Byte), NEW k \in Nat, k <= Len(p)
    PROVE  SubSeq(Seal(p), k + 1, Len(p)) = Seal(SubSeq(p, k + 1, Len(p)))
<1> DEFINE q == SubSeq(p, k + 1, Len(p))
           l == SubSeq(Seal(p), k + 1, Len(p))
           r == Seal(q)
<1>1. /\ Len(p) \in Nat
      /\ Seal(p) \in Seq(Byte) /\ Len(Seal(p)) = Len(p)
      /\ \A i \in 1 .. Len(p) : Seal(p)[i] = Key[p[i]] /\ p[i] \in Byte
  BY SealType
<1>2. /\ l \in Seq(Byte) /\ Len(l) = Len(p) - k
      /\ \A i \in 1 .. Len(p) - k : l[i] = Seal(p)[k + i]
  BY <1>1
<1>3. /\ q \in Seq(Byte) /\ Len(q) = Len(p) - k
      /\ \A i \in 1 .. Len(p) - k : q[i] = p[k + i]
  OBVIOUS
<1> HIDE DEF q, l
<1>4. /\ r \in Seq(Byte) /\ Len(r) = Len(p) - k
      /\ \A i \in 1 .. Len(p) - k : r[i] = Key[q[i]]
  BY <1>3, SealType
<1> HIDE DEF r
<1>5. \A i \in 1 .. Len(p) - k : l[i] = r[i]
  <2> TAKE i \in 1 .. Len(p) - k
  <2> QED
    BY <1>1, <1>2, <1>3, <1>4
<1>6. l = r
  BY <1>2, <1>4, <1>5, SeqEqual
<1> QED
  BY <1>6 DEF l, r, q

\* All that the server may ever give to either side,
LEMMA ServerDue ==
    ASSUME NEW c, c.req = Sealed(req), req \in Requests,
           req.connect => Len(c.head) = req.end
    PROVE  /\ S!Due(c, Svr, S!Preface(c, Svr), S!Skipped(c, Svr)) = Seal(Answer)
           /\ S!Due(c, Cli, S!Preface(c, Cli), S!Skipped(c, Cli)) = Asked
           /\ Len(S!Preface(c, Svr)) = Len(Greeting) /\ S!Skipped(c, Svr) = 0
           /\ Len(S!Preface(c, Cli)) = 0 /\ S!Skipped(c, Cli) = Skip
           /\ S!PeerBytes(c, Cli) = Seal(req.bytes) /\ S!PeerBytes(c, Svr) = Reply
<1> DEFINE p == req.bytes
<1>1. /\ Greeting \in Seq(Byte) /\ Reply \in Seq(Byte) /\ Answer = Greeting \o Reply
      /\ Skip \in Nat /\ Skip <= Len(p) /\ p \in Seq(Byte)
      /\ Asked \in Seq(Byte) /\ Asked = SubSeq(p, Skip + 1, Len(p))
  BY Wanted
<1>2. /\ Seal(p) \in Seq(Byte) /\ Len(Seal(p)) = Len(p)
      /\ Seal(Reply) \in Seq(Byte) /\ Seal(Greeting) \in Seq(Byte)
      /\ Len(Seal(Greeting)) = Len(Greeting) /\ Len(p) \in Nat
  BY <1>1, SealType
<1>3. c.req.connect = req.connect /\ c.req.bytes = Seal(p)
  BY SealedType
<1>4. /\ S!PeerBytes(c, Cli) = Seal(p) /\ S!PeerBytes(c, Svr) = Reply
  BY <1>3, Sides DEF S!PeerBytes
<1>5. S!Preface(c, Svr) = Seal(Greeting) /\ S!Preface(c, Cli) = <<>>
  <2>1. S!Translate(Svr, Established) = Seal(Established)
    BY Heads, ServerTranslates
  <2>2. Seal(<<>>) = <<>>
    BY DEF Seal
  <2> QED
    BY <1>3, <2>1, <2>2, Sides DEF S!Preface, Greeting
<1>6. S!Skipped(c, Cli) = Skip /\ S!Skipped(c, Svr) = 0
  BY <1>3, Sides DEF S!Skipped, Skip
<1>7. \A s \in Seq(Byte) : SubSeq(s, 0 + 1, Len(s)) = s /\ <<>> \o s = s
  OBVIOUS
<1>8. S!Due(c, Svr, S!Preface(c, Svr), S!Skipped(c, Svr)) = Seal(Answer)
  <2>1. S!Due(c, Svr, S!Preface(c, Svr), S!Skipped(c, Svr))
          = Seal(Greeting) \o S!Translate(Svr, Reply)
    BY <1>1, <1>4, <1>5, <1>6, <1>7 DEF S!Due
  <2>2. S!Translate(Svr, Reply) = Seal(Reply)
    BY <1>1, ServerTranslates
  <2>3. Seal(Greeting \o Reply) = Seal(Greeting) \o Seal(Reply)
    BY <1>1, SealConcat
  <2> QED
    BY <1>1, <2>1, <2>2, <2>3
<1>9. S!Due(c, Cli, S!Preface(c, Cli), S!Skipped(c, Cli)) = Asked
  <2>1. SubSeq(Seal(p), Skip + 1, Len(p)) = Seal(Asked)
    BY <1>1, SealPiece
  <2>2. S!Due(c, Cli, S!Preface(c, Cli), S!Skipped(c, Cli))
          = <<>> \o S!Translate(Cli, Seal(Asked))
    BY <1>2, <1>4, <1>5, <1>6, <2>1 DEF S!Due
  <2> QED
    BY <1>1, <1>7, <2>2, ServerTranslates
<1> QED
  BY <1>2, <1>4, <1>5, <1>6, <1>8, <1>9

\* so that what it writes in an event continues what it has written.
LEMMA ServerContinues ==
    ASSUME S!Sound, S!Quiet, far.req = Sealed(req), req \in Requests,
           req.connect /\ S!HeaderDone(far) => Len(far.head) = req.end,
           NEW e \in s_batch, S!HandleSvrEvent(e) \/ S!HandleCliEvent(e)
    PROVE  LET v == ServerWrites(Cli, e)
               w == ServerWrites(Svr, e)
           IN  /\ v # <<>> =>
                    /\ Run(v, Seal(Answer), Len(far.sock[Cli].out))
                    /\ Len(far.sock[Cli].out) + Len(v) <= Len(Greeting) + far.taken[Svr]
               /\ w # <<>> =>
                    /\ Run(far.sock[Svr].out \o w, Asked, 0)
                    /\ Len(far.sock[Svr].out \o w) <= far.taken[Cli] - Skip
<1>1. S!Inv /\ S!Order
  BY DEF S!Sound
<1>2. e.slot = 0
  BY <1>1, Sides DEF S!Inv, S!TypeOK, S!EventType
<1> DEFINE w == S!WrittenBy(far, e)
           x == S!Other(e.tag)
<1>3. w # <<>> =>
        /\ S!HeaderDone(far)
        /\ S!Promised(far, e.tag, w,
                      S!Due(far, x, S!Preface(far, x), S!Skipped(far, x)),
                      Len(S!Preface(far, x)) + (far.taken[x] - S!Skipped(far, x)))
  <2> DEFINE c == s_conn[e.slot]
  <2>1. S!WrittenBy(c, e) # <<>> =>
          /\ S!HeaderDone(c)
          /\ S!Promised(c, e.tag, S!WrittenBy(c, e),
               S!Due(c, S!Other(e.tag), S!Preface(c, S!Other(e.tag)),
                     S!Skipped(c, S!Other(e.tag))),
               Len(S!Preface(c, S!Other(e.tag)))
                 + (c.taken[S!Other(e.tag)] - S!Skipped(c, S!Other(e.tag))))
    BY S!EventPromised, ServerConstants, Zenon
  <2> QED
    BY <1>2, <2>1 DEF far
<1>4. w \in Seq(Byte) /\ e.tag \in {Cli, Svr}
  <2>1. S!EventSeen(e)
    BY <1>1, S!EventHandled, ServerConstants, Zenon
  <2> QED
    BY <2>1, Sides DEF S!EventSeen, far
<1>5. /\ far.sock[Cli].out \in Seq(Byte) /\ far.sock[Svr].out \in Seq(Byte)
      /\ far.taken[Cli] \in Nat /\ far.taken[Svr] \in Nat
  BY FarSlot DEF S!SocketType
<1>6. S!HeaderDone(far) =>
        /\ S!Due(far, Svr, S!Preface(far, Svr), S!Skipped(far, Svr)) = Seal(Answer)
        /\ S!Due(far, Cli, S!Preface(far, Cli), S!Skipped(far, Cli)) = Asked
        /\ Len(S!Preface(far, Svr)) = Len(Greeting) /\ S!Skipped(far, Svr) = 0
        /\ Len(S!Preface(far, Cli)) = 0 /\ S!Skipped(far, Cli) = Skip
  BY ServerDue
<1>7. /\ Seal(Answer) \in Seq(Byte) /\ Asked \in Seq(Byte)
      /\ Len(Greeting) \in Nat /\ Skip \in Nat
  BY Wanted, SealType
<1> HIDE DEF w, x
<1>8. ASSUME NEW y \in {Cli, Svr}, NEW v \in Seq(Byte), NEW whole \in Seq(Byte),
             NEW most \in Int, S!Promised(far, y, v, whole, most)
      PROVE  LET out == far.sock[y].out IN
             /\ Run(v, whole, Len(out)) /\ Run(out \o v, whole, 0)
             /\ Len(out \o v) <= most /\ Len(out) + Len(v) <= most
  <2> DEFINE out == far.sock[y].out
  <2>1. /\ out \in Seq(Byte) /\ Len(out \o v) = Len(out) + Len(v)
        /\ Len(out \o v) <= most /\ most <= Len(whole)
        /\ out \o v = SubSeq(whole, 1, Len(out \o v))
    BY <1>5, <1>8 DEF S!Promised
  <2> HIDE DEF out
  <2>2. Len(out \o v) <= Len(whole) /\ Len(out) + Len(v) <= most
    BY <2>1
  <2>3. Run(v, whole, Len(out)) /\ Run(out \o v, whole, 0)
    BY <2>1, <2>2, GivenRun
  <2> QED
    BY <2>1, <2>3 DEF out
<1>9. CASE e.tag = Cli
  <2>1. ServerWrites(Cli, e) = w /\ ServerWrites(Svr, e) = <<>> /\ x = Svr
    BY <1>9, Sides DEF ServerWrites, w, x
  <2>2. w # <<>> => S!Promised(far, Cli, w, Seal(Answer), Len(Greeting) + (far.taken[Svr] - 0))
    BY <1>3, <1>6, <1>9, <2>1
  <2>3. Len(Greeting) + (far.taken[Svr] - 0) \in Int
        /\ Len(Greeting) + (far.taken[Svr] - 0) = Len(Greeting) + far.taken[Svr]
    BY <1>5
  <2> QED
    BY <1>4, <1>7, <1>8, <2>1, <2>2, <2>3
<1>10. CASE e.tag = Svr
  <2>1. ServerWrites(Svr, e) = w /\ ServerWrites(Cli, e) = <<>> /\ x = Cli
    BY <1>10, Sides DEF ServerWrites, w, x
  <2>2. w # <<>> => S!Promised(far, Svr, w, Asked, 0 + (far.taken[Cli] - Skip))
    BY <1>3, <1>6, <1>10, <2>1
  <2>3. 0 + (far.taken[Cli] - Skip) \in Int
        /\ 0 + (far.taken[Cli] - Skip) = far.taken[Cli] - Skip
    BY <1>5, <1>7
  <2> QED
    BY <1>4, <1>7, <1>8, <2>1, <2>2, <2>3
<1> QED
  BY <1>4, <1>9, <1>10

-----------------------------------------------------------------------------
(* What holds of both programs and of the connection between them.          *)

IsOpen(k) == k.st # "none"

\* Nobody has done anything but the browser, which may have come.
Fresh == browser.st = "away" \/ (near.flag /\ near.status[Cli] = "INIT")

\* The server has not got to the end of the header.
Silent == link.st # "up" \/ (far.flag /\ ~S!HeaderDone(far))

Kinds == link \in LinkType /\ browser \in BrowserType /\ host \in HostType

\* The clock stands still, so that no session is reaped.
Stands == c_idle[0] = 0 /\ s_idle[0] = 0

\* One browser, one request.
Begins ==
    /\ browser.st = "away" => ~near.flag /\ browser.sent = 0
    /\ Fresh => /\ link.st = "none" /\ link.up = <<>> /\ link.top = "open"
                /\ ~IsOpen(near.sock[Svr])
    /\ near.flag => near.req = req
    /\ far.flag => far.req = Sealed(req) /\ link.st = "up"
    /\ link.st # "up" => link.down = <<>> /\ link.bottom = "open"

\* Until then nothing comes back, and a browser that has asked to CONNECT
\* waits behind its header,
NothingBack ==
    Silent =>
        /\ link.down = <<>> /\ near.taken[Svr] = 0
        /\ IsOpen(near.sock[Svr]) => near.sock[Svr].sent = 0
        /\ browser.got = <<>> /\ host.got = <<>> /\ host.sent = 0
        /\ req.connect => browser.sent <= req.end

\* so that the server's cache ends where the header does.
HeadFits ==
    req.connect /\ far.flag /\ S!HeaderDone(far) => Len(far.head) = req.end

\* How the ends of the link stand to each other.
EndsMeet ==
    LET u == near.sock[Svr]
        l == far.sock[Cli]
    IN  /\ link.top # "open" => ~IsOpen(u)
        /\ link.bottom # "open" => ~IsOpen(l)
        /\ link.top = "gone" => link.up = <<>>
        /\ link.bottom = "gone" => link.down = <<>>
        /\ IsOpen(u) /\ u.fin => link.bottom = "gone"
        /\ IsOpen(l) /\ l.fin => link.top = "gone"
        /\ IsOpen(u) /\ u.rst => link.st = "up" /\ ~IsOpen(l)
        /\ IsOpen(l) /\ l.rst => ~IsOpen(u)
        /\ u.st = "syn" => link.st = "none"
        /\ u.st = "est" => link.st # "none"
        /\ l.st # "syn"

\* What is under way is the piece between what has been received and what has
\* been written, of what was sent in the beginning.
Upward ==
    LET u == near.sock[Svr]
        l == far.sock[Cli]
        base == IF link.st = "up" THEN l.sent ELSE 0
    IN  link.st # "up" \/ (IsOpen(l) /\ ~l.rst) =>
            /\ Run(link.up, Seal(req.bytes), base)
            /\ base + Len(link.up) <= browser.sent
            /\ IsOpen(u) => base + Len(link.up) = Len(u.out)

Downward ==
    LET u == near.sock[Svr]
        l == far.sock[Cli]
    IN  link.st = "up" /\ IsOpen(u) /\ ~u.rst =>
            /\ Run(link.down, Seal(Answer), u.sent)
            /\ u.sent + Len(link.down) <= Len(Greeting) + host.sent
            /\ IsOpen(l) => u.sent + Len(link.down) = Len(l.out)

\* What is under way takes up the sender's buffer.
Rooms ==
    LET u == near.sock[Svr]
        l == far.sock[Cli]
    IN  /\ IsOpen(u) /\ ~u.rst => u.room + Len(link.up) = SndBuf
        /\ IsOpen(l) /\ ~l.rst => l.room + Len(link.down) = SndBuf

\* The outer sockets show what browser and host have done.
Outside ==
    LET b == near.sock[Cli]
        h == far.sock[Svr]
    IN  /\ IsOpen(b) => b.sent = browser.sent /\ b.out = browser.got
        /\ IsOpen(h) => h.sent = host.sent /\ h.out = host.got
        /\ browser.sent <= Len(req.bytes) /\ host.sent <= Len(Reply)

\* Nothing is read before it was sent.
NothingEarly ==
    LET u == near.sock[Svr]
        l == far.sock[Cli]
    IN  /\ near.taken[Cli] <= browser.sent
        /\ near.taken[Svr] <= Len(Greeting) + host.sent
        /\ far.taken[Cli] <= browser.sent /\ far.taken[Svr] <= host.sent
        /\ IsOpen(u) => u.sent <= Len(Greeting) + host.sent
        /\ IsOpen(l) => l.sent <= browser.sent

\* What has arrived.
Arrived ==
    /\ Run(browser.got, Answer, 0) /\ Len(browser.got) <= Len(Greeting) + host.sent
    /\ Run(host.got, Asked, 0)
    /\ host.got # <<>> => Len(host.got) <= browser.sent - Skip

Programs == C!Sound /\ S!Sound /\ S!Quiet

Between ==
    /\ Kinds /\ Stands /\ Begins /\ NothingBack /\ HeadFits /\ EndsMeet
    /\ Upward /\ Downward /\ Rooms /\ Outside /\ NothingEarly /\ Arrived

TInv == Programs /\ Between

LEMMA SameRequest ==
    ASSUME browser'.req = browser.req
    PROVE  /\ req' = req /\ Answer' = Answer /\ Asked' = Asked
           /\ Greeting' = Greeting /\ Skip' = Skip
BY DEF req, Answer, AnswerTo, Asked, Greeting, Skip

\* A slot one socket of which has become k.
LEMMA PutSocket ==
    ASSUME NEW c, c \in C!SlotType \/ c \in S!SlotType,
           NEW x \in {Cli, Svr}, NEW k
    PROVE  LET d == [c EXCEPT !.sock[x] = k] IN
           /\ d.flag = c.flag /\ d.req = c.req /\ d.status = c.status
           /\ d.taken = c.taken /\ d.head = c.head
           /\ d.sock[x] = k
           /\ \A y \in {Cli, Svr} : y # x => d.sock[y] = c.sock[y]
<1> DEFINE d == [c EXCEPT !.sock[x] = k]
<1>1. /\ d.flag = c.flag /\ d.req = c.req /\ d.status = c.status
      /\ d.taken = c.taken /\ d.head = c.head
      /\ d.sock = [c.sock EXCEPT ![x] = k]
  BY DEF C!SlotType, S!SlotType
<1>2. DOMAIN c.sock = {Cli, Svr}
  BY Sides DEF C!SlotType, S!SlotType
<1> HIDE DEF d
<1>3. d.sock[x] = k /\ \A y \in {Cli, Svr} : y # x => d.sock[y] = c.sock[y]
  BY <1>1, <1>2
<1> QED
  BY <1>3 DEF d

\* How many bytes of either peer have got to the client, read or not,
LEMMA NearHas ==
    ASSUME C!Sound, NEW x \in {Cli, Svr}
    PROVE  /\ near.flag => C!Pending(near, x) = IF IsOpen(near.sock[x])
                                                THEN near.sock[x].sent ELSE near.taken[x]
           /\ ~near.flag => near.taken[x] = 0
<1>1. /\ C!Streams(near) /\ C!Kept(near) /\ near \in C!SlotType
      /\ near.fd[x] <=> near.sock[x].st # "none"
      /\ near.sock[x] \in C!SocketType /\ near.taken[x] \in Nat
      /\ x \in C!Side
  BY NearSlot, Sides
<1>2. C!PeerBytes(near, x) \in Seq(Byte)
  <2>1. near.req \in Requests
    BY <1>1 DEF C!SlotType
  <2> QED
    BY <2>1, SealedType, AnswerType, SealType DEF C!PeerBytes
<1>3. near.flag /\ near.fd[x] => Len(near.sock[x].rx) = near.sock[x].sent - near.taken[x]
  <2> SUFFICES ASSUME near.flag, near.fd[x]
               PROVE  Len(near.sock[x].rx) = near.sock[x].sent - near.taken[x]
    OBVIOUS
  <2>1. /\ near.taken[x] <= near.sock[x].sent
        /\ near.sock[x].sent <= Len(C!PeerBytes(near, x))
        /\ near.sock[x].rx
             = SubSeq(C!PeerBytes(near, x), near.taken[x] + 1, near.sock[x].sent)
        /\ near.sock[x].sent \in Nat /\ near.taken[x] \in Nat
    BY <1>1 DEF C!Streams, C!Counted, C!SocketType
  <2>2. Len(SubSeq(C!PeerBytes(near, x), near.taken[x] + 1, near.sock[x].sent))
          = near.sock[x].sent - near.taken[x]
    BY <1>2, <2>1, PieceOf, Zenon
  <2> QED
    BY <2>1, <2>2, Zenon
<1>4. near.sock[x].sent \in Nat
  BY <1>1 DEF C!SocketType
<1>5. near.flag => C!Pending(near, x) = IF IsOpen(near.sock[x])
                                        THEN near.sock[x].sent ELSE near.taken[x]
  BY <1>1, <1>3, <1>4 DEF C!Pending, IsOpen
<1> QED
  BY <1>1, <1>5 DEF C!Kept

\* and to the server.
LEMMA FarHas ==
    ASSUME S!Sound, NEW x \in {Cli, Svr}
    PROVE  /\ far.flag => S!Pending(far, x) = IF IsOpen(far.sock[x])
                                              THEN far.sock[x].sent ELSE far.taken[x]
           /\ ~far.flag => far.taken[x] = 0
<1>1. /\ S!Streams(far) /\ S!Kept(far) /\ far \in S!SlotType
      /\ far.fd[x] <=> far.sock[x].st # "none"
      /\ far.sock[x] \in S!SocketType /\ far.taken[x] \in Nat
      /\ x \in S!Side
  BY FarSlot, Sides
<1>2. S!PeerBytes(far, x) \in Seq(Byte)
  <2>1. far.req \in {Sealed(q) : q \in Requests}
    BY <1>1 DEF S!SlotType
  <2> QED
    <3>1. PICK q \in Requests : far.req = Sealed(q)
      BY <2>1
    <3>2. far.req.bytes \in Seq(Byte)
      BY <3>1, SealedType, SealType
    <3> QED
      BY <2>1, <3>2, TunnelAssumption DEF S!PeerBytes
<1>3. far.flag /\ far.fd[x] => Len(far.sock[x].rx) = far.sock[x].sent - far.taken[x]
  <2> SUFFICES ASSUME far.flag, far.fd[x]
               PROVE  Len(far.sock[x].rx) = far.sock[x].sent - far.taken[x]
    OBVIOUS
  <2>1. /\ far.taken[x] <= far.sock[x].sent
        /\ far.sock[x].sent <= Len(S!PeerBytes(far, x))
        /\ far.sock[x].rx
             = SubSeq(S!PeerBytes(far, x), far.taken[x] + 1, far.sock[x].sent)
        /\ far.sock[x].sent \in Nat /\ far.taken[x] \in Nat
    BY <1>1 DEF S!Streams, S!Counted, S!SocketType
  <2>2. Len(SubSeq(S!PeerBytes(far, x), far.taken[x] + 1, far.sock[x].sent))
          = far.sock[x].sent - far.taken[x]
    BY <1>2, <2>1, PieceOf, Zenon
  <2> QED
    BY <2>1, <2>2, Zenon
<1>4. far.sock[x].sent \in Nat
  BY <1>1 DEF S!SocketType
<1>5. far.flag => S!Pending(far, x) = IF IsOpen(far.sock[x])
                                      THEN far.sock[x].sent ELSE far.taken[x]
  BY <1>1, <1>3, <1>4 DEF S!Pending, IsOpen
<1> QED
  BY <1>1, <1>5 DEF S!Kept

\* The host is contacted only behind the header.
LEMMA HostBehindHeader ==
    ASSUME S!Sound, IsOpen(far.sock[Svr])
    PROVE  far.flag /\ S!HeaderDone(far)
<1>1. S!Streams(far) /\ far.fd[Svr] /\ far.flag
  BY FarSlot DEF IsOpen
<1> QED
  BY <1>1, Sides DEF S!Streams, S!Collecting, S!HeaderDone

\* The kinds of the things the proofs below reckon with.
LEMMA Shapes ==
    ASSUME TInv
    PROVE  /\ link \in LinkType /\ browser \in BrowserType /\ host \in HostType
           /\ link.up \in Seq(Byte) /\ link.down \in Seq(Byte)
           /\ Len(link.up) \in Nat /\ Len(link.down) \in Nat
           /\ browser.sent \in Nat /\ browser.got \in Seq(Byte)
           /\ host.sent \in Nat /\ host.got \in Seq(Byte)
           /\ req \in Requests /\ req.bytes \in Seq(Byte) /\ Len(req.bytes) \in Nat
           /\ Seal(req.bytes) \in Seq(Byte) /\ Len(Seal(req.bytes)) = Len(req.bytes)
           /\ Answer \in Seq(Byte) /\ Seal(Answer) \in Seq(Byte)
           /\ Len(Seal(Answer)) = Len(Answer)
           /\ Len(Answer) = Len(Greeting) + Len(Reply)
           /\ Len(Greeting) \in Nat /\ Len(Reply) \in Nat
           /\ Asked \in Seq(Byte) /\ Len(Asked) = Len(req.bytes) - Skip
           /\ Skip \in Nat /\ Skip <= Len(req.bytes)
           /\ req.end \in Nat \ {0} /\ req.end <= Len(req.bytes)
<1>1. link \in LinkType /\ browser \in BrowserType /\ host \in HostType
  BY DEF TInv, Between, Kinds
<1>2. req \in Requests
  BY <1>1 DEF BrowserType, req
<1>3. req.end \in Nat \ {0} /\ req.end <= Len(req.bytes)
  BY <1>2, TunnelAssumption
<1>4. /\ req.bytes \in Seq(Byte) /\ Answer \in Seq(Byte)
      /\ Len(Answer) = Len(Greeting) + Len(Reply)
      /\ Greeting \in Seq(Byte) /\ Reply \in Seq(Byte)
      /\ Asked \in Seq(Byte) /\ Len(Asked) = Len(req.bytes) - Skip
      /\ Skip \in Nat /\ Skip <= Len(req.bytes)
  BY <1>2, Wanted
<1>5. /\ Seal(req.bytes) \in Seq(Byte) /\ Len(Seal(req.bytes)) = Len(req.bytes)
      /\ Seal(Answer) \in Seq(Byte) /\ Len(Seal(Answer)) = Len(Answer)
  BY <1>4, SealType
<1>6. /\ link.up \in Seq(Byte) /\ link.down \in Seq(Byte)
      /\ browser.sent \in Nat /\ browser.got \in Seq(Byte)
      /\ host.sent \in Nat /\ host.got \in Seq(Byte)
  BY <1>1 DEF LinkType, BrowserType, HostType
<1> QED
  BY <1>1, <1>2, <1>3, <1>4, <1>5, <1>6, LenProperties

LEMMA Counts ==
    ASSUME TInv
    PROVE  /\ Len(link.up) \in Nat /\ Len(link.down) \in Nat
           /\ browser.sent \in Nat /\ host.sent \in Nat
           /\ Len(Greeting) \in Nat /\ Len(Reply) \in Nat /\ Len(Answer) \in Nat
           /\ Len(Answer) = Len(Greeting) + Len(Reply)
           /\ Skip \in Nat /\ Len(req.bytes) \in Nat /\ Skip <= Len(req.bytes)
           /\ SndBuf \in Nat \ {0}
BY Shapes, Buffers

LEMMA SocketCounts ==
    ASSUME NEW k, k \in C!SocketType \/ k \in S!SocketType
    PROVE  /\ k.sent \in Nat /\ Len(k.out) \in Nat /\ k.room \in Nat
           /\ k.room <= SndBuf /\ k.out \in Seq(Byte)
           /\ k.st \in {"none", "syn", "est"}
<1>1. k.room \in 0 .. SndBuf /\ SndBuf \in Nat
  BY Buffers DEF C!SocketType, S!SocketType
<1>2. k.room \in Nat /\ k.room <= SndBuf
  BY <1>1
<1>3. k.sent \in Nat /\ k.out \in Seq(Byte) /\ k.st \in {"none", "syn", "est"}
  BY DEF C!SocketType, S!SocketType
<1> QED
  BY <1>2, <1>3

\* When nothing that can be seen changes, nothing is to be shown.
LEMMA NothingSeen ==
    ASSUME TInv, near' = near, far' = far, link' = link, browser' = browser,
           host' = host, c_idle'[0] = 0, s_idle'[0] = 0
    PROVE  Between'
<1>1. /\ req' = req /\ Answer' = Answer /\ Asked' = Asked
      /\ Greeting' = Greeting /\ Skip' = Skip
  BY SameRequest
<1>2. /\ Kinds /\ Stands /\ Begins /\ NothingBack /\ HeadFits /\ EndsMeet
      /\ Upward /\ Downward /\ Rooms /\ Outside /\ NothingEarly /\ Arrived
  BY DEF TInv, Between
<1>3. Fresh' = Fresh /\ Silent' = Silent
  BY DEF Fresh, Silent, S!HeaderDone
<1>4. Kinds' /\ Stands'
  BY <1>2 DEF Kinds, Stands
<1>5. Begins' /\ NothingBack' /\ HeadFits'
  BY <1>1, <1>2, <1>3 DEF Begins, NothingBack, HeadFits, S!HeaderDone
<1>6. EndsMeet' /\ Rooms' /\ Outside'
  BY <1>1, <1>2 DEF EndsMeet, Rooms, Outside
<1>7. Upward' /\ Downward'
  BY <1>1, <1>2 DEF Upward, Downward, Seal, Run
<1>8. NothingEarly' /\ Arrived'
  BY <1>1, <1>2 DEF NothingEarly, Arrived, Run
<1> QED
  BY <1>4, <1>5, <1>6, <1>7, <1>8 DEF Between

-----------------------------------------------------------------------------
(* The steps, one after the other.  Each is a step of the loop of either    *)
(* program, or none.                                                        *)

StepsOf == [C!Next]_(C!vars) /\ [S!Next]_(S!vars)

LEMMA ProgramsKept ==
    ASSUME TInv, StepsOf
    PROVE  Programs'
BY ClientSoundStep, ServerSoundStep DEF TInv, Programs, StepsOf

LEMMA ClientIdlesKeeps ==
    ASSUME TInv, ClientIdles
    PROVE  StepsOf /\ Between'
<1>1. /\ server' = server /\ link' = link /\ browser' = browser /\ host' = host
      /\ C!AgentNoSession(0) \/ C!EpollWait \/ C!TimeoutStep
  BY DEF ClientIdles
<1>2. S!vars' = S!vars /\ far' = far /\ s_idle'[0] = 0
  <2>1. s_idle[0] = 0
    BY DEF TInv, Between, Stands
  <2> QED
    BY <1>1, <2>1 DEF server, S!vars, far
<1>3. C!Next
  BY <1>1
     DEF C!Next, C!HandleAgentEvent, C!AgentStep, C!HandleConnectionsEvent,
         C!HandleSessionTimeout
<1>4. c_idle[0] = 0 /\ C!Slot = {0}
  BY Sides DEF TInv, Between, Stands
<1>5. near' = near /\ c_idle'[0] = 0
  <2>1. CASE C!AgentNoSession(0)
    <3>1. c_conn' = c_conn /\ c_idle' = C!Aged(0)
      BY <2>1 DEF C!AgentNoSession
    <3>2. C!Aged(0)[0] = 0
      BY <1>4 DEF C!Aged, C!AtMost
    <3> QED
      BY <3>1, <3>2 DEF near
  <2>2. CASE C!EpollWait \/ C!TimeoutNotDue
    BY <1>4, <2>2 DEF C!EpollWait, C!TimeoutNotDue, near
  <2>3. ASSUME NEW walked, C!Walk(walked)
        PROVE  near' = near /\ c_idle'[0] = 0
    <3>1. c_conn' = C!Reaped(walked)
          /\ c_idle' = [s \in C!Slot |-> IF c_conn'[s].flag THEN c_idle[s] ELSE 0]
      BY <2>3 DEF C!Walk
    <3>2. C!Reaped(walked)[0] = c_conn[0]
      BY <1>4 DEF C!Reaped
    <3> QED
      BY <1>4, <3>1, <3>2 DEF near
  <2>4. CASE C!TimeoutWalk \/ C!TimeoutSweep
    BY <2>3, <2>4 DEF C!TimeoutWalk, C!TimeoutSweep
  <2> QED
    BY <1>1, <2>1, <2>2, <2>4 DEF C!TimeoutStep
<1>6. Between'
  BY <1>1, <1>2, <1>5, NothingSeen
<1> QED
  BY <1>2, <1>3, <1>6 DEF StepsOf

LEMMA ServerIdlesKeeps ==
    ASSUME TInv, ServerIdles
    PROVE  StepsOf /\ Between'
<1>1. /\ client' = client /\ link' = link /\ browser' = browser /\ host' = host
      /\ S!AgentNoSession(0) \/ S!EpollWait \/ S!TimeoutStep
  BY DEF ServerIdles
<1>2. C!vars' = C!vars /\ near' = near /\ c_idle'[0] = 0
  <2>1. c_idle[0] = 0
    BY DEF TInv, Between, Stands
  <2> QED
    BY <1>1, <2>1 DEF client, C!vars, near
<1>3. S!Next
  BY <1>1
     DEF S!Next, S!HandleAgentEvent, S!AgentStep, S!HandleConnectionsEvent,
         S!HandleSessionTimeout
<1>4. s_idle[0] = 0 /\ S!Slot = {0}
  BY Sides DEF TInv, Between, Stands
<1>5. far' = far /\ s_idle'[0] = 0
  <2>1. CASE S!AgentNoSession(0)
    <3>1. s_conn' = s_conn /\ s_idle' = S!Aged(0)
      BY <2>1 DEF S!AgentNoSession
    <3>2. S!Aged(0)[0] = 0
      BY <1>4 DEF S!Aged, S!AtMost
    <3> QED
      BY <3>1, <3>2 DEF far
  <2>2. CASE S!EpollWait \/ S!TimeoutNotDue
    BY <1>4, <2>2 DEF S!EpollWait, S!TimeoutNotDue, far
  <2>3. ASSUME NEW walked, S!Walk(walked)
        PROVE  far' = far /\ s_idle'[0] = 0
    <3>1. s_conn' = S!Reaped(walked)
          /\ s_idle' = [s \in S!Slot |-> IF s_conn'[s].flag THEN s_idle[s] ELSE 0]
      BY <2>3 DEF S!Walk
    <3>2. S!Reaped(walked)[0] = s_conn[0]
      BY <1>4 DEF S!Reaped
    <3> QED
      BY <1>4, <3>1, <3>2 DEF far
  <2>4. CASE S!TimeoutWalk \/ S!TimeoutSweep
    BY <2>3, <2>4 DEF S!TimeoutWalk, S!TimeoutSweep
  <2> QED
    BY <1>1, <2>1, <2>2, <2>4 DEF S!TimeoutStep
<1>6. Between'
  BY <1>1, <1>2, <1>5, NothingSeen
<1> QED
  BY <1>2, <1>3, <1>6 DEF StepsOf

LEMMA ClientAcceptsKeeps ==
    ASSUME TInv, ClientAccepts
    PROVE  StepsOf /\ Between'
<1> DEFINE q == browser.req
           d == C!Accepted(C!InitSession(q))
<1>1. /\ server' = server /\ link' = link /\ host' = host
      /\ browser.st = "away" /\ browser' = [browser EXCEPT !.st = "open"]
      /\ C!AgentAccepts(0, C!InitSession(q), TRUE)
  BY DEF ClientAccepts
<1>2. S!vars' = S!vars /\ far' = far /\ s_idle' = s_idle
  BY <1>1 DEF server, S!vars, far
<1>3. C!Next
  <2>1. 0 \in {0} /\ TRUE \in BOOLEAN /\ q \in Requests
    BY Shapes DEF req
  <2>2. C!Accept
    BY <1>1, <2>1 DEF C!Accept
  <2> QED
    BY <2>2 DEF C!Next, C!HandleAgentEvent
<1>4. /\ Kinds /\ Stands /\ Begins /\ NothingBack /\ HeadFits /\ EndsMeet
      /\ Upward /\ Downward /\ Rooms /\ Outside /\ NothingEarly /\ Arrived
      /\ C!Sound
  BY DEF TInv, Between, Programs
<1>5. C!FirstFree = 0
  <2>1. C!FirstFree \in C!Slot
    <3>1. c_s_index \in C!Slot /\ ~C!PoolFull
      BY <1>1, <1>4 DEF C!Sound, C!Inv, C!TypeOK, C!AgentAccepts
    <3> QED
      BY <3>1, C!FirstFreeIsFree, ClientConstants, Zenon
  <2> QED
    BY <2>1, Sides
<1>6. near' = d /\ c_idle'[0] = 0
  <2>1. /\ c_conn' = [c_conn EXCEPT ![0] = d]
        /\ c_idle' = [C!Aged(0) EXCEPT ![0] = 0]
    BY <1>1, <1>5 DEF C!AgentAccepts
  <2>2. DOMAIN c_conn = {0} /\ DOMAIN C!Aged(0) = {0}
    BY <1>4, NearSlot, Sides DEF C!Aged
  <2> QED
    BY <2>1, <2>2 DEF near
<1>7. /\ d.flag /\ d.req = q /\ d.status[Cli] = "INIT"
      /\ d.taken[Cli] = 0 /\ d.taken[Svr] = 0
      /\ d.sock[Cli].sent = 0 /\ d.sock[Cli].out = <<>>
      /\ d.sock[Svr].st = "none"
  BY Sides DEF C!Accepted, C!InitSession, C!EmptySlot, C!EpollAdd, C!NewSocket,
     C!NoSocket, C!Cli, C!Svr
<1> HIDE DEF d, q
<1>8. /\ browser'.st = "open" /\ browser'.req = browser.req
      /\ browser'.sent = browser.sent /\ browser'.got = browser.got
      /\ browser' \in BrowserType
  BY <1>1, <1>4 DEF Kinds, BrowserType
<1>9. /\ req' = req /\ Answer' = Answer /\ Asked' = Asked
      /\ Greeting' = Greeting /\ Skip' = Skip
  BY <1>8, SameRequest
<1>10. /\ Silent /\ Fresh /\ Silent' = Silent
       /\ link.st = "none" /\ browser.sent = 0 /\ browser.got = <<>>
       /\ ~IsOpen(near.sock[Svr]) /\ ~IsOpen(near'.sock[Svr])
       /\ near'.sock[Svr].st = "none"
  BY <1>1, <1>4, <1>6, <1>7 DEF Silent, Fresh, Begins, NothingBack, S!HeaderDone, IsOpen
<1>11. Kinds' /\ Stands'
  BY <1>1, <1>2, <1>4, <1>6, <1>8 DEF Kinds, Stands
<1>12. Begins'
  <2>1. near'.req = req'
    BY <1>6, <1>7, <1>9 DEF req, q
  <2> QED
    BY <1>1, <1>2, <1>4, <1>10, <2>1 DEF Begins, Fresh
<1>13. NothingBack' /\ HeadFits'
  BY <1>1, <1>2, <1>4, <1>6, <1>7, <1>9, <1>10 DEF NothingBack, HeadFits, S!HeaderDone
<1>14. EndsMeet' /\ Rooms'
  BY <1>1, <1>2, <1>4, <1>6, <1>7 DEF EndsMeet, Rooms, IsOpen
<1>15. Upward' /\ Downward'
  BY <1>1, <1>4, <1>9, <1>10 DEF Upward, Downward, Seal, Run
<1>16. Outside'
  BY <1>1, <1>2, <1>4, <1>6, <1>7, <1>10 DEF Outside
<1>17. NothingEarly'
  <2>1. 0 <= browser.sent /\ 0 <= Len(Greeting) + host.sent
    <3>1. browser.sent \in Nat /\ Len(Greeting) \in Nat /\ host.sent \in Nat
      BY Counts
    <3> QED
      BY <3>1
  <2>2. /\ near'.taken[Cli] <= browser'.sent
        /\ near'.taken[Svr] <= Len(Greeting') + host'.sent
    BY <1>1, <1>6, <1>7, <1>9, <2>1
  <2> QED
    BY <1>1, <1>2, <1>4, <1>10, <2>2 DEF NothingEarly
<1>18. Arrived'
  BY <1>1, <1>4, <1>9 DEF Arrived, Run
<1> QED
  BY <1>2, <1>3, <1>11, <1>12, <1>13, <1>14, <1>15, <1>16, <1>17, <1>18
     DEF StepsOf, Between

\* Socket l is socket k after bytes w have been written to it,
Wrote(k, l, w) ==
    /\ l.st = k.st /\ l.fin = k.fin /\ l.rst = k.rst /\ l.sent = k.sent
    /\ l.out = k.out \o w /\ l.room = k.room - Len(w)

\* or a new socket.
Blank(l) ==
    ~l.fin /\ ~l.rst /\ l.sent = 0 /\ l.out = <<>> /\ l.room = SndBuf

\* One event of the client's: what it writes to browser and server is what
\* comes next, and what it has read has been sent.
LEMMA ClientTurn ==
    ASSUME TInv, Programs', NEW e \in c_batch,
           C!HandleSvrEvent(e) \/ C!HandleCliEvent(e)
    PROVE  LET v == ClientWrites(Cli, e)
               w == ClientWrites(Svr, e)
               b == near.sock[Cli]
               u == near.sock[Svr]
           IN  /\ near.flag /\ near.req = req
               /\ near'.flag => near'.req = req /\ near'.status[Cli] # "INIT"
               /\ v \in Seq(Byte) /\ w \in Seq(Byte)
               /\ IsOpen(near'.sock[Cli]) => IsOpen(b) /\ Wrote(b, near'.sock[Cli], v)
               /\ IsOpen(near'.sock[Svr]) =>
                    \/ IsOpen(u) /\ Wrote(u, near'.sock[Svr], w)
                    \/ /\ ~IsOpen(u) /\ Fresh /\ w = <<>>
                       /\ Blank(near'.sock[Svr])
               /\ v # <<>> => /\ IsOpen(b) /\ Run(b.out \o v, Answer, 0)
                              /\ Len(b.out \o v) <= near.taken[Svr]
               /\ w # <<>> => /\ IsOpen(u) /\ ~u.rst
                              /\ Run(w, Seal(req.bytes), Len(u.out))
                              /\ Len(u.out) + Len(w) <= near.taken[Cli]
               /\ \A x \in {Cli, Svr} :
                    near'.taken[x] <= IF IsOpen(near.sock[x])
                                      THEN near.sock[x].sent ELSE near.taken[x]
<1>1. C!Sound /\ C!Sound' /\ Begins
  BY DEF TInv, Programs, Between
<1>2. NearMoves(e)
  BY <1>1, ClientSees
<1>3. near.flag /\ near.req = req /\ req \in Requests
  BY <1>1, <1>2, Shapes DEF NearMoves, Begins
<1>4. \A x \in {Cli, Svr} :
        /\ near.fd[x] <=> IsOpen(near.sock[x])
        /\ near'.fd[x] <=> IsOpen(near'.sock[x])
        /\ near'.fd[x] => near'.flag
        /\ near'.sock[x] \in C!SocketType /\ near.sock[x] \in C!SocketType
        /\ near'.taken[x] \in Nat /\ near.taken[x] \in Nat
  BY <1>1, NearSlot, NearSlotAfter DEF IsOpen
<1>5. \A x \in {Cli, Svr} :
        near'.taken[x] <= IF IsOpen(near.sock[x])
                          THEN near.sock[x].sent ELSE near.taken[x]
  <2> SUFFICES ASSUME NEW x \in {Cli, Svr}
               PROVE  near'.taken[x] <= IF IsOpen(near.sock[x])
                                        THEN near.sock[x].sent ELSE near.taken[x]
    OBVIOUS
  <2> DEFINE p == IF IsOpen(near.sock[x]) THEN near.sock[x].sent ELSE near.taken[x]
  <2>1. p \in Nat /\ near'.taken[x] \in Nat
    BY <1>4 DEF C!SocketType
  <2>2. C!Pending(near, x) = p
    BY <1>1, <1>3, NearHas
  <2>3. CASE near'.flag
    <3>1. C!Pending(near', x) <= p
      BY <1>2, <2>2, <2>3 DEF NearMoves
    <3> HIDE DEF p
    <3>2. near'.taken[x] <= p
      BY <2>1, <3>1 DEF C!Pending
    <3> QED
      BY <3>2 DEF p
  <2>4. CASE ~near'.flag
    <3>1. near'.taken[x] = 0
      BY <1>1, <2>4, NearSlotAfter, Sides DEF C!Kept
    <3> HIDE DEF p
    <3>2. near'.taken[x] <= p
      BY <2>1, <3>1
    <3> QED
      BY <3>2 DEF p
  <2> QED
    BY <2>3, <2>4
<1>6. near'.flag => near'.req = req /\ near'.status[Cli] # "INIT"
  BY <1>2, <1>3 DEF NearMoves
<1> DEFINE v == ClientWrites(Cli, e)
           w == ClientWrites(Svr, e)
<1>7. /\ v \in Seq(Byte) /\ w \in Seq(Byte)
      /\ v # <<>> => IsOpen(near.sock[Cli])
      /\ w # <<>> => IsOpen(near.sock[Svr]) /\ ~near.sock[Svr].rst
  BY <1>2, <1>4 DEF NearMoves
<1>8. IsOpen(near'.sock[Cli]) =>
        IsOpen(near.sock[Cli]) /\ Wrote(near.sock[Cli], near'.sock[Cli], v)
  BY <1>2, <1>4, Sides DEF NearMoves, C!Given, Wrote
<1>9. IsOpen(near'.sock[Svr]) =>
        \/ IsOpen(near.sock[Svr]) /\ Wrote(near.sock[Svr], near'.sock[Svr], w)
        \/ /\ ~IsOpen(near.sock[Svr]) /\ Fresh /\ w = <<>>
           /\ Blank(near'.sock[Svr])
  <2> SUFFICES ASSUME IsOpen(near'.sock[Svr])
               PROVE  \/ /\ IsOpen(near.sock[Svr])
                         /\ Wrote(near.sock[Svr], near'.sock[Svr], w)
                      \/ /\ ~IsOpen(near.sock[Svr]) /\ Fresh /\ w = <<>>
                         /\ Blank(near'.sock[Svr])
    OBVIOUS
  <2>1. CASE near.fd[Svr] /\ C!Given(near.sock[Svr], near'.sock[Svr], w)
    BY <1>4, <2>1 DEF C!Given, Wrote
  <2>2. CASE /\ ~near.fd[Svr] /\ near.status[Cli] = "INIT" /\ w = <<>>
             /\ C!Opened(near'.sock[Svr])
    <3>1. C!Given(C!NewSocket(near'.sock[Svr].st), near'.sock[Svr], <<>>)
      BY <2>2 DEF C!Opened
    <3>2. /\ SndBuf - Len(<<>>) = SndBuf /\ <<>> \o <<>> = <<>>
      BY Buffers
    <3>3. Blank(near'.sock[Svr])
      BY <3>1, <3>2 DEF C!Given, C!NewSocket, C!NoSocket, Blank
    <3> QED
      BY <1>3, <1>4, <2>2, <3>3 DEF Fresh
  <2> QED
    BY <1>2, <1>4, <2>1, <2>2 DEF NearMoves
<1>10. /\ v # <<>> => /\ Run(near.sock[Cli].out \o v, Answer, 0)
                      /\ Len(near.sock[Cli].out \o v) <= near.taken[Svr]
       /\ w # <<>> => /\ Run(w, Seal(req.bytes), Len(near.sock[Svr].out))
                      /\ Len(near.sock[Svr].out) + Len(w) <= near.taken[Cli]
  BY <1>1, <1>3, ClientContinues
<1> QED
  BY <1>3, <1>5, <1>6, <1>7, <1>8, <1>9, <1>10

LEMMA ClientHandlesKeeps ==
    ASSUME TInv, NEW e \in c_batch, ClientHandles(e)
    PROVE  StepsOf /\ Between'
<1> DEFINE v == ClientWrites(Cli, e)
           w == ClientWrites(Svr, e)
<1>1. /\ server' = server /\ host' = host
      /\ C!SkipEvent(e) \/ C!HandleSvrEvent(e) \/ C!HandleCliEvent(e)
      /\ browser' = [browser EXCEPT !.got = @ \o v]
      /\ link' = [link EXCEPT
           !.st = IF @ = "none" /\ near'.sock[Svr].st = "est" THEN "backlog" ELSE @,
           !.up = @ \o w,
           !.top = EndAfter(@, near.sock[Svr], near'.sock[Svr])]
  BY DEF ClientHandles, Upper
<1>2. S!vars' = S!vars /\ far' = far /\ s_idle' = s_idle
  BY <1>1 DEF server, S!vars, far
<1>3. C!Next
  <2>1. C!Dispatch
    BY <1>1 DEF C!Dispatch
  <2> QED
    BY <2>1 DEF C!Next, C!HandleConnectionsEvent
<1>4. StepsOf
  BY <1>2, <1>3 DEF StepsOf
<1>5. /\ Kinds /\ Stands /\ Begins /\ NothingBack /\ HeadFits /\ EndsMeet
      /\ Upward /\ Downward /\ Rooms /\ Outside /\ NothingEarly /\ Arrived
      /\ C!Sound
  BY DEF TInv, Between, Programs
<1>6. CASE C!SkipEvent(e)
  <2>1. c_conn' = c_conn /\ c_idle' = c_idle /\ ~c_conn[e.slot].flag
    BY <1>6 DEF C!SkipEvent
  <2>2. e.slot = 0
    BY <1>5, Sides DEF C!Sound, C!Inv, C!TypeOK, C!EventType
  <2>3. near' = near /\ ~near.flag
    BY <2>1, <2>2 DEF near
  <2>4. v = <<>> /\ w = <<>>
    BY <2>3 DEF ClientWrites, C!WrittenBy
  <2>5. near.sock[Svr].st = "none"
    BY <1>5, <2>3, NearSlot
  <2> HIDE DEF v, w
  <2>6. browser' = browser
    <3>1. browser.got \o v = browser.got
      BY <2>4
    <3> QED
      BY <1>1, <1>5, <3>1 DEF Kinds, BrowserType
  <2>7. link' = link
    <3>1. link.up \o w = link.up
      BY <2>4
    <3>2. EndAfter(link.top, near.sock[Svr], near'.sock[Svr]) = link.top
      BY <2>5 DEF EndAfter
    <3> QED
      BY <1>1, <1>5, <2>3, <2>5, <3>1, <3>2 DEF Kinds, LinkType
  <2>8. c_idle'[0] = 0 /\ s_idle'[0] = 0
    BY <1>2, <1>5, <2>1 DEF Stands
  <2> QED
    BY <1>1, <1>2, <1>4, <2>3, <2>6, <2>7, <2>8, NothingSeen
<1>7. CASE C!HandleSvrEvent(e) \/ C!HandleCliEvent(e)
  <2> DEFINE b == near.sock[Cli]
             u == near.sock[Svr]
             B == near'.sock[Cli]
             U == near'.sock[Svr]
             l == far.sock[Cli]
  <2>1. Programs'
    BY <1>4, ProgramsKept
  <2>2. /\ near.flag /\ near.req = req
        /\ near'.flag => near'.req = req /\ near'.status[Cli] # "INIT"
        /\ v \in Seq(Byte) /\ w \in Seq(Byte)
        /\ IsOpen(B) => IsOpen(b) /\ Wrote(b, B, v)
        /\ IsOpen(U) =>
             \/ IsOpen(u) /\ Wrote(u, U, w)
             \/ ~IsOpen(u) /\ Fresh /\ w = <<>> /\ Blank(U)
        /\ v # <<>> => /\ IsOpen(b) /\ Run(b.out \o v, Answer, 0)
                       /\ Len(b.out \o v) <= near.taken[Svr]
        /\ w # <<>> => /\ IsOpen(u) /\ ~u.rst
                       /\ Run(w, Seal(req.bytes), Len(u.out))
                       /\ Len(u.out) + Len(w) <= near.taken[Cli]
        /\ near'.taken[Cli] <= IF IsOpen(b) THEN b.sent ELSE near.taken[Cli]
        /\ near'.taken[Svr] <= IF IsOpen(u) THEN u.sent ELSE near.taken[Svr]
    BY <1>7, <2>1, ClientTurn
  <2>3. /\ u \in C!SocketType /\ U \in C!SocketType
        /\ b \in C!SocketType /\ B \in C!SocketType /\ l \in S!SocketType
        /\ near.taken[Cli] \in Nat /\ near.taken[Svr] \in Nat
        /\ near'.taken[Cli] \in Nat /\ near'.taken[Svr] \in Nat
    BY <2>1, NearSlot, NearSlotAfter, FarSlot DEF TInv, Programs
  <2>4. c_idle'[0] = 0
    <3>1. c_idle' = [c_idle EXCEPT ![e.slot] = 0]
      BY <1>7 DEF C!HandleSvrEvent, C!HandleCliEvent, C!HandleEvent
    <3>2. e.slot = 0 /\ c_idle \in [{0} -> 0 .. 1]
      BY <1>5, Sides DEF C!Sound, C!Inv, C!TypeOK, C!EventType
    <3> QED
      BY <3>1, <3>2
  <2> HIDE DEF v, w
  <2>5. /\ browser'.st = browser.st /\ browser'.req = browser.req
        /\ browser'.sent = browser.sent /\ browser'.got = browser.got \o v
        /\ browser.got \o v \in Seq(Byte) /\ browser' \in BrowserType
    <3>1. browser.got \o v \in Seq(Byte)
      BY <2>2, Shapes
    <3> QED
      BY <1>1, <1>5, <3>1 DEF Kinds, BrowserType
  <2>6. /\ req' = req /\ Answer' = Answer /\ Asked' = Asked
        /\ Greeting' = Greeting /\ Skip' = Skip
    BY <2>5, SameRequest
  <2>7. /\ link'.st = IF link.st = "none" /\ U.st = "est" THEN "backlog" ELSE link.st
        /\ link'.up = link.up \o w /\ link'.down = link.down
        /\ link'.top = EndAfter(link.top, u, U) /\ link'.bottom = link.bottom
        /\ link.up \o w \in Seq(Byte) /\ Len(link.up \o w) = Len(link.up) + Len(w)
        /\ Len(w) \in Nat /\ link' \in LinkType
    <3>1. /\ link.up \o w \in Seq(Byte) /\ Len(link.up \o w) = Len(link.up) + Len(w)
          /\ Len(w) \in Nat
      BY <2>2, Shapes
    <3>2. EndAfter(link.top, u, U) \in End
      BY <1>5 DEF EndAfter, End, Kinds, LinkType
    <3> QED
      BY <1>1, <1>5, <3>1, <3>2 DEF Kinds, LinkType
  <2>8. /\ ~Fresh' /\ Silent' = Silent
        /\ link'.st = "up" <=> link.st = "up"
    <3>1. browser.st # "away"
      BY <1>5, <2>2 DEF Begins
    <3>2. link'.st = "up" <=> link.st = "up"
      BY <2>7
    <3> QED
      BY <1>2, <2>2, <2>5, <3>1, <3>2 DEF Fresh, Silent, S!HeaderDone
  <2>9. Kinds' /\ Stands'
    BY <1>1, <1>2, <1>5, <2>4, <2>5, <2>7 DEF Kinds, Stands
  <2>10. Begins'
    BY <1>2, <1>5, <2>2, <2>5, <2>6, <2>7, <2>8 DEF Begins
  <2>11. NothingBack'
    <3> SUFFICES ASSUME Silent
                 PROVE  NothingBack'
      BY <2>8 DEF NothingBack
    <3>1. /\ link.down = <<>> /\ near.taken[Svr] = 0
          /\ IsOpen(u) => u.sent = 0
          /\ browser.got = <<>> /\ host.got = <<>> /\ host.sent = 0
          /\ req.connect => browser.sent <= req.end
      BY <1>5 DEF NothingBack
    <3>2. near'.taken[Svr] = 0
      BY <2>2, <2>3, <3>1
    <3>3. v = <<>>
      <4>1. v # <<>> => Len(b.out \o v) <= 0 /\ b.out \o v \in Seq(Byte)
        BY <2>2, <3>1 DEF Run
      <4> QED
        BY <4>1
    <3>4. browser'.got = <<>>
      BY <2>5, <3>1, <3>3
    <3>5. IsOpen(U) => U.sent = 0
      BY <2>2, <3>1 DEF Wrote, Blank
    <3> QED
      BY <1>1, <2>6, <3>1, <3>2, <3>4, <3>5 DEF NothingBack
  <2>12. HeadFits'
    BY <1>2, <1>5, <2>6 DEF HeadFits, S!HeaderDone
  <2>13. /\ Len(link.up) \in Nat /\ Len(w) \in Nat /\ SndBuf \in Nat
        /\ browser.sent \in Nat /\ host.sent \in Nat /\ Len(Greeting) \in Nat
        /\ u.sent \in Nat /\ u.room \in Nat /\ Len(u.out) \in Nat
        /\ near.taken[Cli] \in Nat /\ near.taken[Svr] \in Nat
        /\ near'.taken[Cli] \in Nat /\ near'.taken[Svr] \in Nat
    BY <2>3, <2>7, Counts, SocketCounts
  <2>14. IsOpen(l) => far.flag /\ link.st = "up"
    <3>1. IsOpen(l) => far.flag
      BY FarSlot DEF TInv, Programs, IsOpen
    <3> QED
      BY <1>5, <3>1 DEF Begins
  <2>15. Fresh => link.st = "none" /\ link.up = <<>> /\ link.top = "open"
    BY <1>5 DEF Begins
  <2>16. /\ link.top # "open" => ~IsOpen(u)
         /\ link.bottom # "open" => ~IsOpen(l)
         /\ link.top = "gone" => link.up = <<>>
         /\ link.bottom = "gone" => link.down = <<>>
         /\ IsOpen(u) /\ u.fin => link.bottom = "gone"
         /\ IsOpen(l) /\ l.fin => link.top = "gone"
         /\ IsOpen(u) /\ u.rst => link.st = "up" /\ ~IsOpen(l)
         /\ IsOpen(l) /\ l.rst => ~IsOpen(u)
         /\ u.st = "syn" => link.st = "none"
         /\ u.st = "est" => link.st # "none"
         /\ l.st # "syn"
    BY <1>5 DEF EndsMeet
  <2>17. EndsMeet'
    <3>1. IsOpen(U) => link'.top = "open"
      BY <2>2, <2>7, <2>15, <2>16 DEF EndAfter, IsOpen
    <3>2. link.top = "gone" <=> link'.top = "gone"
      BY <2>7, <2>16 DEF EndAfter, IsOpen
    <3>3. link'.top = "gone" => link'.up = <<>>
      <4>1. link.top = "gone" => link.up = <<>> /\ w = <<>>
        BY <2>2, <2>16
      <4> QED
        BY <2>7, <3>2, <4>1
    <3>4. /\ IsOpen(U) /\ U.fin => link.bottom = "gone"
          /\ IsOpen(U) /\ U.rst => link.st = "up" /\ ~IsOpen(l)
          /\ IsOpen(l) /\ l.rst => ~IsOpen(U)
      BY <2>2, <2>14, <2>15, <2>16 DEF Wrote, Blank
    <3>5. /\ U.st = "syn" => link'.st = "none"
          /\ U.st = "est" => link'.st # "none"
      <4>1. U.st # "none" => U.st = u.st \/ link.st = "none"
        BY <2>2, <2>15 DEF Wrote, IsOpen
      <4> QED
        BY <2>7, <2>16, <4>1
    <3> QED
      BY <1>2, <2>7, <2>16, <3>1, <3>2, <3>3, <3>4, <3>5 DEF EndsMeet
  <2> DEFINE base == IF link.st = "up" THEN l.sent ELSE 0
  <2>18. /\ base \in Nat /\ Len(u.out) \in Nat
         /\ u.out \in Seq(Byte) /\ b.out \in Seq(Byte)
    BY <2>3, LenProperties DEF C!SocketType, S!SocketType
  <2>19. link.st # "up" \/ (IsOpen(l) /\ ~l.rst) =>
           /\ Run(link.up, Seal(req.bytes), base)
           /\ base + Len(link.up) <= browser.sent
           /\ IsOpen(u) => base + Len(link.up) = Len(u.out)
    BY <1>5 DEF Upward
  <2>20. Fresh => base = 0
    BY <2>15
  <2>21. near.taken[Cli] <= browser.sent
         /\ near.taken[Svr] <= Len(Greeting) + host.sent
    BY <1>5 DEF NothingEarly
  <2> HIDE DEF base
  <2>22. link.st # "up" \/ (IsOpen(l) /\ ~l.rst) =>
           /\ Run(link.up \o w, Seal(req.bytes), base)
           /\ base + Len(link.up \o w) <= browser.sent
           /\ IsOpen(U) => base + Len(link.up \o w) = Len(U.out)
    <3> SUFFICES ASSUME link.st # "up" \/ (IsOpen(l) /\ ~l.rst)
                 PROVE  /\ Run(link.up \o w, Seal(req.bytes), base)
                        /\ base + Len(link.up \o w) <= browser.sent
                        /\ IsOpen(U) => base + Len(link.up \o w) = Len(U.out)
      OBVIOUS
    <3>1. CASE w = <<>>
      <4>1. link.up \o w = link.up /\ u.out \o w = u.out
        BY <3>1
      <4>2. IsOpen(U) => base + Len(link.up) = Len(U.out)
        <5>1. IsOpen(u) /\ Wrote(u, U, w) => base + Len(link.up) = Len(U.out)
          BY <2>19, <4>1 DEF Wrote
        <5>2. Fresh /\ Blank(U) => base + Len(link.up) = Len(U.out)
          BY <2>15, <2>20 DEF Blank
        <5> QED
          BY <2>2, <5>1, <5>2
      <4> QED
        BY <2>19, <4>1, <4>2
    <3>2. CASE w # <<>>
      <4>1. IsOpen(u) /\ Run(w, Seal(req.bytes), Len(u.out))
        BY <2>2, <3>2
      <4>2. /\ Run(link.up, Seal(req.bytes), base)
            /\ Len(u.out) = base + Len(link.up)
        BY <2>19, <4>1
      <4>3. Run(link.up \o w, Seal(req.bytes), base)
        BY <4>1, <4>2, RunOn
      <4>4. base + Len(link.up \o w) = Len(u.out) + Len(w)
        BY <2>18, <4>2
      <4>5. base + Len(link.up \o w) <= browser.sent
        <5> DEFINE a == base + Len(link.up \o w)
                   n == Len(u.out) + Len(w)
                   k == near.taken[Cli]
        <5>1. n <= k /\ k <= browser.sent /\ a = n
          BY <2>2, <2>21, <3>2, <4>4
        <5>2. n \in Nat /\ k \in Nat /\ browser.sent \in Nat
          BY <2>13
        <5> HIDE DEF a, n, k
        <5>3. a <= browser.sent
          BY <5>1, <5>2
        <5> QED
          BY <5>3 DEF a
      <4>6. IsOpen(U) => Len(U.out) = Len(u.out) + Len(w)
        <5>1. Len(u.out \o w) = Len(u.out) + Len(w)
          OBVIOUS
        <5>2. IsOpen(U) => U.out = u.out \o w
          BY <2>2, <4>1 DEF Wrote
        <5> QED
          BY <5>1, <5>2
      <4> QED
        BY <4>3, <4>4, <4>5, <4>6
    <3> QED
      BY <3>1, <3>2
  <2>23. Upward'
    BY <1>2, <2>5, <2>6, <2>7, <2>22 DEF Upward, Seal, Run, base
  <2>24. Downward'
    <3>1. link.st = "up" /\ IsOpen(U) /\ ~U.rst =>
            IsOpen(u) /\ ~u.rst /\ U.sent = u.sent
      BY <2>2, <2>15 DEF Wrote
    <3> QED
      BY <1>1, <1>2, <1>5, <2>6, <2>7, <2>8, <3>1 DEF Downward, Seal, Run
  <2>25. Rooms'
    <3>1. IsOpen(U) /\ ~U.rst => U.room + Len(link'.up) = SndBuf
      <4>1. IsOpen(u) /\ Wrote(u, U, w) /\ ~U.rst => U.room + Len(link'.up) = SndBuf
        <5>1. IsOpen(u) /\ ~u.rst => u.room + Len(link.up) = SndBuf
          BY <1>5 DEF Rooms
        <5>2. Wrote(u, U, w) /\ ~U.rst => ~u.rst
          BY DEF Wrote
        <5>3. Wrote(u, U, w) => U.room = u.room - Len(w)
          BY DEF Wrote
        <5>4. Len(link'.up) = Len(link.up) + Len(w)
          BY <2>7
        <5>5. u.room + Len(link.up) = SndBuf /\ U.room = u.room - Len(w)
                => U.room + Len(link'.up) = SndBuf
          <6> DEFINE r == u.room
                     n == Len(link.up)
                     d == Len(w)
                     rr == U.room
                     nn == Len(link'.up)
          <6>1. /\ r \in Nat /\ n \in Nat /\ d \in Nat /\ SndBuf \in Nat
                /\ nn = n + d
            BY <2>13, <5>4
          <6> HIDE DEF r, n, d, rr, nn
          <6>2. r + n = SndBuf /\ rr = r - d => rr + nn = SndBuf
            BY <6>1
          <6> QED
            BY <6>2 DEF r, n, d, rr, nn
        <5> QED
          BY <5>1, <5>2, <5>3, <5>5
      <4>2. Fresh /\ w = <<>> /\ Blank(U) => U.room + Len(link'.up) = SndBuf
        BY <2>7, <2>15, Buffers DEF Blank
      <4> QED
        BY <2>2, <4>1, <4>2
    <3> QED
      BY <1>2, <1>5, <2>7, <3>1 DEF Rooms
  <2>26. Outside'
    <3>1. /\ IsOpen(b) => b.sent = browser.sent /\ b.out = browser.got
          /\ IsOpen(far.sock[Svr]) => /\ far.sock[Svr].sent = host.sent
                                      /\ far.sock[Svr].out = host.got
          /\ browser.sent <= Len(req.bytes) /\ host.sent <= Len(Reply)
      BY <1>5 DEF Outside
    <3>2. IsOpen(B) => B.sent = browser'.sent /\ B.out = browser'.got
      BY <2>2, <2>5, <3>1 DEF Wrote
    <3> QED
      BY <1>1, <1>2, <2>6, <3>1, <3>2 DEF Outside
  <2>27. /\ near'.taken[Cli] <= IF IsOpen(b) THEN b.sent ELSE near.taken[Cli]
         /\ near'.taken[Svr] <= IF IsOpen(u) THEN u.sent ELSE near.taken[Svr]
    BY <2>2
  <2>28. NothingEarly'
    <3>1. /\ IsOpen(b) => b.sent = browser.sent
          /\ IsOpen(u) => u.sent <= Len(Greeting) + host.sent
          /\ far.taken[Cli] <= browser.sent /\ far.taken[Svr] <= host.sent
          /\ IsOpen(l) => l.sent <= browser.sent
      BY <1>5 DEF NothingEarly, Outside
    <3>2. near'.taken[Cli] <= browser.sent
      <4>1. CASE IsOpen(b)
        BY <2>27, <3>1, <4>1
      <4>2. CASE ~IsOpen(b)
        <5>1. near'.taken[Cli] <= near.taken[Cli] /\ near.taken[Cli] <= browser.sent
          BY <2>21, <2>27, <4>2
        <5>2. /\ near'.taken[Cli] \in Nat /\ near.taken[Cli] \in Nat
              /\ browser.sent \in Nat
          BY <2>13
        <5> QED
          BY <5>1, <5>2
      <4> QED
        BY <4>1, <4>2
    <3>3. near'.taken[Svr] <= Len(Greeting) + host.sent
      <4> DEFINE n == Len(Greeting) + host.sent
      <4>1. /\ near'.taken[Svr] \in Nat /\ near.taken[Svr] \in Nat
            /\ n \in Nat /\ u.sent \in Nat
        BY <2>13
      <4>2. /\ IsOpen(u) => near'.taken[Svr] <= u.sent /\ u.sent <= n
            /\ ~IsOpen(u) => near'.taken[Svr] <= near.taken[Svr]
            /\ near.taken[Svr] <= n
        BY <2>21, <2>27, <3>1
      <4> HIDE DEF n
      <4>3. near'.taken[Svr] <= n
        <5>1. CASE IsOpen(u)
          BY <4>1, <4>2
        <5>2. CASE ~IsOpen(u)
          BY <4>1, <4>2
        <5> QED
          BY <5>1, <5>2
      <4> QED
        BY <4>3 DEF n
    <3>4. IsOpen(U) => U.sent <= Len(Greeting) + host.sent
      <4>1. 0 <= Len(Greeting) + host.sent
        BY <2>13
      <4> QED
        BY <2>2, <3>1, <4>1 DEF Wrote, Blank
    <3> QED
      BY <1>1, <1>2, <2>6, <3>1, <3>2, <3>3, <3>4 DEF NothingEarly
  <2>29. Arrived'
    <3>1. /\ Run(browser.got, Answer, 0)
          /\ Len(browser.got) <= Len(Greeting) + host.sent
      BY <1>5 DEF Arrived
    <3>2. /\ Run(browser.got \o v, Answer, 0)
          /\ Len(browser.got \o v) <= Len(Greeting) + host.sent
      <4>1. CASE v = <<>>
        BY <3>1, <4>1
      <4>2. CASE v # <<>>
        <5>1. b.out = browser.got
          BY <1>5, <2>2, <4>2 DEF Outside
        <5>2. /\ Run(browser.got \o v, Answer, 0)
              /\ Len(browser.got \o v) <= near.taken[Svr]
          BY <2>2, <4>2, <5>1
        <5>3. Len(browser.got \o v) \in Nat
          OBVIOUS
        <5>4. near.taken[Svr] \in Nat
          BY <2>3
        <5> HIDE DEF b, u
        <5> QED
          BY <2>21, <5>2, <5>3, <5>4, Counts, SMTT(30)
      <4> QED
        BY <4>1, <4>2
    <3> QED
      BY <1>1, <1>5, <2>6, <3>2 DEF Arrived, Run
  <2> QED
    BY <1>4, <2>9, <2>10, <2>11, <2>12, <2>17, <2>23, <2>24, <2>25, <2>26, <2>28,
       <2>29 DEF Between
<1> QED
  BY <1>1, <1>6, <1>7

LEMMA ServerAcceptsKeeps ==
    ASSUME TInv, ServerAccepts
    PROVE  StepsOf /\ Between'
<1> DEFINE q == Sealed(browser.req)
           d == S!Accepted(S!InitServerSession(q))
           u == near.sock[Svr]
<1>1. /\ client' = client /\ browser' = browser /\ host' = host
      /\ link.st = "backlog" /\ link' = [link EXCEPT !.st = "up"]
      /\ S!AgentAccepts(0, S!InitServerSession(q), TRUE)
  BY DEF ServerAccepts
<1>2. C!vars' = C!vars /\ near' = near /\ c_idle' = c_idle
  BY <1>1 DEF client, C!vars, near
<1>3. S!Next
  <2>1. 0 \in {0} /\ TRUE \in BOOLEAN /\ q \in {Sealed(p) : p \in Requests}
    BY Shapes DEF req
  <2>2. S!Accept
    BY <1>1, <2>1 DEF S!Accept
  <2> QED
    BY <2>2 DEF S!Next, S!HandleAgentEvent
<1>4. /\ Kinds /\ Stands /\ Begins /\ NothingBack /\ HeadFits /\ EndsMeet
      /\ Upward /\ Downward /\ Rooms /\ Outside /\ NothingEarly /\ Arrived
      /\ S!Sound
  BY DEF TInv, Between, Programs
<1>5. S!FirstFree = 0
  <2>1. S!FirstFree \in S!Slot
    <3>1. s_s_index \in S!Slot /\ ~S!PoolFull
      BY <1>1, <1>4 DEF S!Sound, S!Inv, S!TypeOK, S!AgentAccepts
    <3> QED
      BY <3>1, S!FirstFreeIsFree, ServerConstants, Zenon
  <2> QED
    BY <2>1, Sides
<1>6. far' = d /\ s_idle'[0] = 0
  <2>1. /\ s_conn' = [s_conn EXCEPT ![0] = d]
        /\ s_idle' = [S!Aged(0) EXCEPT ![0] = 0]
    BY <1>1, <1>5 DEF S!AgentAccepts
  <2>2. DOMAIN s_conn = {0} /\ DOMAIN S!Aged(0) = {0}
    BY <1>4, FarSlot, Sides DEF S!Aged
  <2> QED
    BY <2>1, <2>2 DEF far
<1>7. /\ d.flag /\ d.req = q /\ d.status[Cli] = "INIT"
      /\ d.taken[Cli] = 0 /\ d.taken[Svr] = 0
      /\ Blank(d.sock[Cli]) /\ d.sock[Cli].st = "est"
      /\ d.sock[Svr].st = "none"
  BY Sides DEF S!Accepted, S!InitServerSession, S!InitSession, S!EmptySlot,
     S!EpollAdd, S!NewSocket, S!NoSocket, S!Cli, S!Svr, Blank
<1> HIDE DEF d, q
<1>8. /\ link'.st = "up" /\ link'.up = link.up /\ link'.down = link.down
      /\ link'.top = link.top /\ link'.bottom = link.bottom
      /\ link' \in LinkType
  BY <1>1, <1>4 DEF Kinds, LinkType
<1>9. /\ req' = req /\ Answer' = Answer /\ Asked' = Asked
      /\ Greeting' = Greeting /\ Skip' = Skip
  BY <1>1, SameRequest
<1>10. /\ Silent /\ ~Fresh /\ ~Fresh' /\ link.down = <<>> /\ link.bottom = "open"
       /\ IsOpen(u) => u.sent = 0 /\ ~u.rst
       /\ browser.sent \in Nat /\ host.sent \in Nat /\ SndBuf \in Nat
       /\ Len(Greeting) \in Nat
  <2>1. Silent /\ ~Fresh /\ link.down = <<>> /\ link.bottom = "open"
    BY <1>1, <1>4 DEF Silent, Begins
  <2>2. IsOpen(u) => u.sent = 0 /\ ~u.rst
    BY <1>1, <1>4, <2>1 DEF NothingBack, EndsMeet
  <2>3. ~Fresh'
    BY <1>1, <1>2, <2>1 DEF Fresh
  <2> QED
    BY <2>1, <2>2, <2>3, Counts
<1>11. Kinds' /\ Stands'
  BY <1>1, <1>2, <1>4, <1>6, <1>8 DEF Kinds, Stands
<1>12. Begins'
  <2>1. far'.req = Sealed(req')
    BY <1>6, <1>7, <1>9 DEF req, q
  <2> QED
    BY <1>1, <1>2, <1>4, <1>9, <1>10, <2>1 DEF Begins
<1>13. NothingBack' /\ HeadFits'
  <2>1. ~S!HeaderDone(far')
    BY <1>6, <1>7, Sides DEF S!HeaderDone
  <2>2. HeadFits'
    BY <2>1 DEF HeadFits, S!HeaderDone
  <2>3. NothingBack'
    BY <1>1, <1>2, <1>4, <1>9, <1>10 DEF NothingBack
  <2> QED
    BY <2>2, <2>3
<1>14. EndsMeet'
  BY <1>1, <1>2, <1>4, <1>6, <1>7, <1>10 DEF EndsMeet, IsOpen, Blank
<1>15. Upward'
  <2>1. /\ Run(link.up, Seal(req.bytes), 0)
        /\ 0 + Len(link.up) <= browser.sent
        /\ IsOpen(u) => 0 + Len(link.up) = Len(u.out)
    BY <1>1, <1>4 DEF Upward
  <2>2. far'.sock[Cli].sent = 0
    BY <1>6, <1>7 DEF Blank
  <2> QED
    BY <1>1, <1>2, <1>8, <1>9, <2>1, <2>2 DEF Upward, Seal, Run
<1>16. Downward'
  <2>1. Run(<<>>, Seal(Answer), 0)
    BY Shapes, RunNothing
  <2>2. Len(far'.sock[Cli].out) = 0
    BY <1>6, <1>7 DEF Blank
  <2>3. IsOpen(u) =>
          /\ Run(link.down, Seal(Answer), u.sent)
          /\ u.sent + Len(link.down) <= Len(Greeting) + host.sent
          /\ u.sent + Len(link.down) = Len(far'.sock[Cli].out)
    BY <1>10, <2>1, <2>2
  <2> QED
    BY <1>1, <1>2, <1>9, <2>3 DEF Downward, Seal, Run
<1>17. Rooms'
  BY <1>2, <1>4, <1>6, <1>7, <1>8, <1>10 DEF Rooms, Blank
<1>18. Outside'
  BY <1>1, <1>2, <1>4, <1>6, <1>7, <1>9 DEF Outside, IsOpen
<1>19. NothingEarly'
  <2>1. 0 <= browser.sent /\ 0 <= host.sent
    BY <1>10
  <2>2. /\ far'.taken[Cli] <= browser.sent /\ far'.taken[Svr] <= host.sent
        /\ far'.sock[Cli].sent <= browser.sent
    BY <1>6, <1>7, <2>1 DEF Blank
  <2> QED
    BY <1>1, <1>2, <1>4, <1>9, <2>2 DEF NothingEarly
<1>20. Arrived'
  BY <1>1, <1>4, <1>9 DEF Arrived, Run
<1> QED
  BY <1>2, <1>3, <1>11, <1>12, <1>13, <1>14, <1>15, <1>16, <1>17, <1>18, <1>19, <1>20
     DEF StepsOf, Between

\* One event of the server's.
LEMMA ServerTurn ==
    ASSUME TInv, Programs', NEW e \in s_batch,
           S!HandleSvrEvent(e) \/ S!HandleCliEvent(e)
    PROVE  LET v == ServerWrites(Cli, e)
               w == ServerWrites(Svr, e)
               l == far.sock[Cli]
               h == far.sock[Svr]
           IN  /\ far.flag
               /\ far'.flag =>
                    /\ far'.req = Sealed(req)
                    /\ S!HeaderDone(far) => S!HeaderDone(far') /\ far'.head = far.head
               /\ v \in Seq(Byte) /\ w \in Seq(Byte)
               /\ IsOpen(far'.sock[Cli]) => IsOpen(l) /\ Wrote(l, far'.sock[Cli], v)
               /\ IsOpen(far'.sock[Svr]) =>
                    \/ IsOpen(h) /\ Wrote(h, far'.sock[Svr], w)
                    \/ ~IsOpen(h) /\ Silent /\ w = <<>> /\ Blank(far'.sock[Svr])
               /\ v # <<>> => /\ S!HeaderDone(far) /\ IsOpen(l) /\ ~l.rst
                              /\ Run(v, Seal(Answer), Len(l.out))
                              /\ Len(l.out) + Len(v) <= Len(Greeting) + far.taken[Svr]
               /\ w # <<>> => /\ S!HeaderDone(far) /\ IsOpen(h)
                              /\ Run(h.out \o w, Asked, 0)
                              /\ Len(h.out \o w) <= far.taken[Cli] - Skip
               /\ \A x \in {Cli, Svr} :
                    far'.taken[x] <= IF IsOpen(far.sock[x])
                                     THEN far.sock[x].sent ELSE far.taken[x]
<1>1. S!Sound /\ S!Sound' /\ S!Quiet /\ Begins /\ HeadFits
  BY DEF TInv, Programs, Between
<1>2. FarMoves(e)
  BY <1>1, ServerSees
<1>3. far.flag /\ far.req = Sealed(req) /\ req \in Requests
      /\ (req.connect /\ S!HeaderDone(far) => Len(far.head) = req.end)
  BY <1>1, <1>2, Shapes DEF FarMoves, Begins, HeadFits
<1>4. \A x \in {Cli, Svr} :
        /\ far.fd[x] <=> IsOpen(far.sock[x])
        /\ far'.fd[x] <=> IsOpen(far'.sock[x])
        /\ far'.fd[x] => far'.flag
        /\ far'.sock[x] \in S!SocketType /\ far.sock[x] \in S!SocketType
        /\ far'.taken[x] \in Nat /\ far.taken[x] \in Nat
  BY <1>1, FarSlot, FarSlotAfter DEF IsOpen
<1>5. \A x \in {Cli, Svr} :
        far'.taken[x] <= IF IsOpen(far.sock[x])
                         THEN far.sock[x].sent ELSE far.taken[x]
  <2> SUFFICES ASSUME NEW x \in {Cli, Svr}
               PROVE  far'.taken[x] <= IF IsOpen(far.sock[x])
                                       THEN far.sock[x].sent ELSE far.taken[x]
    OBVIOUS
  <2> DEFINE p == IF IsOpen(far.sock[x]) THEN far.sock[x].sent ELSE far.taken[x]
  <2>1. p \in Nat /\ far'.taken[x] \in Nat
    BY <1>4 DEF S!SocketType
  <2>2. S!Pending(far, x) = p
    BY <1>1, <1>3, FarHas
  <2>3. CASE far'.flag
    <3>1. S!Pending(far', x) <= p
      BY <1>2, <2>2, <2>3 DEF FarMoves
    <3> HIDE DEF p
    <3>2. far'.taken[x] <= p
      BY <2>1, <3>1 DEF S!Pending
    <3> QED
      BY <3>2 DEF p
  <2>4. CASE ~far'.flag
    <3>1. far'.taken[x] = 0
      BY <1>1, <2>4, FarSlotAfter, Sides DEF S!Kept
    <3> HIDE DEF p
    <3>2. far'.taken[x] <= p
      BY <2>1, <3>1
    <3> QED
      BY <3>2 DEF p
  <2> QED
    BY <2>3, <2>4
<1>6. far'.flag =>
        /\ far'.req = Sealed(req)
        /\ S!HeaderDone(far) => S!HeaderDone(far') /\ far'.head = far.head
  BY <1>2, <1>3 DEF FarMoves
<1> DEFINE v == ServerWrites(Cli, e)
           w == ServerWrites(Svr, e)
<1>7. /\ v \in Seq(Byte) /\ w \in Seq(Byte)
      /\ v # <<>> => /\ IsOpen(far.sock[Cli]) /\ ~far.sock[Cli].rst
                     /\ S!HeaderDone(far)
      /\ w # <<>> => IsOpen(far.sock[Svr]) /\ S!HeaderDone(far)
  BY <1>2, <1>4 DEF FarMoves
<1>8. IsOpen(far'.sock[Cli]) =>
        IsOpen(far.sock[Cli]) /\ Wrote(far.sock[Cli], far'.sock[Cli], v)
  BY <1>2, <1>4, Sides DEF FarMoves, S!Given, Wrote
<1>9. IsOpen(far'.sock[Svr]) =>
        \/ IsOpen(far.sock[Svr]) /\ Wrote(far.sock[Svr], far'.sock[Svr], w)
        \/ /\ ~IsOpen(far.sock[Svr]) /\ Silent /\ w = <<>>
           /\ Blank(far'.sock[Svr])
  <2> SUFFICES ASSUME IsOpen(far'.sock[Svr])
               PROVE  \/ /\ IsOpen(far.sock[Svr])
                         /\ Wrote(far.sock[Svr], far'.sock[Svr], w)
                      \/ /\ ~IsOpen(far.sock[Svr]) /\ Silent /\ w = <<>>
                         /\ Blank(far'.sock[Svr])
    OBVIOUS
  <2>1. CASE far.fd[Svr] /\ S!Given(far.sock[Svr], far'.sock[Svr], w)
    BY <1>4, <2>1 DEF S!Given, Wrote
  <2>2. CASE /\ ~far.fd[Svr] /\ ~S!HeaderDone(far) /\ w = <<>>
             /\ S!Opened(far'.sock[Svr])
    <3>1. S!Given(S!NewSocket(far'.sock[Svr].st), far'.sock[Svr], <<>>)
      BY <2>2 DEF S!Opened
    <3>2. /\ SndBuf - Len(<<>>) = SndBuf /\ <<>> \o <<>> = <<>>
      BY Buffers
    <3>3. Blank(far'.sock[Svr])
      BY <3>1, <3>2 DEF S!Given, S!NewSocket, S!NoSocket, Blank
    <3> QED
      BY <1>3, <1>4, <2>2, <3>3 DEF Silent
  <2> QED
    BY <1>2, <1>4, <2>1, <2>2 DEF FarMoves
<1>10. /\ v # <<>> =>
            /\ Run(v, Seal(Answer), Len(far.sock[Cli].out))
            /\ Len(far.sock[Cli].out) + Len(v) <= Len(Greeting) + far.taken[Svr]
       /\ w # <<>> => /\ Run(far.sock[Svr].out \o w, Asked, 0)
                      /\ Len(far.sock[Svr].out \o w) <= far.taken[Cli] - Skip
  BY <1>1, <1>3, ServerContinues
<1> QED
  BY <1>3, <1>5, <1>6, <1>7, <1>8, <1>9, <1>10

LEMMA ServerHandlesKeeps ==
    ASSUME TInv, NEW e \in s_batch, ServerHandles(e)
    PROVE  StepsOf /\ Between'
<1> DEFINE v == ServerWrites(Cli, e)
           w == ServerWrites(Svr, e)
<1>1. /\ client' = client /\ browser' = browser
      /\ S!SkipEvent(e) \/ S!HandleSvrEvent(e) \/ S!HandleCliEvent(e)
      /\ host' = [host EXCEPT !.got = @ \o w]
      /\ link' = [link EXCEPT
           !.down = @ \o v,
           !.bottom = EndAfter(@, far.sock[Cli], far'.sock[Cli])]
  BY DEF ServerHandles, Lower
<1>2. C!vars' = C!vars /\ near' = near /\ c_idle' = c_idle
  BY <1>1 DEF client, C!vars, near
<1>3. S!Next
  <2>1. S!Dispatch
    BY <1>1 DEF S!Dispatch
  <2> QED
    BY <2>1 DEF S!Next, S!HandleConnectionsEvent
<1>4. StepsOf
  BY <1>2, <1>3 DEF StepsOf
<1>5. /\ Kinds /\ Stands /\ Begins /\ NothingBack /\ HeadFits /\ EndsMeet
      /\ Upward /\ Downward /\ Rooms /\ Outside /\ NothingEarly /\ Arrived
      /\ S!Sound
  BY DEF TInv, Between, Programs
<1>6. CASE S!SkipEvent(e)
  <2>1. s_conn' = s_conn /\ s_idle' = s_idle /\ ~s_conn[e.slot].flag
    BY <1>6 DEF S!SkipEvent
  <2>2. e.slot = 0
    BY <1>5, Sides DEF S!Sound, S!Inv, S!TypeOK, S!EventType
  <2>3. far' = far /\ ~far.flag
    BY <2>1, <2>2 DEF far
  <2>4. v = <<>> /\ w = <<>>
    BY <2>3 DEF ServerWrites, S!WrittenBy
  <2>5. far.sock[Cli].st = "none"
    BY <1>5, <2>3, FarSlot
  <2> HIDE DEF v, w
  <2>6. host' = host
    <3>1. host.got \o w = host.got
      BY <2>4
    <3> QED
      BY <1>1, <1>5, <3>1 DEF Kinds, HostType
  <2>7. link' = link
    <3>1. link.down \o v = link.down
      BY <2>4
    <3>2. EndAfter(link.bottom, far.sock[Cli], far'.sock[Cli]) = link.bottom
      BY <2>5 DEF EndAfter
    <3> QED
      BY <1>1, <1>5, <3>1, <3>2 DEF Kinds, LinkType
  <2>8. c_idle'[0] = 0 /\ s_idle'[0] = 0
    BY <1>2, <1>5, <2>1 DEF Stands
  <2> QED
    BY <1>1, <1>2, <1>4, <2>3, <2>6, <2>7, <2>8, NothingSeen
<1>7. CASE S!HandleSvrEvent(e) \/ S!HandleCliEvent(e)
  <2> DEFINE l == far.sock[Cli]
             h == far.sock[Svr]
             L == far'.sock[Cli]
             H == far'.sock[Svr]
             u == near.sock[Svr]
  <2>1. Programs'
    BY <1>4, ProgramsKept
  <2>2. /\ far.flag
        /\ far'.flag =>
             /\ far'.req = Sealed(req)
             /\ S!HeaderDone(far) => S!HeaderDone(far') /\ far'.head = far.head
        /\ v \in Seq(Byte) /\ w \in Seq(Byte)
        /\ IsOpen(L) => IsOpen(l) /\ Wrote(l, L, v)
        /\ IsOpen(H) =>
             \/ IsOpen(h) /\ Wrote(h, H, w)
             \/ ~IsOpen(h) /\ Silent /\ w = <<>> /\ Blank(H)
        /\ v # <<>> => /\ S!HeaderDone(far) /\ IsOpen(l) /\ ~l.rst
                       /\ Run(v, Seal(Answer), Len(l.out))
                       /\ Len(l.out) + Len(v) <= Len(Greeting) + far.taken[Svr]
        /\ w # <<>> => /\ S!HeaderDone(far) /\ IsOpen(h)
                       /\ Run(h.out \o w, Asked, 0)
                       /\ Len(h.out \o w) <= far.taken[Cli] - Skip
        /\ far'.taken[Cli] <= IF IsOpen(l) THEN l.sent ELSE far.taken[Cli]
        /\ far'.taken[Svr] <= IF IsOpen(h) THEN h.sent ELSE far.taken[Svr]
    BY <1>7, <2>1, ServerTurn
  <2>3. /\ l \in S!SocketType /\ L \in S!SocketType
        /\ h \in S!SocketType /\ H \in S!SocketType /\ u \in C!SocketType
        /\ far.taken[Cli] \in Nat /\ far.taken[Svr] \in Nat
        /\ far'.taken[Cli] \in Nat /\ far'.taken[Svr] \in Nat
    BY <2>1, FarSlot, FarSlotAfter, NearSlot DEF TInv, Programs
  <2>4. s_idle'[0] = 0
    <3>1. s_idle' = [s_idle EXCEPT ![e.slot] = 0]
      BY <1>7 DEF S!HandleSvrEvent, S!HandleCliEvent, S!HandleEvent
    <3>2. e.slot = 0 /\ s_idle \in [{0} -> 0 .. 1]
      BY <1>5, Sides DEF S!Sound, S!Inv, S!TypeOK, S!EventType
    <3> QED
      BY <3>1, <3>2
  <2> HIDE DEF v, w
  <2>5. /\ host'.sent = host.sent /\ host'.got = host.got \o w
        /\ host.got \o w \in Seq(Byte) /\ host' \in HostType
    <3>1. host.got \o w \in Seq(Byte)
      BY <2>2, Shapes
    <3> QED
      BY <1>1, <1>5, <3>1 DEF Kinds, HostType
  <2>6. /\ req' = req /\ Answer' = Answer /\ Asked' = Asked
        /\ Greeting' = Greeting /\ Skip' = Skip
    BY <1>1, SameRequest
  <2>7. /\ link'.st = link.st
        /\ link'.down = link.down \o v /\ link'.up = link.up
        /\ link'.bottom = EndAfter(link.bottom, l, L) /\ link'.top = link.top
        /\ link.down \o v \in Seq(Byte)
        /\ Len(link.down \o v) = Len(link.down) + Len(v)
        /\ Len(v) \in Nat /\ link' \in LinkType
    <3>1. /\ link.down \o v \in Seq(Byte)
          /\ Len(link.down \o v) = Len(link.down) + Len(v) /\ Len(v) \in Nat
      BY <2>2, Shapes
    <3>2. EndAfter(link.bottom, l, L) \in End
      BY <1>5 DEF EndAfter, End, Kinds, LinkType
    <3> QED
      BY <1>1, <1>5, <3>1, <3>2 DEF Kinds, LinkType
  <2>8. /\ Len(link.down) \in Nat /\ Len(v) \in Nat /\ SndBuf \in Nat
        /\ browser.sent \in Nat /\ host.sent \in Nat /\ Len(Greeting) \in Nat
        /\ l.sent \in Nat /\ l.room \in Nat /\ Len(l.out) \in Nat /\ Skip \in Nat
        /\ h.sent \in Nat /\ u.sent \in Nat
        /\ far.taken[Cli] \in Nat /\ far.taken[Svr] \in Nat
        /\ far'.taken[Cli] \in Nat /\ far'.taken[Svr] \in Nat
    BY <2>3, <2>7, Counts, SocketCounts
  <2>9. link.st = "up" /\ (Silent' => Silent) /\ Fresh' = Fresh
    <3>1. link.st = "up"
      BY <1>5, <2>2 DEF Begins
    <3> QED
      BY <1>1, <1>2, <2>2, <3>1 DEF Fresh, Silent, S!HeaderDone
  <2>10. Silent => v = <<>> /\ w = <<>>
    BY <2>2, <2>9 DEF Silent
  <2>11. /\ IsOpen(h) => h.sent = host.sent /\ h.out = host.got
         /\ far.taken[Cli] <= browser.sent /\ far.taken[Svr] <= host.sent
         /\ IsOpen(l) => l.sent <= browser.sent
    BY <1>5 DEF NothingEarly, Outside
  <2>12. far'.taken[Cli] <= browser.sent /\ far'.taken[Svr] <= host.sent
    <3>1. /\ far'.taken[Cli] <= IF IsOpen(l) THEN l.sent ELSE far.taken[Cli]
          /\ far'.taken[Svr] <= IF IsOpen(h) THEN h.sent ELSE far.taken[Svr]
      BY <2>2
    <3>2. /\ IsOpen(h) => h.sent = host.sent
          /\ far.taken[Cli] <= browser.sent /\ far.taken[Svr] <= host.sent
          /\ IsOpen(l) => l.sent <= browser.sent
      BY <2>11
    <3>3. far'.taken[Cli] <= browser.sent
      <4>1. /\ far'.taken[Cli] \in Nat /\ far.taken[Cli] \in Nat
            /\ browser.sent \in Nat /\ l.sent \in Nat
        BY <2>8
      <4>2. CASE IsOpen(l)
        BY <3>1, <3>2, <4>1
      <4>3. CASE ~IsOpen(l)
        BY <3>1, <3>2, <4>1
      <4> QED
        BY <4>2, <4>3
    <3>4. far'.taken[Svr] <= host.sent
      <4>1. /\ far'.taken[Svr] \in Nat /\ far.taken[Svr] \in Nat
            /\ host.sent \in Nat
        BY <2>8
      <4>2. CASE IsOpen(h)
        BY <3>1, <3>2, <4>1
      <4>3. CASE ~IsOpen(h)
        BY <3>1, <3>2, <4>1
      <4> QED
        BY <4>2, <4>3
    <3> QED
      BY <3>3, <3>4
  <2>13. Kinds' /\ Stands'
    BY <1>1, <1>2, <1>5, <2>4, <2>5, <2>7 DEF Kinds, Stands
  <2>14. Begins'
    BY <1>1, <1>2, <1>5, <2>2, <2>6, <2>9 DEF Begins
  <2>15. NothingBack'
    <3> SUFFICES ASSUME Silent
                 PROVE  NothingBack'
      BY <2>9 DEF NothingBack
    <3>1. v = <<>> /\ w = <<>> /\ link.down = <<>> /\ host.got = <<>>
      BY <1>5, <2>10 DEF NothingBack
    <3>2. link'.down = <<>> /\ host'.got = <<>>
      BY <2>5, <2>7, <3>1
    <3> QED
      BY <1>1, <1>2, <1>5, <2>6, <3>2 DEF NothingBack
  <2>16. HeadFits'
    <3> SUFFICES ASSUME req.connect, far'.flag, S!HeaderDone(far')
                 PROVE  Len(far'.head) = req.end
      BY <2>6 DEF HeadFits, S!HeaderDone
    <3>1. CASE S!HeaderDone(far)
      BY <1>5, <2>2, <3>1 DEF HeadFits
    <3>2. CASE ~S!HeaderDone(far)
      <4>1. browser.sent <= req.end
        BY <1>5, <2>2, <3>2 DEF NothingBack, Silent
      <4>2. S!SlotOK(far') /\ S!Streams(far')
        BY <2>1, FarSlotAfter DEF Programs
      <4>3. far'.req.end <= Len(far'.head) /\ Len(far'.head) <= far'.taken[Cli]
        <5>1. far'.req.end <= Len(far'.head) /\ Len(far'.head) <= far'.taken[S!Cli]
          BY <4>2, S!HeadHoldsHeader, ServerConstants, Zenon
        <5> QED
          BY <5>1, Sides
      <4>4. far'.req.end = req.end
        BY <2>2, SealedType, Shapes
      <4>5. Len(far'.head) \in Nat /\ req.end \in Nat
        <5>1. far'.head \in Seq(Byte)
          BY <2>1, FarSlotAfter DEF S!SlotType, Programs
        <5> QED
          BY <5>1, Shapes, LenProperties
      <4>6. far'.taken[Cli] <= browser.sent
        BY <2>12
      <4>7. far'.taken[Cli] \in Nat /\ browser.sent \in Nat
        BY <2>8
      <4> DEFINE n == Len(far'.head)
                 k == far'.taken[Cli]
      <4>8. req.end <= n /\ n <= k
        BY <4>3, <4>4
      <4> HIDE DEF n, k
      <4>9. k \in Nat /\ n \in Nat /\ k <= browser.sent
        BY <4>6, <4>7 DEF n, k
      <4>10. n = req.end
        BY <4>1, <4>5, <4>7, <4>8, <4>9
      <4> QED
        BY <4>10 DEF n
    <3> QED
      BY <3>1, <3>2
  <2>17. /\ link.top # "open" => ~IsOpen(u)
         /\ link.bottom # "open" => ~IsOpen(l)
         /\ link.top = "gone" => link.up = <<>>
         /\ link.bottom = "gone" => link.down = <<>>
         /\ IsOpen(u) /\ u.fin => link.bottom = "gone"
         /\ IsOpen(l) /\ l.fin => link.top = "gone"
         /\ IsOpen(u) /\ u.rst => link.st = "up" /\ ~IsOpen(l)
         /\ IsOpen(l) /\ l.rst => ~IsOpen(u)
         /\ u.st = "syn" => link.st = "none"
         /\ u.st = "est" => link.st # "none"
         /\ l.st # "syn"
    BY <1>5 DEF EndsMeet
  <2>18. EndsMeet'
    <3>1. IsOpen(L) => link'.bottom = "open"
      BY <2>2, <2>7, <2>17 DEF EndAfter, IsOpen
    <3>2. link.bottom = "gone" <=> link'.bottom = "gone"
      BY <2>7, <2>17 DEF EndAfter, IsOpen
    <3>3. link'.bottom = "gone" => link'.down = <<>>
      <4>1. link.bottom = "gone" => link.down = <<>> /\ v = <<>>
        BY <2>2, <2>17
      <4> QED
        BY <2>7, <3>2, <4>1
    <3>4. /\ IsOpen(L) /\ L.fin => link.top = "gone"
          /\ IsOpen(u) /\ u.rst => ~IsOpen(L)
          /\ IsOpen(L) /\ L.rst => ~IsOpen(u)
          /\ L.st # "syn"
      BY <2>2, <2>17 DEF Wrote, IsOpen
    <3> QED
      BY <1>2, <2>7, <2>17, <3>1, <3>2, <3>3, <3>4 DEF EndsMeet
  <2>19. Upward'
    <3>1. IsOpen(L) /\ ~L.rst => IsOpen(l) /\ ~l.rst /\ L.sent = l.sent
      BY <2>2 DEF Wrote
    <3> QED
      BY <1>1, <1>2, <1>5, <2>6, <2>7, <3>1 DEF Upward, Seal, Run
  <2>20. IsOpen(u) /\ ~u.rst =>
           /\ Run(link.down, Seal(Answer), u.sent)
           /\ u.sent + Len(link.down) <= Len(Greeting) + host.sent
           /\ IsOpen(l) => u.sent + Len(link.down) = Len(l.out)
    BY <1>5, <2>9 DEF Downward
  <2>21. IsOpen(u) /\ ~u.rst =>
           /\ Run(link.down \o v, Seal(Answer), u.sent)
           /\ u.sent + Len(link.down \o v) <= Len(Greeting) + host.sent
           /\ IsOpen(L) => u.sent + Len(link.down \o v) = Len(L.out)
    <3> SUFFICES ASSUME IsOpen(u), ~u.rst
                 PROVE  /\ Run(link.down \o v, Seal(Answer), u.sent)
                        /\ u.sent + Len(link.down \o v) <= Len(Greeting) + host.sent
                        /\ IsOpen(L) => u.sent + Len(link.down \o v) = Len(L.out)
      OBVIOUS
    <3>1. CASE v = <<>>
      <4>1. link.down \o v = link.down /\ l.out \o v = l.out
        BY <3>1
      <4> QED
        BY <2>2, <2>20, <4>1 DEF Wrote
    <3>2. CASE v # <<>>
      <4>1. IsOpen(l) /\ Run(v, Seal(Answer), Len(l.out))
        BY <2>2, <3>2
      <4>2. /\ Run(link.down, Seal(Answer), u.sent)
            /\ Len(l.out) = u.sent + Len(link.down)
        BY <2>20, <4>1
      <4>3. Run(link.down \o v, Seal(Answer), u.sent)
        BY <4>1, <4>2, RunOn
      <4> DEFINE n == Len(link.down \o v)
      <4>4. n = Len(link.down) + Len(v)
        OBVIOUS
      <4>5. Len(l.out) + Len(v) <= Len(Greeting) + far.taken[Svr]
        BY <2>2, <3>2
      <4>6. Len(l.out) = u.sent + Len(link.down) /\ far.taken[Svr] <= host.sent
        BY <2>11, <4>2
      <4> HIDE DEF n
      <4>7. u.sent + n = Len(l.out) + Len(v) /\ u.sent + n <= Len(Greeting) + host.sent
        <5>1. /\ u.sent \in Nat /\ Len(link.down) \in Nat /\ Len(v) \in Nat
              /\ Len(l.out) \in Nat /\ Len(Greeting) \in Nat /\ host.sent \in Nat
              /\ far.taken[Svr] \in Nat
          BY <2>8
        <5> HIDE DEF l, u
        <5>2. u.sent + n = Len(l.out) + Len(v)
          BY <4>4, <4>6, <5>1
        <5>3. Len(l.out) + Len(v) <= Len(Greeting) + host.sent
          BY <4>5, <4>6, <5>1
        <5> QED
          BY <5>2, <5>3
      <4>8. IsOpen(L) => Len(L.out) = Len(l.out) + Len(v)
        <5>1. Len(l.out \o v) = Len(l.out) + Len(v)
          OBVIOUS
        <5>2. IsOpen(L) => L.out = l.out \o v
          BY <2>2 DEF Wrote
        <5> QED
          BY <5>1, <5>2
      <4> QED
        BY <4>3, <4>7, <4>8 DEF n
    <3> QED
      BY <3>1, <3>2
  <2>22. Downward'
    BY <1>2, <2>5, <2>6, <2>7, <2>21 DEF Downward, Seal, Run
  <2>23. Rooms'
    <3>1. IsOpen(L) /\ ~L.rst => L.room + Len(link'.down) = SndBuf
      <4>1. IsOpen(l) /\ ~l.rst => l.room + Len(link.down) = SndBuf
        BY <1>5 DEF Rooms
      <4>2. Wrote(l, L, v) /\ ~L.rst => ~l.rst
        BY DEF Wrote
      <4>3. Wrote(l, L, v) => L.room = l.room - Len(v)
        BY DEF Wrote
      <4>4. Len(link'.down) = Len(link.down) + Len(v)
        BY <2>7
      <4>5. l.room + Len(link.down) = SndBuf /\ L.room = l.room - Len(v)
              => L.room + Len(link'.down) = SndBuf
        BY <2>8, <4>4, SMTT(30)
      <4> QED
        BY <2>2, <4>1, <4>2, <4>3, <4>5
    <3> QED
      BY <1>2, <1>5, <2>7, <3>1 DEF Rooms
  <2>24. Outside'
    <3>1. IsOpen(H) => H.sent = host'.sent /\ H.out = host'.got
      <4>1. Silent => host.sent = 0 /\ host.got = <<>>
        BY <1>5 DEF NothingBack
      <4>2. <<>> \o <<>> = <<>>
        OBVIOUS
      <4> QED
        BY <2>2, <2>5, <2>11, <4>1, <4>2 DEF Wrote, Blank
    <3> QED
      BY <1>1, <1>2, <1>5, <2>6, <3>1 DEF Outside
  <2>25. NothingEarly'
    <3>1. IsOpen(L) => L.sent <= browser.sent
      BY <2>2, <2>11 DEF Wrote
    <3> QED
      BY <1>1, <1>2, <1>5, <2>6, <2>12, <3>1 DEF NothingEarly
  <2>26. Arrived'
    <3>1. /\ Run(host.got, Asked, 0)
          /\ host.got # <<>> => Len(host.got) <= browser.sent - Skip
      BY <1>5 DEF Arrived
    <3>2. /\ Run(host.got \o w, Asked, 0)
          /\ host.got \o w # <<>> => Len(host.got \o w) <= browser.sent - Skip
      <4>1. CASE w = <<>>
        <5>1. host.got \o w = host.got
          BY <4>1
        <5> QED
          BY <3>1, <5>1
      <4>2. CASE w # <<>>
        <5>1. h.out = host.got
          BY <2>2, <2>11, <4>2
        <5>2. /\ Run(host.got \o w, Asked, 0)
              /\ Len(host.got \o w) <= far.taken[Cli] - Skip
          BY <2>2, <4>2, <5>1
        <5>3. Len(host.got \o w) \in Nat
          OBVIOUS
        <5>4. far.taken[Cli] <= browser.sent /\ Len(host.got \o w) <= far.taken[Cli] - Skip
          BY <2>11, <5>2
        <5>5. Len(host.got \o w) <= browser.sent - Skip
          BY <2>8, <5>3, <5>4
        <5> QED
          BY <5>2, <5>5
      <4> QED
        BY <4>1, <4>2
    <3> QED
      BY <1>1, <1>5, <2>6, <3>2 DEF Arrived, Run
  <2> QED
    BY <1>4, <2>13, <2>14, <2>15, <2>16, <2>18, <2>19, <2>22, <2>23, <2>24, <2>25,
       <2>26 DEF Between
<1> QED
  BY <1>1, <1>6, <1>7

-----------------------------------------------------------------------------
(* The peers of the four sockets.                                           *)

\* What a step at a socket leaves alone in its slot.
SameNear ==
    /\ near'.flag = near.flag /\ near'.req = near.req
    /\ near'.status = near.status /\ near'.taken = near.taken
SameFar ==
    /\ far'.flag = far.flag /\ far'.req = far.req /\ far'.status = far.status
    /\ far'.taken = far.taken /\ far'.head = far.head

LEMMA NearPut ==
    ASSUME C!Sound, NEW x \in {Cli, Svr}, NEW k,
           c_conn' = [c_conn EXCEPT ![0].sock[x] = k]
    PROVE  /\ SameNear /\ near'.sock[x] = k
           /\ \A y \in {Cli, Svr} : y # x => near'.sock[y] = near.sock[y]
<1>1. near' = [near EXCEPT !.sock[x] = k] /\ near \in C!SlotType
  BY NearSlot DEF near
<1> QED
  BY <1>1, PutSocket DEF SameNear

LEMMA FarPut ==
    ASSUME S!Sound, NEW x \in {Cli, Svr}, NEW k,
           s_conn' = [s_conn EXCEPT ![0].sock[x] = k]
    PROVE  /\ SameFar /\ far'.sock[x] = k
           /\ \A y \in {Cli, Svr} : y # x => far'.sock[y] = far.sock[y]
<1>1. far' = [far EXCEPT !.sock[x] = k] /\ far \in S!SlotType
  BY FarSlot DEF far
<1> QED
  BY <1>1, PutSocket DEF SameFar

LEMMA NearPeers ==
    ASSUME NEW x \in {Cli, Svr},
           \/ C!PeerSends(0, x) \/ C!PeerShutsDown(0, x) \/ C!PeerResets(0, x)
           \/ C!PeerReceives(0, x) \/ C!HandshakeDone(0, x)
    PROVE  C!Next /\ C!Peer(0, x) /\ c_idle' = c_idle
<1>1. 0 \in C!Slot /\ x \in C!Side
  BY Sides
<1>2. C!Peer(0, x)
  BY DEF C!PeerSends, C!PeerShutsDown, C!PeerResets, C!PeerReceives, C!HandshakeDone
<1>3. C!PeerStep
  BY <1>1 DEF C!PeerStep
<1> QED
  BY <1>2, <1>3 DEF C!Next, C!Peer

LEMMA FarPeers ==
    ASSUME NEW x \in {Cli, Svr},
           \/ S!PeerSends(0, x) \/ S!PeerShutsDown(0, x) \/ S!PeerResets(0, x)
           \/ S!PeerReceives(0, x) \/ S!HandshakeDone(0, x)
    PROVE  S!Next /\ S!Peer(0, x) /\ s_idle' = s_idle
<1>1. 0 \in S!Slot /\ x \in S!Side
  BY Sides
<1>2. S!Peer(0, x)
  BY DEF S!PeerSends, S!PeerShutsDown, S!PeerResets, S!PeerReceives, S!HandshakeDone
<1>3. S!PeerStep
  BY <1>1 DEF S!PeerStep
<1> QED
  BY <1>2, <1>3 DEF S!Next, S!Peer

\* A step of the browser's or the host's: the link does not change.
LEMMA OutsideStep ==
    ASSUME TInv, link' = link, c_idle' = c_idle, s_idle' = s_idle,
           SameNear, near'.sock[Svr] = near.sock[Svr],
           SameFar, far'.sock[Cli] = far.sock[Cli],
           browser' \in BrowserType, host' \in HostType,
           browser'.req = browser.req, browser'.got = browser.got,
           browser'.st = "away" <=> browser.st = "away",
           host'.got = host.got,
           browser.sent <= browser'.sent, browser'.sent <= Len(req.bytes),
           host.sent <= host'.sent, host'.sent <= Len(Reply),
           browser.st = "away" => browser'.sent = browser.sent,
           Silent /\ req.connect => browser'.sent <= req.end,
           Silent => host'.sent = host.sent,
           IsOpen(near'.sock[Cli]) => /\ near'.sock[Cli].sent = browser'.sent
                                      /\ near'.sock[Cli].out = browser'.got,
           IsOpen(far'.sock[Svr]) => /\ far'.sock[Svr].sent = host'.sent
                                     /\ far'.sock[Svr].out = host'.got
    PROVE  Between'
<1>1. /\ req' = req /\ Answer' = Answer /\ Asked' = Asked
      /\ Greeting' = Greeting /\ Skip' = Skip
  BY SameRequest
<1>2. /\ Kinds /\ Stands /\ Begins /\ NothingBack /\ HeadFits /\ EndsMeet
      /\ Upward /\ Downward /\ Rooms /\ Outside /\ NothingEarly /\ Arrived
      /\ S!Sound /\ C!Sound
  BY DEF TInv, Between, Programs
<1>3. Fresh' = Fresh /\ Silent' = Silent
  BY DEF Fresh, Silent, S!HeaderDone, SameNear, SameFar
<1>4. Kinds' /\ Stands'
  BY <1>2 DEF Kinds, Stands
<1>5. Begins'
  BY <1>1, <1>2, <1>3 DEF Begins, SameNear, SameFar
<1>6. NothingBack'
  BY <1>1, <1>2, <1>3 DEF NothingBack, SameNear
<1>7. HeadFits'
  BY <1>1, <1>2 DEF HeadFits, S!HeaderDone, SameFar
<1>8. EndsMeet' /\ Rooms'
  BY <1>2 DEF EndsMeet, Rooms
<1>9. Outside'
  BY <1>1 DEF Outside
<1> DEFINE u == near.sock[Svr]
           l == far.sock[Cli]
           base == IF link.st = "up" THEN l.sent ELSE 0
<1>10. /\ u.sent \in Nat /\ l.sent \in Nat /\ base \in Nat
       /\ \A x \in {Cli, Svr} : near.taken[x] \in Nat /\ far.taken[x] \in Nat
  BY <1>2, NearSlot, FarSlot, SocketCounts
<1>11. /\ browser.sent \in Nat /\ browser'.sent \in Nat
       /\ host.sent \in Nat /\ host'.sent \in Nat
       /\ Len(Greeting) \in Nat /\ Skip \in Nat
       /\ Len(link.up) \in Nat /\ Len(link.down) \in Nat
       /\ Len(browser.got) \in Nat /\ Len(host.got) \in Nat
  <2>1. browser'.sent \in Nat /\ host'.sent \in Nat
    BY DEF BrowserType, HostType
  <2> QED
    BY <2>1, Shapes, LenProperties
<1>12. \A n \in Nat : /\ n <= browser.sent => n <= browser'.sent
                      /\ n <= host.sent => n <= host'.sent
                      /\ n <= Len(Greeting) + host.sent => n <= Len(Greeting) + host'.sent
                      /\ n <= browser.sent - Skip => n <= browser'.sent - Skip
  <2> DEFINE a == browser.sent
             b == browser'.sent
             c == host.sent
             d == host'.sent
             g == Len(Greeting)
  <2>1. /\ a \in Nat /\ b \in Nat /\ c \in Nat /\ d \in Nat /\ g \in Nat
        /\ Skip \in Nat
    BY <1>11
  <2>2. a <= b /\ c <= d
    OBVIOUS
  <2> HIDE DEF a, b, c, d, g
  <2>3. \A n \in Nat : /\ n <= a => n <= b
                       /\ n <= c => n <= d
                       /\ n <= g + c => n <= g + d
                       /\ n <= a - Skip => n <= b - Skip
    BY <2>1, <2>2
  <2> QED
    BY <2>3 DEF a, b, c, d, g
<1>13. base + Len(link.up) \in Nat /\ u.sent + Len(link.down) \in Nat
  <2>1. base \in Nat /\ u.sent \in Nat /\ Len(link.up) \in Nat /\ Len(link.down) \in Nat
    BY <1>10
  <2> HIDE DEF base, u
  <2> QED
    BY <2>1
<1> HIDE DEF base
<1>14. Upward'
  <2>1. link.st # "up" \/ (IsOpen(l) /\ ~l.rst) =>
          /\ Run(link.up, Seal(req.bytes), base)
          /\ base + Len(link.up) <= browser'.sent
          /\ IsOpen(u) => base + Len(link.up) = Len(u.out)
    BY <1>2, <1>12, <1>13 DEF Upward, base
  <2> QED
    BY <1>1, <2>1 DEF Upward, Seal, Run, base
<1>15. Downward'
  <2>1. link.st = "up" /\ IsOpen(u) /\ ~u.rst =>
          /\ Run(link.down, Seal(Answer), u.sent)
          /\ u.sent + Len(link.down) <= Len(Greeting) + host'.sent
          /\ IsOpen(l) => u.sent + Len(link.down) = Len(l.out)
    BY <1>2, <1>12, <1>13 DEF Downward
  <2> QED
    BY <1>1, <2>1 DEF Downward, Seal, Run
<1>16. NothingEarly'
  <2>1. /\ near.taken[Cli] <= browser'.sent
        /\ near.taken[Svr] <= Len(Greeting) + host'.sent
        /\ far.taken[Cli] <= browser'.sent /\ far.taken[Svr] <= host'.sent
        /\ IsOpen(u) => u.sent <= Len(Greeting) + host'.sent
        /\ IsOpen(l) => l.sent <= browser'.sent
    BY <1>2, <1>10, <1>12 DEF NothingEarly
  <2> QED
    BY <1>1, <2>1 DEF NothingEarly, SameNear, SameFar
<1>17. Arrived'
  <2>1. /\ Len(browser.got) <= Len(Greeting) + host'.sent
        /\ host.got # <<>> => Len(host.got) <= browser'.sent - Skip
    BY <1>2, <1>12 DEF Arrived
  <2> QED
    BY <1>1, <1>2, <2>1 DEF Arrived, Run
<1> QED
  BY <1>4, <1>5, <1>6, <1>7, <1>8, <1>9, <1>14, <1>15, <1>16, <1>17 DEF Between

\* A step of the browser's is one of the client's peers, a step of the host's
\* one of the server's.
LEMMA BrowserSendsKeeps ==
    ASSUME TInv, BrowserSends
    PROVE  StepsOf /\ Between'
<1>1. /\ server' = server /\ link' = link /\ host' = host
      /\ browser' = [browser EXCEPT !.sent = @ + 1]
      /\ browser.st = "open" /\ C!PeerSends(0, Cli)
      /\ req.connect /\ browser.sent = req.end => browser.got = Established
  BY DEF BrowserSends
<1>2. C!Next /\ c_idle' = c_idle /\ Cli \in {Cli, Svr} /\ Svr \in {Cli, Svr} /\ Svr # Cli
  BY <1>1, NearPeers, Sides
<1>3. S!vars' = S!vars /\ s_idle' = s_idle /\ far' = far
  BY <1>1 DEF server, S!vars, far
<1>4. C!Sound /\ NothingBack /\ Begins /\ Outside
  BY DEF TInv, Between, Programs
<1>5. /\ near.sock[Cli].st = "est" /\ near.sock[Cli] \in C!SocketType /\ near.flag
      /\ near.req = req /\ near.sock[Cli].sent = browser.sent
      /\ near.sock[Cli].out = browser.got
  BY <1>1, <1>4, NearSlot DEF C!PeerSends, near, Begins, Outside, IsOpen
<1> DEFINE k == near.sock[Cli]
           l == [k EXCEPT !.rx = Append(k.rx, C!PeerBytes(near, Cli)[k.sent + 1]),
                          !.sent = k.sent + 1]
<1>6. /\ k.sent < Len(C!PeerBytes(near, Cli))
      /\ c_conn' = [c_conn EXCEPT ![0].sock[Cli] = l]
  BY <1>1 DEF C!PeerSends, near
<1>7. l.sent = browser.sent + 1 /\ l.out = browser.got
  BY <1>5 DEF C!SocketType
<1>8. browser.sent < Len(req.bytes)
  BY <1>5, <1>6, ClientDue, Shapes
<1> HIDE DEF l
<1>9. SameNear /\ near'.sock[Cli] = l /\ near'.sock[Svr] = near.sock[Svr]
  BY <1>2, <1>4, <1>6, NearPut
<1>10. /\ browser \in BrowserType /\ host \in HostType
       /\ browser.sent \in Nat /\ Len(req.bytes) \in Nat
       /\ host.sent \in Nat /\ req.end \in Nat /\ Len(Established) # 0
  BY Shapes, TunnelAssumption
<1>11. /\ browser'.sent = browser.sent + 1 /\ browser'.got = browser.got
       /\ browser'.req = browser.req /\ browser'.st = browser.st
       /\ browser' \in BrowserType
  BY <1>1, <1>10 DEF BrowserType
<1>12. /\ browser.sent <= browser.sent + 1 /\ browser.sent + 1 <= Len(req.bytes)
       /\ host.sent <= host.sent
  BY <1>8, <1>10
<1>13. Silent /\ req.connect => browser.sent + 1 <= req.end
  <2> SUFFICES ASSUME Silent, req.connect PROVE browser.sent + 1 <= req.end
    OBVIOUS
  <2>1. browser.got = <<>> /\ browser.sent <= req.end
    BY <1>4 DEF NothingBack
  <2>2. browser.sent # req.end
    BY <1>1, <1>10, <2>1
  <2> QED
    BY <1>10, <2>1, <2>2
<1>14. IsOpen(near'.sock[Cli]) => /\ near'.sock[Cli].sent = browser'.sent
                                  /\ near'.sock[Cli].out = browser'.got
  BY <1>7, <1>9, <1>11
<1>15. /\ SameFar /\ host.sent <= Len(Reply)
       /\ IsOpen(far'.sock[Svr]) => /\ far'.sock[Svr].sent = host.sent
                                    /\ far'.sock[Svr].out = host.got
  BY <1>3, <1>4 DEF SameFar, Outside
<1>16. Between'
  BY <1>1, <1>2, <1>3, <1>9, <1>10, <1>11, <1>12, <1>13, <1>14, <1>15, OutsideStep
<1> QED
  BY <1>2, <1>3, <1>16 DEF StepsOf

\* What the others of the browser's do to its socket cannot be seen from
\* the link.
LEMMA BrowserRestKeeps ==
    ASSUME TInv, BrowserReads \/ BrowserCloses \/ BrowserResets
    PROVE  StepsOf /\ Between'
<1>1. /\ server' = server /\ link' = link /\ host' = host
      /\ browser'.sent = browser.sent /\ browser'.got = browser.got
      /\ browser'.req = browser.req /\ browser' \in BrowserType
      /\ browser'.st = "away" <=> browser.st = "away"
      /\ browser.st = "away" => browser'.sent = browser.sent
  <2>1. browser \in BrowserType
    BY Shapes
  <2> QED
    BY <2>1 DEF BrowserReads, BrowserCloses, BrowserResets, BrowserType
<1>2. C!PeerReceives(0, Cli) \/ C!PeerShutsDown(0, Cli) \/ C!PeerResets(0, Cli)
  BY DEF BrowserReads, BrowserCloses, BrowserResets
<1>3. C!Next /\ c_idle' = c_idle /\ Cli \in {Cli, Svr} /\ Svr \in {Cli, Svr} /\ Svr # Cli
  BY <1>2, NearPeers, Sides
<1>4. S!vars' = S!vars /\ s_idle' = s_idle /\ far' = far
  BY <1>1 DEF server, S!vars, far
<1>5. C!Sound /\ NothingBack /\ Outside
  BY DEF TInv, Between, Programs
<1>6. near.sock[Cli] \in C!SocketType /\ IsOpen(near.sock[Cli])
  BY <1>2, <1>5, NearSlot
     DEF C!PeerReceives, C!PeerShutsDown, C!PeerResets, C!Peer, near, IsOpen
<1>7. PICK l : /\ l.sent = near.sock[Cli].sent /\ l.out = near.sock[Cli].out
               /\ c_conn' = [c_conn EXCEPT ![0].sock[Cli] = l]
  <2> DEFINE k == near.sock[Cli]
  <2>1. ASSUME NEW n, c_conn' = [c_conn EXCEPT ![0].sock[Cli].room = n]
        PROVE  \E l : /\ l.sent = k.sent /\ l.out = k.out
                      /\ c_conn' = [c_conn EXCEPT ![0].sock[Cli] = l]
    <3>1. c_conn' = [c_conn EXCEPT ![0].sock[Cli] = [k EXCEPT !.room = n]]
      BY <2>1 DEF near
    <3> QED
      BY <1>6, <3>1 DEF C!SocketType
  <2>2. ASSUME c_conn' = [c_conn EXCEPT ![0].sock[Cli].fin = TRUE]
        PROVE  \E l : /\ l.sent = k.sent /\ l.out = k.out
                      /\ c_conn' = [c_conn EXCEPT ![0].sock[Cli] = l]
    <3>1. c_conn' = [c_conn EXCEPT ![0].sock[Cli] = [k EXCEPT !.fin = TRUE]]
      BY <2>2 DEF near
    <3> QED
      BY <1>6, <3>1 DEF C!SocketType
  <2>3. ASSUME c_conn' = [c_conn EXCEPT ![0].sock[Cli].rst = TRUE]
        PROVE  \E l : /\ l.sent = k.sent /\ l.out = k.out
                      /\ c_conn' = [c_conn EXCEPT ![0].sock[Cli] = l]
    <3>1. c_conn' = [c_conn EXCEPT ![0].sock[Cli] = [k EXCEPT !.rst = TRUE]]
      BY <2>3 DEF near
    <3> QED
      BY <1>6, <3>1 DEF C!SocketType
  <2> QED
    BY <1>2, <2>1, <2>2, <2>3 DEF C!PeerReceives, C!PeerShutsDown, C!PeerResets
<1>8. SameNear /\ near'.sock[Cli] = l /\ near'.sock[Svr] = near.sock[Svr]
  BY <1>3, <1>5, <1>7, NearPut
<1>9. near'.sock[Cli].sent = browser'.sent /\ near'.sock[Cli].out = browser'.got
  BY <1>1, <1>5, <1>6, <1>7, <1>8 DEF Outside
<1>10. /\ browser.sent \in Nat /\ host.sent \in Nat /\ host \in HostType
       /\ browser.sent <= Len(req.bytes) /\ host.sent <= Len(Reply)
       /\ Silent /\ req.connect => browser.sent <= req.end
       /\ IsOpen(far.sock[Svr]) => /\ far.sock[Svr].sent = host.sent
                                   /\ far.sock[Svr].out = host.got
  BY <1>5, Shapes DEF Outside, NothingBack
<1>11. browser.sent <= browser.sent /\ host.sent <= host.sent /\ SameFar
  BY <1>4, <1>10 DEF SameFar
<1>12. Between'
  BY <1>1, <1>3, <1>4, <1>8, <1>9, <1>10, <1>11, OutsideStep
<1> QED
  BY <1>3, <1>4, <1>12 DEF StepsOf

LEMMA HostSendsKeeps ==
    ASSUME TInv, HostSends
    PROVE  StepsOf /\ Between'
<1>1. /\ client' = client /\ link' = link /\ browser' = browser
      /\ host' = [host EXCEPT !.sent = @ + 1]
      /\ S!PeerSends(0, Svr)
  BY DEF HostSends
<1>2. S!Next /\ s_idle' = s_idle /\ Cli \in {Cli, Svr} /\ Svr \in {Cli, Svr} /\ Svr # Cli
  BY <1>1, FarPeers, Sides
<1>3. C!vars' = C!vars /\ c_idle' = c_idle /\ near' = near
  BY <1>1 DEF client, C!vars, near
<1>4. S!Sound /\ NothingBack /\ Begins /\ Outside /\ HeadFits
  BY DEF TInv, Between, Programs
<1>5. far.sock[Svr].st = "est" /\ IsOpen(far.sock[Svr])
  BY <1>1 DEF S!PeerSends, far, IsOpen
<1>6. /\ far.sock[Svr] \in S!SocketType /\ far.flag /\ S!HeaderDone(far)
      /\ far.req = Sealed(req) /\ link.st = "up"
      /\ far.sock[Svr].sent = host.sent /\ far.sock[Svr].out = host.got
  BY <1>4, <1>5, FarSlot, HostBehindHeader DEF Begins, Outside
<1> DEFINE k == far.sock[Svr]
           l == [k EXCEPT !.rx = Append(k.rx, S!PeerBytes(far, Svr)[k.sent + 1]),
                          !.sent = k.sent + 1]
<1>7. /\ k.sent < Len(S!PeerBytes(far, Svr))
      /\ s_conn' = [s_conn EXCEPT ![0].sock[Svr] = l]
  BY <1>1 DEF S!PeerSends, far
<1>8. l.sent = host.sent + 1 /\ l.out = host.got
  BY <1>6 DEF S!SocketType
<1>9. host.sent < Len(Reply)
  <2>1. req \in Requests /\ (req.connect => Len(far.head) = req.end)
    BY <1>4, <1>6, Shapes DEF HeadFits
  <2> QED
    BY <1>6, <1>7, <2>1, ServerDue
<1> HIDE DEF l
<1>10. SameFar /\ far'.sock[Svr] = l /\ far'.sock[Cli] = far.sock[Cli]
  BY <1>2, <1>4, <1>7, FarPut
<1>11. /\ browser \in BrowserType /\ host \in HostType
       /\ browser.sent \in Nat /\ Len(Reply) \in Nat /\ host.sent \in Nat
  BY Shapes
<1>12. host'.sent = host.sent + 1 /\ host'.got = host.got /\ host' \in HostType
  BY <1>1, <1>11 DEF HostType
<1>13. /\ browser.sent <= browser.sent /\ browser.sent <= Len(req.bytes)
       /\ host.sent <= host.sent + 1 /\ host.sent + 1 <= Len(Reply)
  BY <1>4, <1>9, <1>11 DEF Outside
<1>14. ~Silent
  BY <1>6 DEF Silent
<1>15. /\ Silent /\ req.connect => browser.sent <= req.end
       /\ SameNear
       /\ IsOpen(near'.sock[Cli]) => /\ near'.sock[Cli].sent = browser.sent
                                     /\ near'.sock[Cli].out = browser.got
  BY <1>3, <1>4, <1>14 DEF SameNear, Outside
<1>16. IsOpen(far'.sock[Svr]) => /\ far'.sock[Svr].sent = host'.sent
                                 /\ far'.sock[Svr].out = host'.got
  BY <1>8, <1>10, <1>12
<1>17. Between'
  BY <1>1, <1>2, <1>3, <1>10, <1>11, <1>12, <1>13, <1>14, <1>15, <1>16, OutsideStep
<1> QED
  BY <1>2, <1>3, <1>17 DEF StepsOf

LEMMA HostRestKeeps ==
    ASSUME TInv, HostConnects \/ HostReads \/ HostCloses
    PROVE  StepsOf /\ Between'
<1>1. /\ client' = client /\ link' = link /\ browser' = browser
      /\ host'.sent = host.sent /\ host'.got = host.got /\ host' \in HostType
  <2>1. host \in HostType
    BY Shapes
  <2> QED
    BY <2>1 DEF HostConnects, HostReads, HostCloses, HostType
<1>2. S!HandshakeDone(0, Svr) \/ S!PeerReceives(0, Svr) \/ S!PeerShutsDown(0, Svr)
  BY DEF HostConnects, HostReads, HostCloses
<1>3. S!Next /\ s_idle' = s_idle /\ Cli \in {Cli, Svr} /\ Svr \in {Cli, Svr} /\ Svr # Cli
  BY <1>2, FarPeers, Sides
<1>4. C!vars' = C!vars /\ c_idle' = c_idle /\ near' = near
  BY <1>1 DEF client, C!vars, near
<1>5. S!Sound /\ NothingBack /\ Outside
  BY DEF TInv, Between, Programs
<1>6. far.sock[Svr] \in S!SocketType /\ IsOpen(far.sock[Svr])
  BY <1>2, <1>5, FarSlot
     DEF S!PeerReceives, S!PeerShutsDown, S!HandshakeDone, S!Peer, far, IsOpen
<1>7. PICK l : /\ l.sent = far.sock[Svr].sent /\ l.out = far.sock[Svr].out
               /\ s_conn' = [s_conn EXCEPT ![0].sock[Svr] = l]
  <2> DEFINE k == far.sock[Svr]
  <2>1. ASSUME NEW n, s_conn' = [s_conn EXCEPT ![0].sock[Svr].room = n]
        PROVE  \E l : /\ l.sent = k.sent /\ l.out = k.out
                      /\ s_conn' = [s_conn EXCEPT ![0].sock[Svr] = l]
    <3>1. s_conn' = [s_conn EXCEPT ![0].sock[Svr] = [k EXCEPT !.room = n]]
      BY <2>1 DEF far
    <3> QED
      BY <1>6, <3>1 DEF S!SocketType
  <2>2. ASSUME s_conn' = [s_conn EXCEPT ![0].sock[Svr].fin = TRUE]
        PROVE  \E l : /\ l.sent = k.sent /\ l.out = k.out
                      /\ s_conn' = [s_conn EXCEPT ![0].sock[Svr] = l]
    <3>1. s_conn' = [s_conn EXCEPT ![0].sock[Svr] = [k EXCEPT !.fin = TRUE]]
      BY <2>2 DEF far
    <3> QED
      BY <1>6, <3>1 DEF S!SocketType
  <2>3. ASSUME s_conn' = [s_conn EXCEPT ![0].sock[Svr].st = "est"]
        PROVE  \E l : /\ l.sent = k.sent /\ l.out = k.out
                      /\ s_conn' = [s_conn EXCEPT ![0].sock[Svr] = l]
    <3>1. s_conn' = [s_conn EXCEPT ![0].sock[Svr] = [k EXCEPT !.st = "est"]]
      BY <2>3 DEF far
    <3> QED
      BY <1>6, <3>1 DEF S!SocketType
  <2> QED
    BY <1>2, <2>1, <2>2, <2>3 DEF S!PeerReceives, S!PeerShutsDown, S!HandshakeDone
<1>8. SameFar /\ far'.sock[Svr] = l /\ far'.sock[Cli] = far.sock[Cli]
  BY <1>3, <1>5, <1>7, FarPut
<1>9. far'.sock[Svr].sent = host'.sent /\ far'.sock[Svr].out = host'.got
  BY <1>1, <1>5, <1>6, <1>7, <1>8 DEF Outside
<1>10. /\ browser.sent \in Nat /\ host.sent \in Nat /\ browser \in BrowserType
       /\ browser.sent <= Len(req.bytes) /\ host.sent <= Len(Reply)
       /\ Silent /\ req.connect => browser.sent <= req.end
       /\ IsOpen(near.sock[Cli]) => /\ near.sock[Cli].sent = browser.sent
                                    /\ near.sock[Cli].out = browser.got
  BY <1>5, Shapes DEF Outside, NothingBack
<1>11. browser.sent <= browser.sent /\ host.sent <= host.sent /\ SameNear
  BY <1>4, <1>10 DEF SameNear
<1>12. Between'
  BY <1>1, <1>3, <1>4, <1>8, <1>9, <1>10, <1>11, OutsideStep
<1> QED
  BY <1>3, <1>4, <1>12 DEF StepsOf

-----------------------------------------------------------------------------
(* The link.                                                                *)

\* Putting back the socket that is there changes nothing.
LEMMA NearSelf ==
    ASSUME C!Sound
    PROVE  [c_conn EXCEPT ![0].sock[Svr] = near.sock[Svr]] = c_conn
<1>1. near \in C!SlotType /\ c_conn \in [{0} -> C!SlotType]
  BY NearSlot
<1>2. [near EXCEPT !.sock[Svr] = near.sock[Svr]] = near
  BY <1>1 DEF C!SlotType
<1>3. [c_conn EXCEPT ![0].sock[Svr] = near.sock[Svr]] = [c_conn EXCEPT ![0] = near]
  BY <1>2 DEF near
<1> QED
  BY <1>1, <1>3 DEF near

LEMMA FarSelf ==
    ASSUME S!Sound
    PROVE  [s_conn EXCEPT ![0].sock[Cli] = far.sock[Cli]] = s_conn
<1>1. far \in S!SlotType /\ s_conn \in [{0} -> S!SlotType]
  BY FarSlot
<1>2. [far EXCEPT !.sock[Cli] = far.sock[Cli]] = far
  BY <1>1 DEF S!SlotType
<1>3. [s_conn EXCEPT ![0].sock[Cli] = far.sock[Cli]] = [s_conn EXCEPT ![0] = far]
  BY <1>2 DEF far
<1> QED
  BY <1>1, <1>3 DEF far

\* What the link may do to the socket k of a program whose peer may send the
\* bytes `due`.
Moved(k, l, due) ==
    \/ l = k
    \/ /\ IsOpen(k) /\ ~k.rst
       /\ \/ l = [k EXCEPT !.rst = TRUE]
          \/ /\ k.st = "est"
             /\ \/ k.room + 1 \in k.room + 1 .. SndBuf /\ l = [k EXCEPT !.room = k.room + 1]
                \/ ~k.fin /\ l = [k EXCEPT !.fin = TRUE]
                \/ /\ ~k.fin /\ k.sent < Len(due)
                   /\ l = [k EXCEPT !.rx = Append(k.rx, due[k.sent + 1]),
                                    !.sent = k.sent + 1]

\* It is what the client's loop is given as a step of its peer,
LEMMA NearMoved ==
    ASSUME C!Sound, NEW l, c_conn' = [c_conn EXCEPT ![0].sock[Svr] = l], OthersStay,
           Moved(near.sock[Svr], l, C!PeerBytes(near, Svr))
    PROVE  [C!Next]_(C!vars)
<1> DEFINE k == near.sock[Svr]
<1>1. UNCHANGED <<c_idle, c_pc, c_batch, c_s_index, c_i_start, c_max_timeout, c_since>>
  BY DEF OthersStay
<1>2. CASE l = k
  <2>1. c_conn' = c_conn
    BY <1>2, NearSelf
  <2> QED
    BY <1>1, <2>1 DEF C!vars
<1>3. ASSUME IsOpen(k), ~k.rst,
             \/ C!PeerSends(0, Svr) \/ C!PeerShutsDown(0, Svr) \/ C!PeerResets(0, Svr)
             \/ C!PeerReceives(0, Svr)
      PROVE  C!Next
  BY <1>3, NearPeers
<1>4. ASSUME IsOpen(k), ~k.rst PROVE C!Peer(0, Svr)
  BY <1>1, <1>4 DEF C!Peer, IsOpen, near
<1>5. CASE IsOpen(k) /\ ~k.rst /\ l = [k EXCEPT !.rst = TRUE]
  <2>1. c_conn' = [c_conn EXCEPT ![0].sock[Svr].rst = TRUE]
    BY <1>5 DEF near
  <2>2. C!PeerResets(0, Svr)
    BY <1>4, <1>5, <2>1 DEF C!PeerResets
  <2> QED
    BY <1>3, <1>5, <2>2
<1>6. CASE /\ IsOpen(k) /\ ~k.rst /\ k.st = "est"
           /\ k.room + 1 \in k.room + 1 .. SndBuf /\ l = [k EXCEPT !.room = k.room + 1]
  <2>1. C!PeerReceives(0, Svr)
    BY <1>4, <1>6 DEF C!PeerReceives, near
  <2> QED
    BY <1>3, <1>6, <2>1
<1>7. CASE IsOpen(k) /\ ~k.rst /\ k.st = "est" /\ ~k.fin /\ l = [k EXCEPT !.fin = TRUE]
  <2>1. C!PeerShutsDown(0, Svr)
    BY <1>4, <1>7 DEF C!PeerShutsDown, near
  <2> QED
    BY <1>3, <1>7, <2>1
<1>8. CASE /\ IsOpen(k) /\ ~k.rst /\ k.st = "est" /\ ~k.fin
           /\ k.sent < Len(C!PeerBytes(near, Svr))
           /\ l = [k EXCEPT !.rx = Append(k.rx, C!PeerBytes(near, Svr)[k.sent + 1]),
                            !.sent = k.sent + 1]
  <2>1. C!PeerSends(0, Svr)
    BY <1>4, <1>8 DEF C!PeerSends, near
  <2> QED
    BY <1>3, <1>8, <2>1
<1> QED
  BY <1>2, <1>5, <1>6, <1>7, <1>8 DEF Moved

\* and the server's.
LEMMA FarMoved ==
    ASSUME S!Sound, NEW l, s_conn' = [s_conn EXCEPT ![0].sock[Cli] = l], OthersStay,
           Moved(far.sock[Cli], l, S!PeerBytes(far, Cli))
    PROVE  [S!Next]_(S!vars)
<1> DEFINE k == far.sock[Cli]
<1>1. UNCHANGED <<s_idle, s_pc, s_batch, s_s_index, s_i_start, s_max_timeout, s_since>>
  BY DEF OthersStay
<1>2. CASE l = k
  <2>1. s_conn' = s_conn
    BY <1>2, FarSelf
  <2> QED
    BY <1>1, <2>1 DEF S!vars
<1>3. ASSUME IsOpen(k), ~k.rst,
             \/ S!PeerSends(0, Cli) \/ S!PeerShutsDown(0, Cli) \/ S!PeerResets(0, Cli)
             \/ S!PeerReceives(0, Cli)
      PROVE  S!Next
  BY <1>3, FarPeers
<1>4. ASSUME IsOpen(k), ~k.rst PROVE S!Peer(0, Cli)
  BY <1>1, <1>4 DEF S!Peer, IsOpen, far
<1>5. CASE IsOpen(k) /\ ~k.rst /\ l = [k EXCEPT !.rst = TRUE]
  <2>1. s_conn' = [s_conn EXCEPT ![0].sock[Cli].rst = TRUE]
    BY <1>5 DEF far
  <2>2. S!PeerResets(0, Cli)
    BY <1>4, <1>5, <2>1 DEF S!PeerResets
  <2> QED
    BY <1>3, <1>5, <2>2
<1>6. CASE /\ IsOpen(k) /\ ~k.rst /\ k.st = "est"
           /\ k.room + 1 \in k.room + 1 .. SndBuf /\ l = [k EXCEPT !.room = k.room + 1]
  <2>1. S!PeerReceives(0, Cli)
    BY <1>4, <1>6 DEF S!PeerReceives, far
  <2> QED
    BY <1>3, <1>6, <2>1
<1>7. CASE IsOpen(k) /\ ~k.rst /\ k.st = "est" /\ ~k.fin /\ l = [k EXCEPT !.fin = TRUE]
  <2>1. S!PeerShutsDown(0, Cli)
    BY <1>4, <1>7 DEF S!PeerShutsDown, far
  <2> QED
    BY <1>3, <1>7, <2>1
<1>8. CASE /\ IsOpen(k) /\ ~k.rst /\ k.st = "est" /\ ~k.fin
           /\ k.sent < Len(S!PeerBytes(far, Cli))
           /\ l = [k EXCEPT !.rx = Append(k.rx, S!PeerBytes(far, Cli)[k.sent + 1]),
                            !.sent = k.sent + 1]
  <2>1. S!PeerSends(0, Cli)
    BY <1>4, <1>8 DEF S!PeerSends, far
  <2> QED
    BY <1>3, <1>8, <2>1
<1> QED
  BY <1>2, <1>5, <1>6, <1>7, <1>8 DEF Moved

\* A step of the link that is up, as its four moves have it in common: the
\* outer sockets and the status of the sessions do not change.
LEMMA LinkStep ==
    ASSUME TInv, OthersStay, link' \in LinkType, link.st = "up", link'.st = "up",
           SameNear, near'.sock[Cli] = near.sock[Cli],
           SameFar, far'.sock[Svr] = far.sock[Svr],
           Silent => /\ link'.down = <<>>
                     /\ IsOpen(near'.sock[Svr]) =>
                          /\ IsOpen(near.sock[Svr])
                          /\ near'.sock[Svr].sent = near.sock[Svr].sent,
           IsOpen(near'.sock[Svr]) =>
             near'.sock[Svr].sent <= Len(Greeting) + host.sent,
           IsOpen(far'.sock[Cli]) => far'.sock[Cli].sent <= browser.sent,
           EndsMeet', Upward', Downward', Rooms'
    PROVE  Between'
<1>1. /\ req' = req /\ Answer' = Answer /\ Asked' = Asked
      /\ Greeting' = Greeting /\ Skip' = Skip /\ Sealed(req)' = Sealed(req)
      /\ browser' = browser /\ host' = host /\ c_idle' = c_idle /\ s_idle' = s_idle
  <2>1. browser' = browser /\ host' = host /\ c_idle' = c_idle /\ s_idle' = s_idle
    BY DEF OthersStay
  <2>2. /\ req' = req /\ Answer' = Answer /\ Asked' = Asked
        /\ Greeting' = Greeting /\ Skip' = Skip
    BY <2>1, SameRequest
  <2> QED
    BY <2>1, <2>2 DEF Sealed, Seal
<1>2. /\ Kinds /\ Stands /\ Begins /\ NothingBack /\ HeadFits
      /\ Outside /\ NothingEarly /\ Arrived
  BY DEF TInv, Between
<1>3. ~Fresh /\ ~Fresh' /\ Silent' = Silent
  BY <1>1, <1>2 DEF Fresh, Silent, S!HeaderDone, SameNear, SameFar, Begins
<1>4. Kinds' /\ Stands'
  BY <1>1, <1>2 DEF Kinds, Stands
<1>5. Begins'
  BY <1>1, <1>2, <1>3 DEF Begins, SameNear, SameFar
<1>6. NothingBack'
  BY <1>1, <1>2, <1>3 DEF NothingBack, SameNear
<1>7. HeadFits'
  BY <1>1, <1>2 DEF HeadFits, S!HeaderDone, SameFar
<1>8. Outside'
  BY <1>1, <1>2 DEF Outside
<1>9. NothingEarly'
  BY <1>1, <1>2 DEF NothingEarly, SameNear, SameFar
<1>10. Arrived'
  BY <1>1, <1>2 DEF Arrived, Run
<1> QED
  BY <1>4, <1>5, <1>6, <1>7, <1>8, <1>9, <1>10 DEF Between

\* The handshake ends; the server has not been asked yet.
LEMMA ConnectedKeeps ==
    ASSUME TInv, Connected
    PROVE  StepsOf /\ Between'
<1>1. /\ C!HandshakeDone(0, Svr) /\ link' = [link EXCEPT !.st = "backlog"]
      /\ server' = server /\ browser' = browser /\ host' = host
  BY DEF Connected
<1>2. C!Next /\ c_idle' = c_idle /\ Cli \in {Cli, Svr} /\ Svr \in {Cli, Svr} /\ Svr # Cli
  BY <1>1, NearPeers, Sides
<1>3. S!vars' = S!vars /\ s_idle' = s_idle /\ far' = far
  BY <1>1 DEF server, S!vars, far
<1>4. C!Sound /\ S!Sound /\ link \in LinkType
  BY Shapes DEF TInv, Programs
<1>5. /\ Kinds /\ Stands /\ Begins /\ NothingBack /\ HeadFits /\ EndsMeet
      /\ Upward /\ Downward /\ Rooms /\ Outside /\ NothingEarly /\ Arrived
  BY DEF TInv, Between
<1>6. /\ req' = req /\ Answer' = Answer /\ Asked' = Asked
      /\ Greeting' = Greeting /\ Skip' = Skip /\ Sealed(req)' = Sealed(req)
  <2>1. /\ req' = req /\ Answer' = Answer /\ Asked' = Asked
        /\ Greeting' = Greeting /\ Skip' = Skip
    BY <1>1, SameRequest
  <2> QED
    BY <2>1 DEF Sealed, Seal
<1> DEFINE u == near.sock[Svr]
           v == [u EXCEPT !.st = "est"]
<1>7. u.st = "syn" /\ c_conn' = [c_conn EXCEPT ![0].sock[Svr] = v]
  BY <1>1 DEF C!HandshakeDone, near
<1>8. /\ v.st = "est" /\ v.sent = u.sent /\ v.out = u.out /\ v.room = u.room
      /\ v.fin = u.fin /\ v.rst = u.rst
  BY DEF C!SocketType
<1> HIDE DEF v
<1>9. SameNear /\ near'.sock[Svr] = v /\ near'.sock[Cli] = near.sock[Cli]
  BY <1>2, <1>4, <1>7, NearPut
<1>10. link.st = "none" /\ IsOpen(u) /\ IsOpen(v)
  BY <1>5, <1>7, <1>8 DEF EndsMeet, IsOpen
<1>11. /\ link' \in LinkType /\ link'.st = "backlog"
       /\ link'.up = link.up /\ link'.down = link.down
       /\ link'.top = link.top /\ link'.bottom = link.bottom
  BY <1>1, <1>4 DEF LinkType
<1>12. ~Fresh /\ ~Fresh' /\ Silent /\ Silent'
  BY <1>1, <1>5, <1>9, <1>10 DEF Fresh, Silent, SameNear, Begins
<1>13. Kinds' /\ Stands'
  BY <1>1, <1>2, <1>3, <1>5, <1>11 DEF Kinds, Stands
<1>14. Begins'
  BY <1>1, <1>3, <1>5, <1>6, <1>9, <1>10, <1>12 DEF Begins, SameNear
<1>15. NothingBack'
  BY <1>1, <1>5, <1>6, <1>8, <1>9, <1>10, <1>12 DEF NothingBack, SameNear
<1>16. HeadFits'
  BY <1>3, <1>5, <1>6 DEF HeadFits, S!HeaderDone
<1>17. EndsMeet'
  BY <1>3, <1>5, <1>8, <1>9, <1>10, <1>11 DEF EndsMeet
<1>18. Upward'
  <2> DEFINE base == IF link.st = "up" THEN far.sock[Cli].sent ELSE 0
  <2>1. /\ Run(link.up, Seal(req.bytes), base) /\ base + Len(link.up) <= browser.sent
        /\ base + Len(link.up) = Len(u.out)
    BY <1>5, <1>10 DEF Upward
  <2>2. base' = base
    BY <1>10, <1>11
  <2> HIDE DEF base
  <2>3. Run(link.up, Seal(req.bytes), base)'
    BY <1>6, <1>11, <2>1, <2>2 DEF Seal, Run
  <2>4. (base + Len(link.up) <= browser.sent)'
    BY <1>1, <2>1, <2>2
  <2>5. (base + Len(link.up) = Len(u.out))'
    BY <1>8, <1>9, <1>11, <2>1, <2>2
  <2> QED
    BY <2>3, <2>4, <2>5 DEF Upward, base
<1>19. Downward' /\ Rooms'
  BY <1>1, <1>3, <1>5, <1>8, <1>9, <1>10 DEF Downward, Rooms
<1>20. Outside'
  BY <1>1, <1>3, <1>5, <1>6, <1>9 DEF Outside
<1>21. NothingEarly'
  BY <1>1, <1>3, <1>5, <1>6, <1>8, <1>9, <1>10 DEF NothingEarly, SameNear
<1>22. Arrived'
  BY <1>1, <1>5, <1>6 DEF Arrived, Run
<1> QED
  BY <1>2, <1>3, <1>13, <1>14, <1>15, <1>16, <1>17, <1>18, <1>19, <1>20, <1>21, <1>22
     DEF StepsOf, Between

\* The ends of a link that is up and does not change but for them.
LEMMA AtTheEnds ==
    ASSUME TInv, NEW v, NEW m, OthersStay,
           c_conn' = [c_conn EXCEPT ![0].sock[Svr] = v],
           s_conn' = [s_conn EXCEPT ![0].sock[Cli] = m]
    PROVE  /\ SameNear /\ near'.sock[Svr] = v /\ near'.sock[Cli] = near.sock[Cli]
           /\ SameFar /\ far'.sock[Cli] = m /\ far'.sock[Svr] = far.sock[Svr]
           /\ near.sock[Svr] \in C!SocketType /\ far.sock[Cli] \in S!SocketType
           /\ browser' = browser /\ host' = host
           /\ req' = req /\ Greeting' = Greeting /\ Answer' = Answer
<1>1. /\ C!Sound /\ S!Sound
      /\ Cli \in {Cli, Svr} /\ Svr \in {Cli, Svr} /\ Svr # Cli
  BY Sides DEF TInv, Programs
<1>2. browser' = browser /\ host' = host
  BY DEF OthersStay
<1>3. SameNear /\ near'.sock[Svr] = v /\ near'.sock[Cli] = near.sock[Cli]
  BY <1>1, NearPut
<1>4. SameFar /\ far'.sock[Cli] = m /\ far'.sock[Svr] = far.sock[Svr]
  BY <1>1, FarPut
<1>5. near.sock[Svr] \in C!SocketType /\ far.sock[Cli] \in S!SocketType
  BY <1>1, NearSlot, FarSlot
<1> QED
  BY <1>2, <1>3, <1>4, <1>5, SameRequest

LEMMA UpArrivesKeeps ==
    ASSUME TInv, UpArrives
    PROVE  StepsOf /\ Between'
<1> DEFINE u == near.sock[Svr]
           l == far.sock[Cli]
           v == SenderAfter(u, l)
           m == ReceiverAfter(l, Head(link.up))
<1>1. /\ link.st = "up" /\ link.up # <<>> /\ link' = [link EXCEPT !.up = Tail(@)]
      /\ c_conn' = [c_conn EXCEPT ![0].sock[Svr] = v]
      /\ s_conn' = [s_conn EXCEPT ![0].sock[Cli] = m]
      /\ OthersStay
  BY DEF UpArrives, Upper, Lower
<1>2. /\ Begins /\ NothingBack /\ EndsMeet /\ Upward /\ Downward /\ Rooms
      /\ NothingEarly /\ C!Sound /\ S!Sound
  BY DEF TInv, Between, Programs
<1> HIDE DEF v, m
<1>3. /\ SameNear /\ near'.sock[Svr] = v /\ near'.sock[Cli] = near.sock[Cli]
      /\ SameFar /\ far'.sock[Cli] = m /\ far'.sock[Svr] = far.sock[Svr]
      /\ u \in C!SocketType /\ l \in S!SocketType
      /\ browser' = browser /\ host' = host
      /\ req' = req /\ Greeting' = Greeting /\ Answer' = Answer
  BY <1>1, AtTheEnds
<1>4. /\ link \in LinkType /\ link.up \in Seq(Byte)
      /\ Len(Tail(link.up)) \in Nat /\ Len(link.up) = Len(Tail(link.up)) + 1
      /\ Tail(link.up) \in Seq(Byte)
  <2>1. link \in LinkType /\ link.up \in Seq(Byte)
    BY Shapes
  <2>2. Tail(link.up) \in Seq(Byte) /\ Len(Tail(link.up)) = Len(link.up) - 1
    BY <1>1, <2>1
  <2> QED
    BY <2>1, <2>2
<1>5. /\ link' \in LinkType /\ link'.st = link.st /\ link'.up = Tail(link.up)
      /\ link'.down = link.down /\ link'.top = link.top /\ link'.bottom = link.bottom
  BY <1>1, <1>4 DEF LinkType
<1>6. /\ u.room \in Nat /\ u.room <= SndBuf /\ u.st \in {"none", "syn", "est"}
      /\ l.sent \in Nat /\ l.st \in {"none", "syn", "est"} /\ SndBuf \in Nat
      /\ browser.sent \in Nat
  BY <1>3, SocketCounts, Counts
<1>7. /\ u.st # "syn" /\ l.st # "syn"
      /\ IsOpen(u) /\ IsOpen(l) => ~u.rst /\ ~l.rst
      /\ IsOpen(l) => ~l.fin
  BY <1>1, <1>2 DEF EndsMeet
<1>8. IsOpen(u) /\ ~u.rst => /\ u.room + 1 \in u.room + 1 .. SndBuf
                             /\ u.room + 1 \in Nat
                             /\ (u.room + 1) + Len(Tail(link.up)) = SndBuf
  <2> SUFFICES ASSUME IsOpen(u), ~u.rst
               PROVE  /\ u.room + 1 \in u.room + 1 .. SndBuf
                      /\ u.room + 1 \in Nat
                      /\ (u.room + 1) + Len(Tail(link.up)) = SndBuf
    OBVIOUS
  <2>1. u.room + Len(link.up) = SndBuf
    BY <1>2 DEF Rooms
  <2> HIDE DEF u
  <2> QED
    BY <1>4, <1>6, <2>1
<1>9. IsOpen(l) /\ ~l.rst =>
        /\ l.sent < Len(Seal(req.bytes))
        /\ Head(link.up) = Seal(req.bytes)[l.sent + 1]
        /\ Run(Tail(link.up), Seal(req.bytes), l.sent + 1)
        /\ (l.sent + 1) + Len(Tail(link.up)) = l.sent + Len(link.up)
        /\ l.sent + 1 <= browser.sent
  <2> SUFFICES ASSUME IsOpen(l), ~l.rst
               PROVE  /\ l.sent < Len(Seal(req.bytes))
                      /\ Head(link.up) = Seal(req.bytes)[l.sent + 1]
                      /\ Run(Tail(link.up), Seal(req.bytes), l.sent + 1)
                      /\ (l.sent + 1) + Len(Tail(link.up)) = l.sent + Len(link.up)
                      /\ l.sent + 1 <= browser.sent
    OBVIOUS
  <2>1. /\ Run(link.up, Seal(req.bytes), l.sent)
        /\ l.sent + Len(link.up) <= browser.sent
    BY <1>1, <1>2 DEF Upward
  <2>2. /\ l.sent < Len(Seal(req.bytes))
        /\ Head(link.up) = Seal(req.bytes)[l.sent + 1]
        /\ Run(Tail(link.up), Seal(req.bytes), l.sent + 1)
    BY <1>1, <2>1, RunTail
  <2>3. /\ (l.sent + 1) + Len(Tail(link.up)) = l.sent + Len(link.up)
        /\ l.sent + 1 <= browser.sent
    <3>1. /\ l.sent \in Nat /\ browser.sent \in Nat /\ Len(Tail(link.up)) \in Nat
          /\ Len(link.up) = Len(Tail(link.up)) + 1
          /\ l.sent + Len(link.up) <= browser.sent
      BY <1>4, <1>6, <2>1
    <3> HIDE DEF l
    <3> QED
      BY <3>1
  <2> QED
    BY <2>2, <2>3
<1>10. /\ v = IF ~IsOpen(u) THEN u ELSE IF ~IsOpen(l) THEN [u EXCEPT !.rst = TRUE]
              ELSE [u EXCEPT !.room = u.room + 1]
       /\ m = IF ~IsOpen(l) \/ l.rst THEN l
              ELSE [l EXCEPT !.rx = Append(l.rx, Head(link.up)), !.sent = l.sent + 1]
  BY DEF v, m, SenderAfter, ReceiverAfter, IsOpen
<1>11. [C!Next]_(C!vars)
  <2>1. Moved(u, v, C!PeerBytes(near, Svr))
    <3>1. CASE ~IsOpen(u)
      BY <1>10, <3>1 DEF Moved
    <3>2. CASE IsOpen(u) /\ ~IsOpen(l) /\ u.rst
      <4>1. v = u
        BY <1>3, <1>10, <3>2, ZenonT(40) DEF C!SocketType
      <4> QED
        BY <4>1 DEF Moved
    <3>3. CASE IsOpen(u) /\ ~IsOpen(l) /\ ~u.rst
      BY <1>10, <3>3 DEF Moved
    <3>4. CASE IsOpen(u) /\ IsOpen(l)
      <4>1. u.st = "est" /\ ~u.rst
        BY <1>6, <1>7, <3>4 DEF IsOpen
      <4> QED
        BY <1>8, <1>10, <4>1 DEF Moved
    <3> QED
      BY <3>1, <3>2, <3>3, <3>4
  <2> QED
    BY <1>1, <1>2, <2>1, NearMoved
<1>12. [S!Next]_(S!vars)
  <2>1. Moved(l, m, S!PeerBytes(far, Cli))
    <3>1. CASE ~IsOpen(l) \/ l.rst
      BY <1>10, <3>1 DEF Moved
    <3>2. CASE IsOpen(l) /\ ~l.rst
      <4>1. S!PeerBytes(far, Cli) = Seal(req.bytes)
        <5>1. far.flag
          BY <1>2, <3>2, FarSlot DEF IsOpen
        <5>2. far.req = Sealed(req)
          BY <1>2, <5>1 DEF Begins
        <5> QED
          BY <5>2, SealedType, Shapes, Sides DEF S!PeerBytes
      <4>2. l.st = "est"
        BY <1>6, <1>7, <3>2 DEF IsOpen
      <4> QED
        BY <1>7, <1>9, <1>10, <4>1, <4>2 DEF Moved
    <3> QED
      BY <3>1, <3>2
  <2> QED
    BY <1>1, <1>2, <2>1, FarMoved
<1>13. /\ v.st = u.st /\ v.sent = u.sent /\ v.out = u.out /\ v.fin = u.fin
       /\ IsOpen(u) /\ ~v.rst => ~u.rst
       /\ IsOpen(u) /\ v.rst => u.rst \/ ~IsOpen(l)
       /\ IsOpen(u) /\ ~v.rst => v.room = u.room + 1
  BY <1>10 DEF C!SocketType
<1>14. /\ m.st = l.st /\ m.out = l.out /\ m.fin = l.fin /\ m.rst = l.rst
       /\ m.room = l.room
       /\ IsOpen(l) /\ ~l.rst => m.sent = l.sent + 1
       /\ ~IsOpen(l) \/ l.rst => m.sent = l.sent
  BY <1>10 DEF S!SocketType
<1>15. (IsOpen(v) <=> IsOpen(u)) /\ (IsOpen(m) <=> IsOpen(l))
  BY <1>13, <1>14 DEF IsOpen
<1>16. EndsMeet'
  BY <1>1, <1>2, <1>3, <1>13, <1>14, <1>15 DEF EndsMeet
<1>17. Upward'
  <2>1. IsOpen(m) /\ ~m.rst =>
          /\ Run(Tail(link.up), Seal(req.bytes), m.sent)
          /\ m.sent + Len(Tail(link.up)) <= browser.sent
          /\ IsOpen(v) => m.sent + Len(Tail(link.up)) = Len(v.out)
    BY <1>1, <1>2, <1>9, <1>13, <1>14, <1>15 DEF Upward
  <2> QED
    BY <1>1, <1>3, <1>5, <2>1 DEF Upward, Seal, Run
<1>18. Downward'
  BY <1>1, <1>2, <1>3, <1>13, <1>14, <1>15 DEF Downward, Seal, Run
<1>19. Rooms'
  <2>1. IsOpen(v) /\ ~v.rst => v.room + Len(Tail(link.up)) = SndBuf
    BY <1>8, <1>13, <1>15
  <2>2. IsOpen(m) /\ ~m.rst => m.room + Len(link.down) = SndBuf
    BY <1>2, <1>14, <1>15 DEF Rooms
  <2> QED
    BY <1>3, <1>5, <2>1, <2>2 DEF Rooms
<1>20. /\ IsOpen(v) => v.sent <= Len(Greeting) + host.sent
       /\ IsOpen(m) => m.sent <= browser.sent
  BY <1>2, <1>9, <1>13, <1>14, <1>15 DEF NothingEarly
<1>21. Silent => /\ link.down = <<>>
                 /\ IsOpen(v) => IsOpen(u) /\ v.sent = u.sent
  BY <1>2, <1>13, <1>15 DEF NothingBack
<1>22. Between'
  BY <1>1, <1>3, <1>5, <1>16, <1>17, <1>18, <1>19, <1>20, <1>21, LinkStep
<1> QED
  BY <1>11, <1>12, <1>22 DEF StepsOf

LEMMA DownArrivesKeeps ==
    ASSUME TInv, DownArrives
    PROVE  StepsOf /\ Between'
<1> DEFINE u == near.sock[Svr]
           l == far.sock[Cli]
           v == ReceiverAfter(u, Head(link.down))
           m == SenderAfter(l, u)
<1>1. /\ link.st = "up" /\ link.down # <<>> /\ link' = [link EXCEPT !.down = Tail(@)]
      /\ c_conn' = [c_conn EXCEPT ![0].sock[Svr] = v]
      /\ s_conn' = [s_conn EXCEPT ![0].sock[Cli] = m]
      /\ OthersStay
  BY DEF DownArrives, Upper, Lower
<1>2. /\ Begins /\ NothingBack /\ EndsMeet /\ Upward /\ Downward /\ Rooms
      /\ NothingEarly /\ C!Sound /\ S!Sound
  BY DEF TInv, Between, Programs
<1> HIDE DEF v, m
<1>3. /\ SameNear /\ near'.sock[Svr] = v /\ near'.sock[Cli] = near.sock[Cli]
      /\ SameFar /\ far'.sock[Cli] = m /\ far'.sock[Svr] = far.sock[Svr]
      /\ u \in C!SocketType /\ l \in S!SocketType
      /\ browser' = browser /\ host' = host
      /\ req' = req /\ Greeting' = Greeting /\ Answer' = Answer
  BY <1>1, AtTheEnds
<1>4. /\ link \in LinkType /\ link.down \in Seq(Byte)
      /\ Len(Tail(link.down)) \in Nat /\ Len(link.down) = Len(Tail(link.down)) + 1
      /\ Tail(link.down) \in Seq(Byte)
  <2>1. link \in LinkType /\ link.down \in Seq(Byte)
    BY Shapes
  <2>2. Tail(link.down) \in Seq(Byte) /\ Len(Tail(link.down)) = Len(link.down) - 1
    BY <1>1, <2>1
  <2> QED
    BY <2>1, <2>2
<1>5. /\ link' \in LinkType /\ link'.st = link.st /\ link'.down = Tail(link.down)
      /\ link'.up = link.up /\ link'.top = link.top /\ link'.bottom = link.bottom
  BY <1>1, <1>4 DEF LinkType
<1>6. /\ l.room \in Nat /\ l.room <= SndBuf /\ u.st \in {"none", "syn", "est"}
      /\ u.sent \in Nat /\ l.st \in {"none", "syn", "est"} /\ SndBuf \in Nat
      /\ host.sent \in Nat /\ Len(Greeting) \in Nat
  BY <1>3, SocketCounts, Counts
<1>7. /\ u.st # "syn" /\ l.st # "syn"
      /\ IsOpen(u) /\ IsOpen(l) => ~u.rst /\ ~l.rst
      /\ IsOpen(u) => ~u.fin
  BY <1>1, <1>2 DEF EndsMeet
<1>8. IsOpen(l) /\ ~l.rst => /\ l.room + 1 \in l.room + 1 .. SndBuf
                             /\ l.room + 1 \in Nat
                             /\ (l.room + 1) + Len(Tail(link.down)) = SndBuf
  <2> SUFFICES ASSUME IsOpen(l), ~l.rst
               PROVE  /\ l.room + 1 \in l.room + 1 .. SndBuf
                      /\ l.room + 1 \in Nat
                      /\ (l.room + 1) + Len(Tail(link.down)) = SndBuf
    OBVIOUS
  <2>1. l.room + Len(link.down) = SndBuf
    BY <1>2 DEF Rooms
  <2> HIDE DEF l
  <2> QED
    BY <1>4, <1>6, <2>1
<1>9. IsOpen(u) /\ ~u.rst =>
        /\ u.sent < Len(Seal(Answer))
        /\ Head(link.down) = Seal(Answer)[u.sent + 1]
        /\ Run(Tail(link.down), Seal(Answer), u.sent + 1)
        /\ (u.sent + 1) + Len(Tail(link.down)) = u.sent + Len(link.down)
        /\ u.sent + 1 <= Len(Greeting) + host.sent
  <2> SUFFICES ASSUME IsOpen(u), ~u.rst
               PROVE  /\ u.sent < Len(Seal(Answer))
                      /\ Head(link.down) = Seal(Answer)[u.sent + 1]
                      /\ Run(Tail(link.down), Seal(Answer), u.sent + 1)
                      /\ (u.sent + 1) + Len(Tail(link.down)) = u.sent + Len(link.down)
                      /\ u.sent + 1 <= Len(Greeting) + host.sent
    OBVIOUS
  <2>1. /\ Run(link.down, Seal(Answer), u.sent)
        /\ u.sent + Len(link.down) <= Len(Greeting) + host.sent
    BY <1>1, <1>2 DEF Downward
  <2>2. /\ u.sent < Len(Seal(Answer))
        /\ Head(link.down) = Seal(Answer)[u.sent + 1]
        /\ Run(Tail(link.down), Seal(Answer), u.sent + 1)
    BY <1>1, <2>1, RunTail
  <2>3. /\ (u.sent + 1) + Len(Tail(link.down)) = u.sent + Len(link.down)
        /\ u.sent + 1 <= Len(Greeting) + host.sent
    <3>1. /\ u.sent \in Nat /\ host.sent \in Nat /\ Len(Tail(link.down)) \in Nat
          /\ Len(link.down) = Len(Tail(link.down)) + 1 /\ Len(Greeting) \in Nat
          /\ u.sent + Len(link.down) <= Len(Greeting) + host.sent
      BY <1>4, <1>6, <2>1
    <3> HIDE DEF u
    <3> QED
      BY <3>1
  <2> QED
    BY <2>2, <2>3
<1>10. /\ m = IF ~IsOpen(l) THEN l ELSE IF ~IsOpen(u) THEN [l EXCEPT !.rst = TRUE]
              ELSE [l EXCEPT !.room = l.room + 1]
       /\ v = IF ~IsOpen(u) \/ u.rst THEN u
              ELSE [u EXCEPT !.rx = Append(u.rx, Head(link.down)), !.sent = u.sent + 1]
  BY DEF v, m, SenderAfter, ReceiverAfter, IsOpen
<1>11. [S!Next]_(S!vars)
  <2>1. Moved(l, m, S!PeerBytes(far, Cli))
    <3>1. CASE ~IsOpen(l)
      BY <1>10, <3>1 DEF Moved
    <3>2. CASE IsOpen(l) /\ ~IsOpen(u) /\ l.rst
      <4>1. m = l
        BY <1>3, <1>10, <3>2, ZenonT(40) DEF S!SocketType
      <4> QED
        BY <4>1 DEF Moved
    <3>3. CASE IsOpen(l) /\ ~IsOpen(u) /\ ~l.rst
      BY <1>10, <3>3 DEF Moved
    <3>4. CASE IsOpen(l) /\ IsOpen(u)
      <4>1. l.st = "est" /\ ~l.rst
        BY <1>6, <1>7, <3>4 DEF IsOpen
      <4> QED
        BY <1>8, <1>10, <4>1 DEF Moved
    <3> QED
      BY <3>1, <3>2, <3>3, <3>4
  <2> QED
    BY <1>1, <1>2, <2>1, FarMoved
<1>12. [C!Next]_(C!vars)
  <2>1. Moved(u, v, C!PeerBytes(near, Svr))
    <3>1. CASE ~IsOpen(u) \/ u.rst
      BY <1>10, <3>1 DEF Moved
    <3>2. CASE IsOpen(u) /\ ~u.rst
      <4>1. C!PeerBytes(near, Svr) = Seal(Answer)
        <5>1. near.flag
          BY <1>2, <3>2, NearSlot DEF IsOpen
        <5>2. near.req = req
          BY <1>2, <5>1 DEF Begins
        <5> QED
          BY <5>2, ClientDue, Shapes
      <4>2. u.st = "est"
        BY <1>6, <1>7, <3>2 DEF IsOpen
      <4> QED
        BY <1>7, <1>9, <1>10, <4>1, <4>2 DEF Moved
    <3> QED
      BY <3>1, <3>2
  <2> QED
    BY <1>1, <1>2, <2>1, NearMoved
<1>13. /\ m.st = l.st /\ m.sent = l.sent /\ m.out = l.out /\ m.fin = l.fin
       /\ IsOpen(l) /\ ~m.rst => ~l.rst
       /\ IsOpen(l) /\ m.rst => l.rst \/ ~IsOpen(u)
       /\ IsOpen(l) /\ ~m.rst => m.room = l.room + 1
  BY <1>10 DEF S!SocketType
<1>14. /\ v.st = u.st /\ v.out = u.out /\ v.fin = u.fin /\ v.rst = u.rst
       /\ v.room = u.room
       /\ IsOpen(u) /\ ~u.rst => v.sent = u.sent + 1
       /\ ~IsOpen(u) \/ u.rst => v.sent = u.sent
  BY <1>10 DEF C!SocketType
<1>15. (IsOpen(v) <=> IsOpen(u)) /\ (IsOpen(m) <=> IsOpen(l))
  BY <1>13, <1>14 DEF IsOpen
<1>16. EndsMeet'
  BY <1>1, <1>2, <1>3, <1>13, <1>14, <1>15 DEF EndsMeet
<1>17. Downward'
  <2>1. IsOpen(v) /\ ~v.rst =>
          /\ Run(Tail(link.down), Seal(Answer), v.sent)
          /\ v.sent + Len(Tail(link.down)) <= Len(Greeting) + host.sent
          /\ IsOpen(m) => v.sent + Len(Tail(link.down)) = Len(m.out)
    BY <1>1, <1>2, <1>9, <1>13, <1>14, <1>15 DEF Downward
  <2> QED
    BY <1>1, <1>3, <2>1 DEF Downward, Seal, Run
<1>18. Upward'
  <2>1. IsOpen(m) /\ ~m.rst =>
          /\ Run(link.up, Seal(req.bytes), m.sent)
          /\ m.sent + Len(link.up) <= browser.sent
          /\ IsOpen(v) => m.sent + Len(link.up) = Len(v.out)
    BY <1>1, <1>2, <1>13, <1>14, <1>15 DEF Upward
  <2> QED
    BY <1>1, <1>3, <1>5, <2>1 DEF Upward, Seal, Run
<1>19. Rooms'
  <2>1. IsOpen(m) /\ ~m.rst => m.room + Len(Tail(link.down)) = SndBuf
    BY <1>8, <1>13, <1>15
  <2>2. IsOpen(v) /\ ~v.rst => v.room + Len(link.up) = SndBuf
    BY <1>2, <1>14, <1>15 DEF Rooms
  <2> QED
    BY <1>3, <1>5, <2>1, <2>2 DEF Rooms
<1>20. /\ IsOpen(v) => v.sent <= Len(Greeting) + host.sent
       /\ IsOpen(m) => m.sent <= browser.sent
  BY <1>2, <1>9, <1>13, <1>14, <1>15 DEF NothingEarly
<1>21. ~Silent
  BY <1>1, <1>2 DEF NothingBack
<1>22. Between'
  BY <1>1, <1>3, <1>5, <1>16, <1>17, <1>18, <1>19, <1>20, <1>21, LinkStep
<1> QED
  BY <1>11, <1>12, <1>22 DEF StepsOf

\* A FIN is shown behind the bytes; after a reset they do not count any more.
LEMMA UpEndsKeeps ==
    ASSUME TInv, UpEnds
    PROVE  StepsOf /\ Between'
<1> DEFINE u == near.sock[Svr]
           l == far.sock[Cli]
           m == Ended(l, link.top)
<1>1. /\ link.st = "up" /\ link' = [link EXCEPT !.up = <<>>, !.top = "gone"]
      /\ link.top = "reset" \/ (link.top = "fin" /\ link.up = <<>>)
      /\ s_conn' = [s_conn EXCEPT ![0].sock[Cli] = m]
      /\ OthersStay /\ c_conn' = c_conn
  BY DEF UpEnds, Lower
<1>2. /\ Begins /\ NothingBack /\ EndsMeet /\ Upward /\ Downward /\ Rooms
      /\ NothingEarly /\ C!Sound /\ S!Sound
  BY DEF TInv, Between, Programs
<1> HIDE DEF m
<1>3. c_conn' = [c_conn EXCEPT ![0].sock[Svr] = u]
  BY <1>1, <1>2, NearSelf
<1>4. /\ SameNear /\ near'.sock[Svr] = u /\ near'.sock[Cli] = near.sock[Cli]
      /\ SameFar /\ far'.sock[Cli] = m /\ far'.sock[Svr] = far.sock[Svr]
      /\ u \in C!SocketType /\ l \in S!SocketType
      /\ browser' = browser /\ host' = host
      /\ req' = req /\ Greeting' = Greeting /\ Answer' = Answer
  BY <1>1, <1>3, AtTheEnds
<1>5. /\ link' \in LinkType /\ link'.st = link.st /\ link'.up = <<>>
      /\ link'.down = link.down /\ link'.top = "gone" /\ link'.bottom = link.bottom
  <2>1. link \in LinkType
    BY Shapes
  <2> QED
    BY <1>1, <2>1, EmptySeq DEF LinkType, End
<1>6. /\ ~IsOpen(u) /\ (IsOpen(l) => ~l.fin) /\ l.st \in {"none", "est"}
  <2>1. l.st \in {"none", "syn", "est"}
    BY <1>4, SocketCounts
  <2> QED
    BY <1>1, <1>2, <2>1 DEF EndsMeet
<1>7. m = IF ~IsOpen(l) \/ l.rst THEN l
          ELSE IF link.top = "fin" THEN [l EXCEPT !.fin = TRUE] ELSE [l EXCEPT !.rst = TRUE]
  BY DEF m, Ended, IsOpen
<1>8. [C!Next]_(C!vars)
  <2>1. Moved(u, u, C!PeerBytes(near, Svr))
    BY DEF Moved
  <2> QED
    BY <1>1, <1>2, <1>3, <2>1, NearMoved
<1>9. [S!Next]_(S!vars)
  <2>1. Moved(l, m, S!PeerBytes(far, Cli))
    BY <1>6, <1>7 DEF Moved, IsOpen
  <2> QED
    BY <1>1, <1>2, <2>1, FarMoved
<1>10. /\ m.st = l.st /\ m.out = l.out /\ m.room = l.room /\ m.sent = l.sent
       /\ IsOpen(l) /\ ~m.rst => ~l.rst /\ link.up = <<>>
  BY <1>1, <1>7 DEF S!SocketType
<1>11. IsOpen(m) <=> IsOpen(l)
  BY <1>10 DEF IsOpen
<1>12. EndsMeet'
  BY <1>1, <1>2, <1>4, <1>10, <1>11 DEF EndsMeet
<1>13. Upward'
  <2>1. IsOpen(m) /\ ~m.rst =>
          /\ Run(<<>>, Seal(req.bytes), m.sent)
          /\ m.sent + Len(<<>>) <= browser.sent
    BY <1>1, <1>2, <1>10, <1>11 DEF Upward
  <2> QED
    BY <1>1, <1>4, <1>6, <2>1 DEF Upward, Seal, Run
<1>14. Downward'
  BY <1>4, <1>6 DEF Downward
<1>15. Rooms'
  BY <1>2, <1>4, <1>5, <1>6, <1>10, <1>11 DEF Rooms
<1>16. /\ ~IsOpen(near'.sock[Svr])
       /\ IsOpen(far'.sock[Cli]) => far'.sock[Cli].sent <= browser.sent
  BY <1>2, <1>4, <1>6, <1>10, <1>11 DEF NothingEarly
<1>17. Silent => link'.down = <<>>
  BY <1>2, <1>5 DEF NothingBack
<1>18. Between'
  BY <1>1, <1>4, <1>5, <1>12, <1>13, <1>14, <1>15, <1>16, <1>17, LinkStep
<1> QED
  BY <1>8, <1>9, <1>18 DEF StepsOf

LEMMA DownEndsKeeps ==
    ASSUME TInv, DownEnds
    PROVE  StepsOf /\ Between'
<1> DEFINE u == near.sock[Svr]
           l == far.sock[Cli]
           v == Ended(u, link.bottom)
<1>1. /\ link.st = "up" /\ link' = [link EXCEPT !.down = <<>>, !.bottom = "gone"]
      /\ link.bottom = "reset" \/ (link.bottom = "fin" /\ link.down = <<>>)
      /\ c_conn' = [c_conn EXCEPT ![0].sock[Svr] = v]
      /\ OthersStay /\ s_conn' = s_conn
  BY DEF DownEnds, Upper
<1>2. /\ Begins /\ NothingBack /\ EndsMeet /\ Upward /\ Downward /\ Rooms
      /\ NothingEarly /\ C!Sound /\ S!Sound
  BY DEF TInv, Between, Programs
<1> HIDE DEF v
<1>3. s_conn' = [s_conn EXCEPT ![0].sock[Cli] = l]
  BY <1>1, <1>2, FarSelf
<1>4. /\ SameNear /\ near'.sock[Svr] = v /\ near'.sock[Cli] = near.sock[Cli]
      /\ SameFar /\ far'.sock[Cli] = l /\ far'.sock[Svr] = far.sock[Svr]
      /\ u \in C!SocketType /\ l \in S!SocketType
      /\ browser' = browser /\ host' = host
      /\ req' = req /\ Greeting' = Greeting /\ Answer' = Answer
  BY <1>1, <1>3, AtTheEnds
<1>5. /\ link' \in LinkType /\ link'.st = link.st /\ link'.down = <<>>
      /\ link'.up = link.up /\ link'.top = link.top /\ link'.bottom = "gone"
  <2>1. link \in LinkType
    BY Shapes
  <2> QED
    BY <1>1, <2>1, EmptySeq DEF LinkType, End
<1>6. /\ ~IsOpen(l) /\ (IsOpen(u) => ~u.fin) /\ u.st \in {"none", "est"}
  <2>1. u.st \in {"none", "syn", "est"}
    BY <1>4, SocketCounts
  <2> QED
    BY <1>1, <1>2, <2>1 DEF EndsMeet
<1>7. v = IF ~IsOpen(u) \/ u.rst THEN u
          ELSE IF link.bottom = "fin" THEN [u EXCEPT !.fin = TRUE]
               ELSE [u EXCEPT !.rst = TRUE]
  BY DEF v, Ended, IsOpen
<1>8. [S!Next]_(S!vars)
  <2>1. Moved(l, l, S!PeerBytes(far, Cli))
    BY DEF Moved
  <2> QED
    BY <1>1, <1>2, <1>3, <2>1, FarMoved
<1>9. [C!Next]_(C!vars)
  <2>1. Moved(u, v, C!PeerBytes(near, Svr))
    BY <1>6, <1>7 DEF Moved, IsOpen
  <2> QED
    BY <1>1, <1>2, <2>1, NearMoved
<1>10. /\ v.st = u.st /\ v.out = u.out /\ v.room = u.room /\ v.sent = u.sent
       /\ IsOpen(u) /\ ~v.rst => ~u.rst /\ link.down = <<>>
  BY <1>1, <1>7 DEF C!SocketType
<1>11. IsOpen(v) <=> IsOpen(u)
  BY <1>10 DEF IsOpen
<1>12. EndsMeet'
  BY <1>1, <1>2, <1>4, <1>10, <1>11 DEF EndsMeet
<1>13. Downward'
  <2>1. IsOpen(v) /\ ~v.rst =>
          /\ Run(<<>>, Seal(Answer), v.sent)
          /\ v.sent + Len(<<>>) <= Len(Greeting) + host.sent
    BY <1>1, <1>2, <1>10, <1>11 DEF Downward
  <2> QED
    BY <1>1, <1>4, <1>6, <2>1 DEF Downward, Seal, Run
<1>14. Upward'
  BY <1>1, <1>4, <1>6 DEF Upward
<1>15. Rooms'
  BY <1>2, <1>4, <1>5, <1>6, <1>10, <1>11 DEF Rooms
<1>16. /\ IsOpen(v) => v.sent <= Len(Greeting) + host.sent
       /\ ~IsOpen(far'.sock[Cli])
  BY <1>2, <1>4, <1>6, <1>10, <1>11 DEF NothingEarly
<1>17. Silent => /\ link'.down = <<>>
                 /\ IsOpen(v) => IsOpen(u) /\ v.sent = u.sent
  BY <1>5, <1>10, <1>11
<1>18. Between'
  BY <1>1, <1>4, <1>5, <1>12, <1>13, <1>14, <1>15, <1>16, <1>17, LinkStep
<1> QED
  BY <1>8, <1>9, <1>18 DEF StepsOf

-----------------------------------------------------------------------------
(* All together.                                                            *)

LEMMA TInvAtStart ==
    ASSUME Init
    PROVE  TInv
<1>1. /\ C!Init /\ S!Init
      /\ link = [st |-> "none", up |-> <<>>, down |-> <<>>, top |-> "open",
                 bottom |-> "open"]
      /\ browser \in [st : {"away"}, req : Requests, sent : {0}, got : {<<>>}]
      /\ host = [sent |-> 0, got |-> <<>>, closed |-> FALSE]
  BY DEF Init
<1>2. Programs
  BY <1>1, SoundAtStart DEF Programs
<1>3. /\ ~near.flag /\ near.taken[Cli] = 0 /\ near.taken[Svr] = 0
      /\ near.sock[Cli] = C!NoSocket /\ near.sock[Svr] = C!NoSocket
      /\ c_idle[0] = 0
  BY <1>1, Sides DEF C!Init, C!EmptySlot, near
<1>4. /\ ~far.flag /\ far.taken[Cli] = 0 /\ far.taken[Svr] = 0
      /\ far.sock[Cli] = S!NoSocket /\ far.sock[Svr] = S!NoSocket
      /\ s_idle[0] = 0
  BY <1>1, Sides DEF S!Init, S!EmptySlot, far
<1>5. /\ ~IsOpen(near.sock[Cli]) /\ ~IsOpen(near.sock[Svr])
      /\ ~IsOpen(far.sock[Cli]) /\ ~IsOpen(far.sock[Svr])
      /\ near.sock[Svr].st = "none" /\ far.sock[Cli].st = "none"
  BY <1>3, <1>4 DEF IsOpen, C!NoSocket, S!NoSocket
<1>6. /\ browser \in BrowserType /\ browser.st = "away" /\ browser.sent = 0
      /\ browser.got = <<>> /\ host \in HostType /\ host.sent = 0 /\ host.got = <<>>
      /\ link \in LinkType
  <2>1. browser \in BrowserType
    <3>1. \A D : D = {<<>>} => D \subseteq Seq(Byte)
      OBVIOUS
    <3>2. {"away"} \subseteq {"away", "open", "closed"} /\ {0} \subseteq Nat
      OBVIOUS
    <3> QED
      BY <1>1, <3>1, <3>2, Zenon DEF BrowserType
  <2>2. host \in HostType
    BY <1>1 DEF HostType
  <2>3. link \in LinkType
    BY <1>1 DEF LinkType, End
  <2> QED
    BY <1>1, <2>1, <2>2, <2>3
<1>7. req \in Requests
  BY <1>6 DEF req, BrowserType
<1>8. /\ req.bytes \in Seq(Byte) /\ Seal(req.bytes) \in Seq(Byte)
      /\ Answer \in Seq(Byte) /\ Asked \in Seq(Byte)
      /\ Len(req.bytes) \in Nat /\ Len(Seal(req.bytes)) \in Nat
      /\ Len(Answer) \in Nat /\ Len(Asked) \in Nat
      /\ Len(Reply) \in Nat /\ Len(Greeting) \in Nat /\ req.end \in Nat
  <2>1. /\ req.bytes \in Seq(Byte) /\ Answer \in Seq(Byte) /\ Asked \in Seq(Byte)
        /\ Reply \in Seq(Byte) /\ Greeting \in Seq(Byte)
    BY <1>7, Wanted
  <2>2. Seal(req.bytes) \in Seq(Byte)
    BY <2>1, SealType
  <2>3. req.end \in Nat
    BY <1>7, TunnelAssumption
  <2> QED
    BY <2>1, <2>2, <2>3
<1>9. 0 <= Len(req.bytes) /\ 0 <= Len(Seal(req.bytes)) /\ 0 <= Len(Answer)
      /\ 0 <= Len(Asked) /\ 0 <= Len(Reply) /\ 0 <= Len(Greeting) + 0 /\ 0 <= req.end
      /\ 0 \in Nat /\ Len(<<>>) = 0
  BY <1>8
<1>10. Kinds /\ Stands
  BY <1>3, <1>4, <1>6 DEF Kinds, Stands
<1>11. Begins
  BY <1>1, <1>3, <1>4, <1>5 DEF Begins
<1>12. NothingBack /\ HeadFits
  BY <1>1, <1>3, <1>4, <1>5, <1>9 DEF NothingBack, HeadFits
<1>13. EndsMeet /\ Rooms
  BY <1>1, <1>5 DEF EndsMeet, Rooms
<1>14. Upward
  <2>1. Run(<<>>, Seal(req.bytes), 0)
    BY <1>8, RunNothing
  <2> QED
    BY <1>1, <1>5, <2>1 DEF Upward
<1>15. Downward
  BY <1>5 DEF Downward
<1>16. Outside /\ NothingEarly
  BY <1>3, <1>4, <1>5, <1>6 DEF Outside, NothingEarly
<1>17. Arrived
  <2>1. Run(<<>>, Answer, 0) /\ Run(<<>>, Asked, 0)
    BY <1>8, RunNothing
  <2> QED
    BY <1>6, <2>1 DEF Arrived
<1> QED
  BY <1>2, <1>10, <1>11, <1>12, <1>13, <1>14, <1>15, <1>16, <1>17 DEF TInv, Between

\* Every step is one of each program or none, and keeps what is between them.
LEMMA StepKeeps ==
    ASSUME TInv, [Next]_vars
    PROVE  StepsOf /\ Between'
<1>1. CASE ClientStep
  BY <1>1, ClientIdlesKeeps, ClientAcceptsKeeps, ClientHandlesKeeps DEF ClientStep
<1>2. CASE ServerStep
  BY <1>2, ServerIdlesKeeps, ServerAcceptsKeeps, ServerHandlesKeeps DEF ServerStep
<1>3. CASE Link
  BY <1>3, ConnectedKeeps, UpArrivesKeeps, DownArrivesKeeps, UpEndsKeeps, DownEndsKeeps
     DEF Link
<1>4. CASE Browser
  BY <1>4, BrowserSendsKeeps, BrowserRestKeeps DEF Browser
<1>5. CASE Host
  BY <1>5, HostSendsKeeps, HostRestKeeps DEF Host
<1>6. CASE vars' = vars
  <2>1. /\ C!vars' = C!vars /\ S!vars' = S!vars /\ near' = near /\ far' = far
        /\ c_idle' = c_idle /\ s_idle' = s_idle
        /\ link' = link /\ browser' = browser /\ host' = host
    BY <1>6 DEF vars, client, server, C!vars, S!vars, near, far
  <2>2. c_idle[0] = 0 /\ s_idle[0] = 0
    BY DEF TInv, Between, Stands
  <2> QED
    BY <2>1, <2>2, NothingSeen DEF StepsOf
<1> QED
  BY <1>1, <1>2, <1>3, <1>4, <1>5, <1>6 DEF Next

LEMMA TInvStep ==
    ASSUME TInv, [Next]_vars
    PROVE  TInv'
BY StepKeeps, ProgramsKept DEF TInv

\* What has arrived is the beginning of what was sent.
LEMMA ArrivedEndToEnd ==
    ASSUME TInv
    PROVE  EndToEnd
<1>1. Arrived /\ Outside
  BY DEF TInv, Between
<1>2. /\ req.bytes \in Seq(Byte) /\ Answer \in Seq(Byte) /\ Asked \in Seq(Byte)
      /\ Len(Answer) = Len(Greeting) + Len(Reply)
      /\ Len(Asked) = Len(req.bytes) - Skip
      /\ host.got \in Seq(Byte) /\ browser.got \in Seq(Byte)
      /\ Len(Greeting) \in Nat /\ Len(Reply) \in Nat /\ Skip \in Nat
      /\ Len(req.bytes) \in Nat /\ browser.sent \in Nat /\ Skip <= Len(req.bytes)
      /\ browser.sent <= Len(req.bytes)
  BY <1>1, Shapes DEF Outside
<1>3. Len(req.bytes) - Len(Asked) = Skip /\ Len(Answer) - Len(Reply) = Len(Greeting)
  <2>1. /\ Len(Greeting) \in Nat /\ Len(Reply) \in Nat /\ Skip \in Nat
        /\ Len(req.bytes) \in Nat
        /\ Len(Answer) = Len(Greeting) + Len(Reply)
        /\ Len(Asked) = Len(req.bytes) - Skip
    BY <1>2
  <2> QED
    BY <2>1
<1>4. StartOf(host.got, SubSeq(Asked, 1, browser.sent - Skip))
  <2>1. CASE host.got = <<>>
    <3> DEFINE n == browser.sent - Skip
    <3>1. n \in Int /\ n <= Len(Asked) /\ Len(Asked) \in Nat
      BY <1>2, LenProperties
    <3>2. Run(<<>>, Asked, 0) /\ Len(<<>>) = 0
      BY <1>2, RunNothing
    <3> HIDE DEF n
    <3>3. CASE n >= 0
      <4>1. n \in Nat /\ Len(<<>>) <= n
        BY <3>1, <3>3
      <4> QED
        BY <2>1, <3>1, <3>2, <4>1, RunPrefix DEF n
    <3>4. CASE n < 1
      <4>1. SubSeq(Asked, 1, n) = <<>>
        BY <3>1, <3>4
      <4>2. 0 \in 0 .. Len(<<>>) /\ <<>> = SubSeq(<<>>, 1, 0)
        OBVIOUS
      <4>3. StartOf(<<>>, <<>>)
        BY <4>2, Zenon DEF StartOf
      <4> QED
        BY <2>1, <4>1, <4>3, Zenon DEF n
    <3> QED
      BY <3>1, <3>3, <3>4
  <2>2. CASE host.got # <<>>
    <3>1. Run(host.got, Asked, 0) /\ Len(host.got) <= browser.sent - Skip
      BY <1>1, <2>2 DEF Arrived
    <3>2. browser.sent - Skip \in Nat /\ browser.sent - Skip <= Len(Asked)
      <4>1. Len(host.got) \in Nat
        OBVIOUS
      <4> QED
        BY <1>2, <3>1, <4>1, SMTT(30)
    <3> QED
      BY <3>1, <3>2, RunPrefix
  <2> QED
    BY <2>1, <2>2
<1>5. StartOf(browser.got, Answer)
  <2>1. Run(browser.got, Answer, 0) /\ Len(browser.got) <= Len(Answer)
    <3>1. Run(browser.got, Answer, 0)
      BY <1>1 DEF Arrived
    <3>2. 0 + Len(browser.got) <= Len(Answer) /\ Len(browser.got) \in Nat
      BY <3>1 DEF Run
    <3> QED
      BY <3>1, <3>2
  <2>2. SubSeq(Answer, 1, Len(Answer)) = Answer /\ Len(Answer) \in Nat
        /\ Len(Answer) <= Len(Answer)
    BY <1>2
  <2> QED
    BY <2>1, <2>2, RunPrefix
<1>6. Len(browser.got) <= Len(Greeting) + host.sent
  BY <1>1 DEF Arrived
<1> QED
  BY <1>3, <1>4, <1>5, <1>6 DEF EndToEnd

\* The two programs keep all that was shown of each of them with peers that
\* do as they please, and the bytes under way on the link are the piece of
\* the sealed request, or of the sealed answer, between what one program has
\* written (the `out` of its socket) and what the other has been given.
THEOREM Invariant == Spec => []TInv
<1>1. Init => TInv
  BY TInvAtStart
<1>2. TInv /\ [Next]_vars => TInv'
  BY TInvStep
<1> QED
  BY <1>1, <1>2, PTL DEF Spec

\* In the tunnel the client runs as ClientLoop says: whatever the server and
\* the browser do to it is what its peers may do there.
THEOREM ClientRefines == Spec => C!Spec
<1>1. Init => C!Init
  BY DEF Init
<1>2. TInv /\ [Next]_vars => [C!Next]_(C!vars)
  BY StepKeeps DEF StepsOf
<1> QED
  BY <1>1, <1>2, Invariant, PTL DEF Spec, C!Spec

\* And the server as ServerLoop says.
THEOREM ServerRefines == Spec => S!Spec
<1>1. Init => S!Init
  BY DEF Init
<1>2. TInv /\ [Next]_vars => [S!Next]_(S!vars)
  BY StepKeeps DEF StepsOf
<1> QED
  BY <1>1, <1>2, Invariant, PTL DEF Spec, S!Spec

\* So each program runs in the tunnel as it was modelled, checked and proved
\* alone.
THEOREM EachRefines == Spec => EachAsAlone
  BY ClientRefines, ServerRefines DEF EachAsAlone

\* What arrives at the host is always the beginning of what the browser has
\* sent (behind the header, if that was CONNECT), and what arrives at the
\* browser the beginning of the answer, in the clear, and never a byte before
\* it was sent: for every key, request, answer and size of the buffers.
THEOREM Tunnelled == Spec => []EndToEnd
<1>1. TInv => EndToEnd
  BY ArrivedEndToEnd
<1> QED
  BY <1>1, Invariant, PTL

=============================================================================
