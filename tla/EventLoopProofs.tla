--------------------------- MODULE EventLoopProofs ---------------------------
(***************************************************************************)
(* What the two programs have in common, for every size of pool and        *)
(* buffers, every key, all traffic, with or without failing calls: what    *)
(* the operators of Session do to one slot, that the common steps keep     *)
(* every slot in order, the relay discipline and the bytes, and what the   *)
(* refinement of ProxySession needs.  ClientLoopProofs and                 *)
(* ServerLoopProofs add what each program does by itself.                  *)
(***************************************************************************)
EXTENDS EventLoop, Prefix, TLAPS, SequenceTheorems, WellFoundedInduction

-----------------------------------------------------------------------------
(* What the operators of Session do to one slot, for every size of pool and *)
(* buffers, every key and all traffic: the slot keeps its type and holds    *)
(* exactly what it owns.                                                    *)

SlotOK(c) == c \in SlotType /\ SlotHoldsWhatItOwns(c)

\* A session that is being built may hold a socket that is not registered yet,
\* but it holds no kernel object without its descriptor.
Droppable(c) ==
    \A x \in Side : ~c.fd[x] => c.sock[x].st = "none" /\ ~c.reg[x].on

\* A slot that holds what it owns may be dropped.
LEMMA OwnedIsDroppable ==
    ASSUME NEW c, SlotHoldsWhatItOwns(c)
    PROVE  Droppable(c)
BY DEF SlotHoldsWhatItOwns, Droppable

\* The two sides are each other's partners.
LEMMA OtherSide ==
    \A x \in Side : Other(x) \in Side /\ Other(x) # x /\ Other(Other(x)) = x
BY DEF Side, Cli, Svr, Other

\* close() of a descriptor leaves nothing of it.
LEMMA CloseFdProperties ==
    ASSUME NEW c \in SlotType, NEW x \in Side
    PROVE  /\ CloseFd(c, x) \in SlotType
           /\ \A y \in Side :
                /\ CloseFd(c, x).fd[y] <=> c.fd[y] /\ y # x
                /\ CloseFd(c, x).sock[y] =
                     IF y = x THEN NoSocket ELSE c.sock[y]
                /\ CloseFd(c, x).reg[y] =
                     IF y = x THEN NoRegistration ELSE c.reg[y]
           /\ CloseFd(c, x).data = c.data
           /\ CloseFd(c, x).flag <=> c.flag
           /\ CloseFd(c, x).status = c.status
           /\ CloseFd(c, x).taken = c.taken /\ CloseFd(c, x).req = c.req
           /\ CloseFd(c, x).head = c.head /\ CloseFd(c, x).gave = c.gave
<1>1. <<>> \in Seq(Byte)
  BY EmptySeq
<1>2. NoSocket \in SocketType
  BY <1>1, SessionAssumption DEF BuffersOK, NoSocket, SocketType
<1>3. NoRegistration \in RegistrationType
  BY DEF NoRegistration, RegistrationType, Side
<1> QED
  BY <1>2, <1>3 DEF CloseFd, SlotType

\* free_client_session gives back whatever a session may hold, also one that
\* is only half built.
LEMMA FreeSessionDrops ==
    ASSUME NEW c \in SlotType, Droppable(c), c.flag
    PROVE  SlotOK(FreeSession(c)) /\ ~FreeSession(c).flag
<1> DEFINE freed == [c EXCEPT !.data = [x \in Side |-> <<>>],
                              !.taken = [x \in Side |-> 0]]
           shut1 == IF c.fd[Cli] THEN CloseFd(freed, Cli) ELSE freed
           shut2 == IF c.fd[Svr] THEN CloseFd(shut1, Svr) ELSE shut1
<1>1. Cli \in Side /\ Svr \in Side /\ Cli # Svr /\ Side = {Cli, Svr}
  BY DEF Side, Cli, Svr
<1>2. <<>> \in Seq(Byte)
  BY EmptySeq
<1>3. freed \in SlotType /\ Droppable(freed)
  BY <1>2 DEF SlotType, Droppable
<1>4. freed.data = [x \in Side |-> <<>>]
  BY DEF SlotType
<1>5. \A x \in Side : freed.fd[x] <=> c.fd[x]
  BY DEF SlotType
<1> HIDE DEF freed
<1>6. /\ shut1 \in SlotType /\ Droppable(shut1) /\ ~shut1.fd[Cli]
      /\ shut1.data = [x \in Side |-> <<>>]
      /\ shut1.fd[Svr] <=> c.fd[Svr]
  <2>1. CASE c.fd[Cli]
    BY <1>1, <1>3, <1>4, <1>5, <2>1, CloseFdProperties
       DEF Droppable, NoSocket, NoRegistration
  <2>2. CASE ~c.fd[Cli]
    BY <1>1, <1>3, <1>4, <1>5, <2>2
  <2> QED
    BY <2>1, <2>2
<1> HIDE DEF shut1
<1>7. /\ shut2 \in SlotType /\ Droppable(shut2)
      /\ ~shut2.fd[Cli] /\ ~shut2.fd[Svr]
      /\ shut2.data = [x \in Side |-> <<>>]
  <2>1. CASE c.fd[Svr]
    BY <1>1, <1>6, <2>1, CloseFdProperties
       DEF Droppable, NoSocket, NoRegistration
  <2>2. CASE ~c.fd[Svr]
    BY <1>6, <2>2
  <2> QED
    BY <2>1, <2>2
<1>8. FreeSession(c) = [shut2 EXCEPT !.h = FALSE, !.head = <<>>, !.flag = FALSE]
  BY DEF FreeSession, shut2, shut1, freed
<1> HIDE DEF shut2
<1> QED
  BY <1>1, <1>2, <1>7, <1>8, ZenonT(30) DEF SlotOK, SlotType, SlotHoldsWhatItOwns, Droppable

\* on_session_err and free_client_session of any session that is in order.
LEMMA FreeSessionOK ==
    ASSUME NEW c, SlotOK(c)
    PROVE  SlotOK(FreeSession(c)) /\ ~FreeSession(c).flag
<1>1. CASE c.flag
  BY <1>1, FreeSessionDrops, OwnedIsDroppable DEF SlotOK
<1>2. CASE ~c.flag
  BY <1>2 DEF FreeSession
<1> QED
  BY <1>1, <1>2 DEF SlotOK, SlotType

-----------------------------------------------------------------------------
(* Parts of a slot that may be replaced without disturbing what it owns.    *)

\* The cipher turns sequences of bytes into sequences as long.
LEMMA TranslateType ==
    ASSUME NEW x \in Side, NEW bytes \in Seq(Byte)
    PROVE  Translate(x, bytes) \in Seq(Byte) /\ Len(Translate(x, bytes)) = Len(bytes)
<1>1. DOMAIN bytes = 1 .. Len(bytes) /\ Len(bytes) \in Nat
  BY LenProperties
<1>2. \A i \in 1 .. Len(bytes) : Xlate[x][bytes[i]] \in Byte
  BY SessionAssumption, ElementOfSeq DEF CipherOK
<1> QED
  BY <1>1, <1>2, IsASeq DEF Translate

\* A piece of a sequence of bytes.
LEMMA Piece ==
    ASSUME NEW bytes \in Seq(Byte), NEW n \in Nat, n <= Len(bytes)
    PROVE  /\ SubSeq(bytes, 1, n) \in Seq(Byte)
           /\ SubSeq(bytes, n + 1, Len(bytes)) \in Seq(Byte)
<1>1. Len(bytes) \in Nat
  BY LenProperties
<1>2. \A i \in 1 .. n : bytes[i] \in Byte
  BY <1>1, ElementOfSeq
<1>3. \A i \in n + 1 .. Len(bytes) : bytes[i] \in Byte
  BY <1>1, ElementOfSeq
<1> QED
  BY <1>1, <1>2, <1>3, SubSeqProperties

\* A slot in use with the descriptors, sockets and registrations of a slot
\* that is in order is in order.
LEMMA SameOwnership ==
    ASSUME NEW c, SlotOK(c), NEW d \in SlotType, d.flag,
           \A x \in Side : /\ d.fd[x] <=> c.fd[x]
                           /\ d.sock[x].st = "none" <=> c.sock[x].st = "none"
                           /\ d.reg[x].on <=> c.reg[x].on
    PROVE  SlotOK(d)
BY DEF SlotOK, SlotHoldsWhatItOwns

-----------------------------------------------------------------------------
(* The operators of Session keep a slot in order.                           *)

\* How many bytes write() and read() move on side x.
Writes(c, x) ==
    LET len == Len(c.data[Other(x)])
    IN  IF len <= c.sock[x].room THEN len ELSE c.sock[x].room
Reads(c, x) ==
    LET len == Len(c.sock[x].rx) IN IF len <= ReadMax THEN len ELSE ReadMax

\* The slot after a write() to side x and after a read() of side x.
Written(c, x) ==
    LET o == Other(x)
        n == Writes(c, x)
    IN  [c EXCEPT !.data[o] = SubSeq(c.data[o], n + 1, Len(c.data[o])),
                  !.sock[x].out = @ \o SubSeq(c.data[o], 1, n),
                  !.gave[x] = @ \o SubSeq(c.data[o], 1, n),
                  !.sock[x].room = @ - n]
Filled(c, x) ==
    LET rx == c.sock[x].rx
        n == Reads(c, x)
    IN  [c EXCEPT !.data[x] = @ \o Translate(x, SubSeq(rx, 1, n)),
                  !.taken[x] = @ + n,
                  !.sock[x].rx = SubSeq(rx, n + 1, Len(rx))]
Ended(c, x) == [c EXCEPT !.status[x] = "CLOSE"]

\* A write ends the session or leaves it with what was written.
LEMMA WriteSideCases ==
    ASSUME NEW c, NEW x
    PROVE  \/ WriteSide(c, x) = Return(-1, FreeSession(c))
           \/ /\ Written(c, x).data[Other(x)] = <<>> /\ ~c.fd[Other(x)]
              /\ WriteSide(c, x) = Return(0, FreeSession(Written(c, x)))
           \/ /\ ~(Written(c, x).data[Other(x)] = <<>> /\ ~c.fd[Other(x)])
              /\ WriteSide(c, x) = Return(0, Written(c, x))
BY DEF WriteSide, OnSessionErr, Written, Writes

\* A read ends the session, closes the side, or leaves it as it was or
\* fuller.
LEMMA ReadSideCases ==
    ASSUME NEW c, NEW x, NEW mem
    PROVE  ReadSide(c, x, mem) \in
             {Return(0, Filled(c, x)), Return(-1, FreeSession(c)),
              Return(0, Ended(c, x)), Return(0, c)}
BY DEF ReadSide, OnSessionErr, Filled, Reads, Ended

\* A write takes no more than what is queued.
LEMMA WritesBounds ==
    ASSUME NEW c \in SlotType, NEW x \in Side
    PROVE  /\ c.data[Other(x)] \in Seq(Byte) /\ c.sock[x] \in SocketType
           /\ Writes(c, x) \in Nat
           /\ Writes(c, x) <= Len(c.data[Other(x)])
           /\ Writes(c, x) <= c.sock[x].room
<1>1. Other(x) \in Side
  BY OtherSide
<1>2. c.data[Other(x)] \in Seq(Byte) /\ c.sock[x] \in SocketType
  BY <1>1 DEF SlotType
<1>3. Len(c.data[Other(x)]) \in Nat /\ c.sock[x].room \in 0 .. SndBuf
  BY <1>2, LenProperties DEF SocketType
<1> QED
  BY <1>2, <1>3, SessionAssumption DEF BuffersOK, Writes

\* A read takes no more than what has arrived.
LEMMA ReadsBounds ==
    ASSUME NEW c \in SlotType, NEW x \in Side
    PROVE  /\ c.data[x] \in Seq(Byte) /\ c.sock[x] \in SocketType
           /\ c.sock[x].rx \in Seq(Byte) /\ c.taken[x] \in Nat
           /\ Reads(c, x) \in Nat /\ Reads(c, x) <= Len(c.sock[x].rx)
<1>1. c.data[x] \in Seq(Byte) /\ c.sock[x] \in SocketType /\ c.taken[x] \in Nat
  BY DEF SlotType
<1>2. c.sock[x].rx \in Seq(Byte)
  BY <1>1 DEF SocketType
<1>3. Len(c.sock[x].rx) \in Nat
  BY <1>2, LenProperties
<1> QED
  BY <1>1, <1>2, <1>3, SessionAssumption DEF BuffersOK, Reads

\* Writing keeps a slot in order.
LEMMA WrittenOK ==
    ASSUME NEW c, SlotOK(c), c.flag, NEW x \in Side
    PROVE  /\ SlotOK(Written(c, x)) /\ Written(c, x).flag
           /\ Written(c, x).fd = c.fd /\ Written(c, x).status = c.status
           /\ Written(c, x).event_fd = c.event_fd
<1> DEFINE o == Other(x)
           n == Writes(c, x)
           written == Written(c, x)
<1>1. o \in Side /\ c \in SlotType
  BY OtherSide DEF SlotOK
<1>2. /\ c.data[o] \in Seq(Byte) /\ c.sock[x] \in SocketType
      /\ n \in Nat /\ n <= Len(c.data[o]) /\ n <= c.sock[x].room
  BY <1>1, WritesBounds
<1>3. c.sock[x].room \in 0 .. SndBuf /\ c.sock[x].out \in Seq(Byte)
  BY <1>2 DEF SocketType
<1>4. /\ SubSeq(c.data[o], 1, n) \in Seq(Byte)
      /\ SubSeq(c.data[o], n + 1, Len(c.data[o])) \in Seq(Byte)
  BY <1>2, Piece
<1>5. c.sock[x].room - n \in 0 .. SndBuf
  BY <1>2, <1>3, SessionAssumption DEF BuffersOK
<1>6. /\ c.sock[x].out \o SubSeq(c.data[o], 1, n) \in Seq(Byte)
      /\ c.gave[x] \o SubSeq(c.data[o], 1, n) \in Seq(Byte)
  <2>1. c.gave[x] \in Seq(Byte)
    BY <1>1 DEF SlotType
  <2> QED
    BY <2>1, <1>3, <1>4, ConcatProperties
<1> HIDE DEF n
<1>7. written = [c EXCEPT
                   !.data[o] = SubSeq(c.data[o], n + 1, Len(c.data[o])),
                   !.sock[x].out = @ \o SubSeq(c.data[o], 1, n),
                   !.gave[x] = @ \o SubSeq(c.data[o], 1, n),
                   !.sock[x].room = @ - n]
  BY DEF Written, n
<1> HIDE DEF written
<1>8. written \in SlotType
  BY <1>1, <1>2, <1>4, <1>5, <1>6, <1>7, ZenonT(30) DEF SlotType, SocketType
<1>9. /\ \A y \in Side : /\ written.fd[y] <=> c.fd[y]
                         /\ written.sock[y].st = c.sock[y].st
                         /\ written.reg[y].on <=> c.reg[y].on
      /\ written.flag
      /\ written.fd = c.fd /\ written.status = c.status
      /\ written.event_fd = c.event_fd
  BY <1>1, <1>2, <1>7 DEF SlotType, SocketType
<1> QED
  BY <1>8, <1>9, SameOwnership DEF written

\* Queueing what was read keeps a slot in order.
LEMMA FilledOK ==
    ASSUME NEW c, SlotOK(c), c.flag, NEW x \in Side
    PROVE  /\ SlotOK(Filled(c, x)) /\ Filled(c, x).flag
           /\ Filled(c, x).fd = c.fd /\ Filled(c, x).status = c.status
           /\ Filled(c, x).event_fd = c.event_fd
<1> DEFINE rx == c.sock[x].rx
           n == Reads(c, x)
           got == SubSeq(rx, 1, n)
           filled == Filled(c, x)
<1>1. c \in SlotType
  BY DEF SlotOK
<1>2. /\ c.data[x] \in Seq(Byte) /\ c.sock[x] \in SocketType
      /\ rx \in Seq(Byte) /\ c.taken[x] \in Nat
      /\ n \in Nat /\ n <= Len(rx)
  BY <1>1, ReadsBounds
<1>3. got \in Seq(Byte) /\ SubSeq(rx, n + 1, Len(rx)) \in Seq(Byte)
  BY <1>2, Piece
<1>4. c.data[x] \o Translate(x, got) \in Seq(Byte)
  BY <1>2, <1>3, TranslateType, ConcatProperties
<1>5. c.taken[x] + n \in Nat
  BY <1>2
<1>6. filled = [c EXCEPT !.data[x] = @ \o Translate(x, got),
                         !.taken[x] = @ + n,
                         !.sock[x].rx = SubSeq(rx, n + 1, Len(rx))]
  BY DEF Filled
<1> HIDE DEF n, got, filled
<1>7. filled \in SlotType
  BY <1>1, <1>2, <1>3, <1>4, <1>5, <1>6 DEF SlotType, SocketType
<1>8. /\ \A y \in Side : /\ filled.fd[y] <=> c.fd[y]
                         /\ filled.sock[y].st = c.sock[y].st
                         /\ filled.reg[y].on <=> c.reg[y].on
      /\ filled.flag
      /\ filled.fd = c.fd /\ filled.status = c.status
      /\ filled.event_fd = c.event_fd
  BY <1>1, <1>2, <1>6 DEF SlotType, SocketType
<1> QED
  BY <1>7, <1>8, SameOwnership DEF filled

\* Finding the end of a stream keeps a slot in order.
LEMMA EndedOK ==
    ASSUME NEW c, SlotOK(c), c.flag, NEW x \in Side
    PROVE  SlotOK(Ended(c, x)) /\ Ended(c, x).flag
BY DEF Ended, SlotOK, SlotType, Status, SlotHoldsWhatItOwns

\* The slot is in order whatever becomes of the write,
LEMMA WriteSideOK ==
    ASSUME NEW c, SlotOK(c), c.flag, NEW x \in Side
    PROVE  SlotOK(WriteSide(c, x).slot)
BY WriteSideCases, WrittenOK, FreeSessionOK DEF Return

\* and whatever becomes of the read.
LEMMA ReadSideOK ==
    ASSUME NEW c, SlotOK(c), c.flag, NEW x \in Side, NEW mem \in BOOLEAN
    PROVE  SlotOK(ReadSide(c, x, mem).slot)
BY ReadSideCases, FilledOK, EndedOK, FreeSessionOK DEF Return

\* Both halves of the relay keep the slot in order.
LEMMA OnDataRelayOK ==
    ASSUME NEW c, SlotOK(c), c.flag, NEW x \in Side, NEW events,
           NEW mem \in BOOLEAN
    PROVE  SlotOK(OnDataRelay(c, x, events, mem).slot)
<1> DEFINE w == IF EPOLLOUT \in events THEN WriteSide(c, x) ELSE Return(0, c)
<1>1. SlotOK(w.slot)
  BY WriteSideOK DEF Return
<1>2. \/ OnDataRelay(c, x, events, mem) = w
      \/ w.slot.flag /\ OnDataRelay(c, x, events, mem) = ReadSide(w.slot, x, mem)
  BY DEF OnDataRelay
<1> HIDE DEF w
<1> QED
  BY <1>1, <1>2, ReadSideOK

-----------------------------------------------------------------------------
(* Registrations and the end of a session.                                  *)

\* Changing a registration keeps the slot in order.
LEMMA EpollModOK ==
    ASSUME NEW c, SlotOK(c), c.flag, NEW x \in Side,
           NEW events \in SUBSET {EPOLLIN, EPOLLOUT}, NEW tag \in Side
    PROVE  /\ SlotOK(EpollMod(c, x, events, tag))
           /\ EpollMod(c, x, events, tag).flag
<1> DEFINE new == [on |-> TRUE, events |-> events, tag |-> tag]
           added == [c EXCEPT !.reg[x] = new]
<1>1. CASE c.reg[x].on
  <2>1. new \in RegistrationType
    BY DEF RegistrationType
  <2>2. added \in SlotType
    BY <2>1 DEF SlotOK, SlotType
  <2>3. /\ \A y \in Side : /\ added.fd[y] <=> c.fd[y]
                           /\ added.sock[y].st = c.sock[y].st
                           /\ added.reg[y].on <=> c.reg[y].on
        /\ added.flag
    BY <1>1 DEF SlotOK, SlotType
  <2>4. EpollMod(c, x, events, tag) = added
    BY <1>1 DEF EpollMod, EpollAdd
  <2> HIDE DEF added
  <2> QED
    BY <2>2, <2>3, <2>4, SameOwnership
<1>2. CASE ~c.reg[x].on
  BY <1>2 DEF EpollMod
<1> QED
  BY <1>1, <1>2

\* So does arming both sides for what is pending.
LEMMA EpollSessionModOK ==
    ASSUME NEW c, SlotOK(c)
    PROVE  SlotOK(EpollSessionMod(c))
<1>1. \A d, x : Interest(d, x) \in SUBSET {EPOLLIN, EPOLLOUT}
  BY DEF Interest
<1>2. Cli \in Side /\ Svr \in Side
  BY DEF Side
<1> DEFINE m1 == IF c.fd[Cli] THEN EpollMod(c, Cli, Interest(c, Cli), Cli)
                 ELSE c
<1>3. c.flag => SlotOK(m1) /\ m1.flag
  BY <1>1, <1>2, EpollModOK
<1>4. EpollSessionMod(c) =
        IF ~c.flag THEN c
        ELSE IF c.fd[Svr] THEN EpollMod(m1, Svr, Interest(c, Svr), Svr)
        ELSE m1
  BY DEF EpollSessionMod
<1> HIDE DEF m1
<1> QED
  BY <1>1, <1>2, <1>3, <1>4, EpollModOK

\* Closing a side keeps the slot in order.
LEMMA CloseSideOK ==
    ASSUME NEW c, SlotOK(c), c.flag, NEW x \in Side
    PROVE  SlotOK(CloseSide(c, x))
<1> DEFINE o == Other(x)
           emptied == [c EXCEPT !.data[o] = <<>>]
           shut == IF c.fd[x] THEN CloseFd(emptied, x) ELSE c
<1>1. o \in Side /\ Svr \in Side
  BY OtherSide DEF Side
<1>2. <<>> \in Seq(Byte)
  BY EmptySeq
<1>3. emptied \in SlotType /\ emptied.flag
  BY <1>1, <1>2 DEF SlotOK, SlotType
<1>4. \A y \in Side : /\ emptied.fd[y] <=> c.fd[y]
                      /\ emptied.sock[y].st = c.sock[y].st
                      /\ emptied.reg[y].on <=> c.reg[y].on
  BY DEF SlotOK, SlotType
<1> HIDE DEF emptied
<1>5. SlotOK(shut) /\ shut.flag
  <2>1. CASE c.fd[x]
    <3>1. /\ shut \in SlotType /\ shut.flag
          /\ \A y \in Side :
               /\ shut.fd[y] <=> emptied.fd[y] /\ y # x
               /\ shut.sock[y] = IF y = x THEN NoSocket ELSE emptied.sock[y]
               /\ shut.reg[y] = IF y = x THEN NoRegistration ELSE emptied.reg[y]
      BY <1>3, <2>1, CloseFdProperties
    <3> HIDE DEF shut
    <3> QED
      BY <1>4, <3>1 DEF SlotOK, SlotHoldsWhatItOwns, NoSocket, NoRegistration
  <2>2. CASE ~c.fd[x]
    BY <2>2
  <2> QED
    BY <2>1, <2>2
<1>6. \/ CloseSide(c, x) = FreeSession(shut)
      \/ CloseSide(c, x) = EpollMod(shut, o, {EPOLLOUT}, Svr)
  BY DEF CloseSide, emptied
<1> HIDE DEF shut
<1> QED
  BY <1>1, <1>5, <1>6, EpollModOK, FreeSessionOK

\* The tail of every event keeps the slot in order.
LEMMA FinishOK ==
    ASSUME NEW r, SlotOK(r.slot), NEW x
    PROVE  SlotOK(Finish(r, x))
BY CloseSideOK, EpollSessionModOK DEF Finish, OnSessionClose

-----------------------------------------------------------------------------
(* The branches of handle_connections_event.                                *)

\* The statuses are free to change.
LEMMA StatusOK ==
    ASSUME NEW c, SlotOK(c), NEW x \in Side, NEW new \in Status
    PROVE  /\ SlotOK([c EXCEPT !.status[x] = new])
           /\ [c EXCEPT !.status[x] = new].flag <=> c.flag
BY DEF SlotOK, SlotType, SlotHoldsWhatItOwns

\* A whole event of the far side keeps the slot in order.
LEMMA SvrEventOK ==
    ASSUME NEW c, SlotOK(c), c.flag, NEW events, NEW mem \in BOOLEAN
    PROVE  SlotOK(SvrEvent(c, events, mem))
<1> DEFINE a == [c EXCEPT !.event_fd = Svr]
           up == [a EXCEPT !.status[Svr] = IF @ = "INIT" THEN "DATA_RELAY" ELSE @]
<1>1. Svr \in Side
  BY DEF Side
<1>2. SlotOK(a) /\ a.flag
  BY <1>1 DEF SlotOK, SlotType, SlotHoldsWhatItOwns
<1>3. SlotOK(up) /\ up.flag
  BY <1>1 DEF SlotOK, SlotType, Status, SlotHoldsWhatItOwns
<1>4. SvrEvent(c, events, mem) \in
        {FreeSession(a), Finish(Return(0, up), Svr),
         Finish(OnDataRelay(up, Svr, Effective(events), mem), Svr)}
  BY DEF SvrEvent, OnSessionErr
<1>5. Return(0, up).slot = up
  BY DEF Return
<1> HIDE DEF a, up
<1>6. SlotOK(OnDataRelay(up, Svr, Effective(events), mem).slot)
  BY <1>1, <1>3, OnDataRelayOK
<1> QED
  BY <1>2, <1>3, <1>4, <1>5, <1>6, FreeSessionOK, FinishOK

\* A new socket has its type.
LEMMA NewSocketType ==
    ASSUME NEW state \in {"syn", "est"}
    PROVE  NewSocket(state) \in SocketType /\ NewSocket(state).st # "none"
<1>1. <<>> \in Seq(Byte)
  BY EmptySeq
<1>2. SndBuf \in 0 .. SndBuf /\ 0 \in 0 .. SndBuf
  BY SessionAssumption DEF BuffersOK
<1>3. NoSocket \in SocketType
  BY <1>1, <1>2 DEF NoSocket, SocketType
<1> QED
  BY <1>2, <1>3 DEF NewSocket, SocketType

\* The slot once the connection to the server is being made.
Connected(c, outcome) ==
    [c EXCEPT
        !.fd[Svr] = TRUE,
        !.sock[Svr] = NewSocket(IF outcome = "done" THEN "est" ELSE "syn"),
        !.gave[Svr] = <<>>,
        !.status[Cli] = "DATA_RELAY",
        !.status[Svr] = IF outcome = "done" THEN "DATA_RELAY" ELSE @,
        !.reg[Svr] = [on |-> TRUE, events |-> {EPOLLIN, EPOLLOUT}, tag |-> Svr]]

\* A slot with the far connection built is in order.
LEMMA ConnectedOK ==
    ASSUME NEW c, SlotOK(c), c.flag, NEW outcome
    PROVE  LET d == Connected(c, outcome) IN
           /\ SlotOK(d) /\ d.flag
           /\ d.fd = [c.fd EXCEPT ![Svr] = TRUE]
           /\ d.status[Cli] = "DATA_RELAY"
           /\ d.status[Svr] \in {"DATA_RELAY", c.status[Svr]}
           /\ d.event_fd = c.event_fd /\ d.data = c.data
           /\ d.sock[Cli] = c.sock[Cli] /\ d.sock[Svr].out = <<>>
           /\ d.taken = c.taken /\ d.req = c.req /\ d.head = c.head
           /\ d.sock[Svr].rx = <<>> /\ d.sock[Svr].sent = 0
<1> DEFINE new == NewSocket(IF outcome = "done" THEN "est" ELSE "syn")
           known == [on |-> TRUE, events |-> {EPOLLIN, EPOLLOUT}, tag |-> Svr]
           added == Connected(c, outcome)
<1>1. Cli \in Side /\ Svr \in Side /\ Cli # Svr
  BY DEF Side, Cli, Svr
<1>2. /\ new \in SocketType /\ new.st # "none"
      /\ new.rx = <<>> /\ new.out = <<>> /\ new.sent = 0
  BY NewSocketType DEF NewSocket, NoSocket
<1>3. known \in RegistrationType /\ known.on
  BY <1>1 DEF RegistrationType
<1>4. c \in SlotType
  BY DEF SlotOK
<1>5. added = [c EXCEPT
        !.fd[Svr] = TRUE,
        !.sock[Svr] = new,
        !.gave[Svr] = <<>>,
        !.status[Cli] = "DATA_RELAY",
        !.status[Svr] = IF outcome = "done" THEN "DATA_RELAY" ELSE @,
        !.reg[Svr] = known]
  BY DEF Connected
<1> HIDE DEF new, known, added
<1>6. added \in SlotType /\ added.flag
  BY <1>1, <1>2, <1>3, <1>4, <1>5, EmptySeq DEF SlotType, Status
<1>7. \A y \in Side : /\ added.fd[y] <=> c.fd[y] \/ y = Svr
                      /\ added.sock[y] = IF y = Svr THEN new ELSE c.sock[y]
                      /\ added.reg[y] = IF y = Svr THEN known ELSE c.reg[y]
  BY <1>1, <1>4, <1>5 DEF SlotType
<1>8. SlotOK(added)
  BY <1>2, <1>3, <1>6, <1>7 DEF SlotOK, SlotHoldsWhatItOwns
<1>9. /\ added.fd = [c.fd EXCEPT ![Svr] = TRUE]
      /\ added.status[Cli] = "DATA_RELAY"
      /\ added.status[Svr] \in {"DATA_RELAY", c.status[Svr]}
      /\ added.event_fd = c.event_fd /\ added.data = c.data
      /\ added.taken = c.taken /\ added.req = c.req /\ added.head = c.head
  BY <1>1, <1>4, <1>5 DEF SlotType
<1> QED
  BY <1>1, <1>2, <1>6, <1>7, <1>8, <1>9 DEF added

\* Building the far connection succeeds or frees the session.
LEMMA BuildSvrOK ==
    ASSUME NEW c, SlotOK(c), c.flag, NEW outcome
    PROVE  LET r == BuildSvr(c, outcome) IN
           /\ SlotOK(r.slot)
           /\ \/ r.ret = -1 /\ ~r.slot.flag
              \/ /\ r = Return(0, Connected(c, outcome))
                 /\ outcome \notin {"nosocket", "error"}
<1> DEFINE new == NewSocket(IF outcome = "done" THEN "est" ELSE "syn")
           opened == [c EXCEPT !.fd[Svr] = TRUE, !.sock[Svr] = new,
                              !.gave[Svr] = <<>>]
<1>1. Svr \in Side /\ c \in SlotType
  BY DEF Side, SlotOK
<1>2. new \in SocketType /\ new.st # "none"
  BY NewSocketType
<1> HIDE DEF new
<1>3. opened \in SlotType /\ opened.flag /\ Droppable(opened)
  <2>1. opened \in SlotType /\ opened.flag
    BY <1>1, <1>2, EmptySeq DEF SlotType
  <2>2. \A y \in Side : /\ opened.fd[y] <=> c.fd[y] \/ y = Svr
                        /\ y # Svr => opened.sock[y] = c.sock[y]
                        /\ opened.reg[y] = c.reg[y]
    BY <1>1 DEF SlotType
  <2> HIDE DEF opened
  <2> QED
    BY <2>1, <2>2 DEF Droppable, SlotOK, SlotHoldsWhatItOwns
<1>4. \/ BuildSvr(c, outcome) = Return(-1, FreeSession(c))
      \/ BuildSvr(c, outcome) = Return(-1, FreeSession(opened))
      \/ /\ BuildSvr(c, outcome) = Return(0, Connected(c, outcome))
         /\ outcome \notin {"nosocket", "error"}
  <2>1. CASE outcome = "nosocket"
    BY <2>1 DEF BuildSvr, OnSessionErr
  <2>2. CASE outcome = "error"
    BY <2>2 DEF BuildSvr, OnSessionErr, new
  <2>3. CASE outcome \notin {"nosocket", "error"}
    BY <2>3 DEF BuildSvr, EpollAdd, Connected
  <2> QED
    BY <2>1, <2>2, <2>3
<1> HIDE DEF opened
<1>5. /\ SlotOK(FreeSession(c)) /\ ~FreeSession(c).flag
      /\ SlotOK(FreeSession(opened)) /\ ~FreeSession(opened).flag
      /\ SlotOK(Connected(c, outcome))
  BY <1>3, FreeSessionOK, FreeSessionDrops, ConnectedOK
<1>6. \A v, d : Return(v, d).ret = v /\ Return(v, d).slot = d
  BY DEF Return
<1> QED
  BY <1>4, <1>5, <1>6

\* A slot never used is in order.
LEMMA EmptySlotOK ==
    ASSUME NEW q \in Requests
    PROVE  SlotOK(EmptySlot(q)) /\ ~EmptySlot(q).flag
<1>1. <<>> \in Seq(Byte)
  BY EmptySeq
<1>2. NoSocket \in SocketType /\ NoRegistration \in RegistrationType
  BY <1>1, SessionAssumption
     DEF BuffersOK, NoSocket, SocketType, NoRegistration, RegistrationType, Side
<1>3. EmptySlot(q) \in SlotType
  BY <1>1, <1>2 DEF EmptySlot, SlotType, Status
<1> QED
  BY <1>3 DEF SlotOK, SlotHoldsWhatItOwns, EmptySlot, NoSocket, NoRegistration

\* A slot just handed out: in use, and nothing of it open.
Fresh(c) ==
    /\ c \in SlotType /\ c.flag
    /\ \A x \in Side : ~c.fd[x] /\ c.sock[x].st = "none" /\ ~c.reg[x].on

\* A slot just handed out has no descriptor and nothing queued.
LEMMA InitSessionFresh ==
    ASSUME NEW q \in Requests
    PROVE  Fresh(InitSession(q))
<1>1. SlotOK(EmptySlot(q)) /\ \A x \in Side : ~EmptySlot(q).fd[x]
  BY EmptySlotOK DEF EmptySlot
<1> QED
  BY <1>1 DEF InitSession, Fresh, SlotOK, SlotType, SlotHoldsWhatItOwns

\* The browser's socket of a slot just handed out, registered or given up.
LEMMA AcceptedOK ==
    ASSUME NEW c, Fresh(c)
    PROVE  /\ SlotOK(Accepted(c))
           /\ SlotOK(FreeSession([c EXCEPT
                !.fd[Cli] = TRUE, !.sock[Cli] = NewSocket("est")]))
<1> DEFINE new == NewSocket("est")
           opened == [c EXCEPT !.fd[Cli] = TRUE, !.sock[Cli] = new]
           known == [on |-> TRUE, events |-> {EPOLLIN}, tag |-> Cli]
           added == [opened EXCEPT !.reg[Cli] = known]
<1>1. Cli \in Side
  BY DEF Side
<1>2. new \in SocketType /\ new.st # "none"
  BY NewSocketType
<1>3. known \in RegistrationType /\ known.on
  BY <1>1 DEF RegistrationType
<1> HIDE DEF new, known
<1>4. opened \in SlotType /\ opened.flag /\ Droppable(opened)
  BY <1>1, <1>2 DEF SlotType, Fresh, Droppable
<1>5. SlotOK(added)
  BY <1>1, <1>2, <1>3 DEF SlotType, Fresh, SlotOK, SlotHoldsWhatItOwns
<1>6. Accepted(c) = added
  BY DEF Accepted, EpollAdd, new, known
<1>7. SlotOK(FreeSession(opened))
  BY <1>4, FreeSessionDrops
<1> QED
  BY <1>5, <1>6, <1>7 DEF new

-----------------------------------------------------------------------------
(* The steps that LDProxy_client and LDProxy_server have in common keep the *)
(* types of the loop's variables and every slot in order.                   *)

\* The inductive invariant of both loops.
Inv == TypeOK /\ NoLeak

\* In the invariant every slot is in order.
LEMMA InvSlots ==
    ASSUME Inv, NEW s \in Slot
    PROVE  SlotOK(conn[s])
BY DEF Inv, TypeOK, NoLeak, SlotOK

\* A step that replaces one slot by one that is in order.
LEMMA ReplaceSlot ==
    ASSUME Inv, NEW s \in Slot, NEW c, SlotOK(c),
           conn' = [conn EXCEPT ![s] = c]
    PROVE  NoLeak' /\ conn' \in [Slot -> SlotType]
BY DEF Inv, TypeOK, NoLeak, SlotOK

-----------------------------------------------------------------------------
(* Arithmetic of the pool's indices.                                        *)

\* The step to the next slot of the ring stays in the pool.
LEMMA RingInSlot ==
    ASSUME NEW i \in Nat, NEW k \in Nat
    PROVE  (i + k) % MaxSession \in Slot
BY LoopAssumption DEF PoolOK, Slot

\* Every set of naturals that is not empty has a least element.
LEMMA LeastElement ==
    ASSUME NEW T \in SUBSET Nat, T # {}
    PROVE  \E x \in T : \A y \in T : x <= y
<1>1. PICK x \in T : \A y \in T : ~(<<y, x>> \in OpToRel(<, Nat))
  BY NatLessThanWellFounded, WFMin
<1>2. \A y \in T : ~(y < x)
  BY <1>1 DEF OpToRel
<1> QED
  BY <1>2

\* A pool that is not full has a first free slot, seen from s_index.
LEMMA FirstFreeIsFree ==
    ASSUME s_index \in Slot, ~PoolFull
    PROVE  FirstFree \in Slot /\ ~conn[FirstFree].flag
<1> DEFINE k == CHOOSE j \in FreeOffsets : \A i \in FreeOffsets : j <= i
<1>1. FreeOffsets \in SUBSET Nat /\ FreeOffsets # {}
  BY LoopAssumption DEF PoolOK, FreeOffsets, PoolFull, Slot
<1>2. k \in FreeOffsets
  BY <1>1, LeastElement
<1>3. FirstFree = RingFrom(s_index, k)
  BY DEF FirstFree
<1> HIDE DEF k
<1>4. k \in Nat /\ s_index \in Nat
  BY <1>1, <1>2, LoopAssumption DEF PoolOK, Slot
<1> QED
  BY <1>2, <1>3, <1>4, RingInSlot DEF FreeOffsets, RingFrom

\* The clock's two readings keep their types.
LEMMA ClockTypes ==
    ASSUME TypeOK, NEW d \in Elapsed
    PROVE  /\ Aged(d) \in [Slot -> 0 .. Alive]
           /\ AtMost(since + d, Period + 1) \in 0 .. Period + 1
<1>1. d \in Nat /\ Alive \in Nat /\ Period \in Nat
  BY LoopAssumption DEF TimeOK
<1>2. \A s \in Slot : idle[s] \in 0 .. Alive
  BY DEF TypeOK
<1>3. since \in Nat
  BY <1>1 DEF TypeOK
<1>4. \A n \in Nat, m \in Nat : AtMost(n, m) \in 0 .. m
  BY DEF AtMost
<1>5. \A s \in Slot : idle[s] + d \in Nat
  BY <1>1, <1>2
<1>6. \A s \in Slot : AtMost(idle[s] + d, Alive) \in 0 .. Alive
  BY <1>1, <1>4, <1>5
<1>7. 0 \in 0 .. Alive /\ since + d \in Nat /\ Period + 1 \in Nat
  BY <1>1, <1>3
<1> QED
  BY <1>4, <1>6, <1>7 DEF Aged

-----------------------------------------------------------------------------
(* handle_agent_event.                                                      *)

\* What the listening socket does without taking a session.
LEMMA AgentStepOK ==
    ASSUME Inv, AgentStep
    PROVE  Inv'
<1> USE DEF Inv
<1>1. CASE AgentInterrupted
  BY <1>1 DEF AgentInterrupted, TypeOK, NoLeak
<1>2. ASSUME NEW d \in Elapsed, AgentNoSession(d)
      PROVE  Inv'
  BY <1>2, ClockTypes DEF AgentNoSession, ClockAdvances, TypeOK, NoLeak
<1>3. ASSUME NEW d \in Elapsed, AgentRefuses(d)
      PROVE  Inv'
  BY <1>3, ClockTypes DEF AgentRefuses, ClockAdvances, TypeOK, NoLeak
<1> QED
  BY <1>1, <1>2, <1>3 DEF AgentStep

\* What it does when it takes one.
LEMMA AgentAcceptsOK ==
    ASSUME Inv, NEW d \in Elapsed, NEW fresh, Fresh(fresh),
           NEW registered \in BOOLEAN, AgentAccepts(d, fresh, registered)
    PROVE  Inv'
<1>1. FirstFree \in Slot
  BY FirstFreeIsFree DEF Inv, TypeOK, AgentAccepts
<1> DEFINE c == IF registered THEN Accepted(fresh)
                ELSE FreeSession([fresh EXCEPT
                       !.fd[Cli] = TRUE, !.sock[Cli] = NewSocket("est")])
<1>2. SlotOK(c)
  BY AcceptedOK
<1>3. conn' = [conn EXCEPT ![FirstFree] = c]
  BY DEF AgentAccepts
<1> HIDE DEF c
<1>4. NoLeak' /\ conn' \in [Slot -> SlotType]
  BY <1>1, <1>2, <1>3, ReplaceSlot
<1>5. IndexAfter(FirstFree) \in Slot
  BY <1>1, LoopAssumption DEF PoolOK, IndexAfter, Slot
<1>6. 0 \in 0 .. Alive
  BY LoopAssumption DEF TimeOK
<1>7. [Aged(d) EXCEPT ![FirstFree] = 0] \in [Slot -> 0 .. Alive]
  BY <1>6, ClockTypes DEF Inv
<1> QED
  BY <1>4, <1>5, <1>7, ClockTypes DEF AgentAccepts, ClockAdvances, Inv, TypeOK

-----------------------------------------------------------------------------
(* handle_connections_event.                                                *)

\* The events epoll reports are of registered descriptors.
LEMMA ReadyEvents ==
    ASSUME Inv
    PROVE  Ready \subseteq EventType
<1> SUFFICES ASSUME NEW s \in Slot, NEW x \in Side
             PROVE  [slot |-> s, tag |-> conn[s].reg[x].tag,
                     events |-> Reported(conn[s], x), fd |-> x] \in EventType
  BY DEF Ready
<1>1. conn[s].reg[x] \in RegistrationType
  BY DEF Inv, TypeOK, SlotType
<1>2. /\ conn[s].reg[x].tag \in Side
      /\ conn[s].reg[x].events \in SUBSET {EPOLLIN, EPOLLOUT}
  BY <1>1 DEF RegistrationType
<1>3. Reported(conn[s], x) \in SUBSET {EPOLLIN, EPOLLOUT, EPOLLHUP}
  BY <1>2 DEF Reported
<1> QED
  BY <1>2, <1>3 DEF EventType

\* A batch is made of such events.
LEMMA EpollWaitOK ==
    ASSUME Inv, EpollWait \/ WaitInterrupted
    PROVE  Inv'
<1>1. CASE EpollWait
  <2>1. batch' \subseteq EventType /\ pc' \in {"timeout", "dispatch"}
    BY <1>1, ReadyEvents DEF EpollWait
  <2> QED
    BY <1>1, <2>1 DEF EpollWait, Inv, TypeOK, NoLeak
<1>2. CASE WaitInterrupted
  BY <1>2 DEF WaitInterrupted, Inv, TypeOK, NoLeak
<1> QED
  BY <1>1, <1>2

\* The end of an event keeps the batch and the place in the loop typed.
LEMMA EventDoneTypes ==
    ASSUME TypeOK, NEW e, EventDone(e)
    PROVE  /\ batch' \subseteq EventType
           /\ pc' \in {"timeout", "dispatch"}
           /\ UNCHANGED <<s_index, i_start, max_timeout, since>>
BY DEF EventDone, TypeOK

\* An event of a freed session changes no slot.
LEMMA SkipEventOK ==
    ASSUME Inv, NEW e, SkipEvent(e)
    PROVE  Inv'
BY EventDoneTypes DEF SkipEvent, Inv, TypeOK, NoLeak

\* A handler that keeps its slot in order keeps the invariant.
LEMMA HandleEventOK ==
    ASSUME Inv, NEW e \in batch, NEW c, SlotOK(c), HandleEvent(e, c)
    PROVE  Inv'
<1>1. e.slot \in Slot
  BY DEF Inv, TypeOK, EventType
<1>2. NoLeak' /\ conn' \in [Slot -> SlotType]
  BY <1>1, ReplaceSlot DEF HandleEvent
<1>3. 0 \in 0 .. Alive
  BY LoopAssumption DEF TimeOK
<1>4. idle' \in [Slot -> 0 .. Alive]
  BY <1>1, <1>3 DEF HandleEvent, Inv, TypeOK
<1>5. /\ batch' \subseteq EventType
      /\ pc' \in {"timeout", "dispatch"}
      /\ UNCHANGED <<s_index, i_start, max_timeout, since>>
  BY EventDoneTypes DEF Inv, HandleEvent
<1> QED
  BY <1>2, <1>4, <1>5 DEF Inv, TypeOK

\* The far side's handler does.
LEMMA HandleSvrEventOK ==
    ASSUME Inv, NEW e, HandleSvrEvent(e)
    PROVE  Inv'
<1>1. PICK mem \in MallocOutcomes :
        HandleEvent(e, SvrEvent(conn[e.slot], e.events, mem))
  BY DEF HandleSvrEvent
<1>2. mem \in BOOLEAN
  BY DEF MallocOutcomes
<1>3. e \in batch /\ e.slot \in Slot /\ conn[e.slot].flag
  BY DEF HandleSvrEvent, Inv, TypeOK, EventType
<1>4. SlotOK(SvrEvent(conn[e.slot], e.events, mem))
  BY <1>2, <1>3, InvSlots, SvrEventOK
<1> QED
  BY <1>1, <1>3, <1>4, HandleEventOK

-----------------------------------------------------------------------------
(* handle_session_timeout.                                                  *)

\* A walk over idle sessions frees some slots and keeps the rest.
LEMMA WalkOK ==
    ASSUME Inv, NEW walked, Walk(walked)
    PROVE  /\ NoLeak' /\ conn' \in [Slot -> SlotType]
           /\ idle' \in [Slot -> 0 .. Alive]
           /\ since' \in 0 .. Period + 1
           /\ pc' = "agent" /\ UNCHANGED <<batch, s_index>>
<1>1. \A s \in Slot : SlotOK(Reaped(walked)[s])
  BY InvSlots, FreeSessionOK DEF Reaped
<1>2. Reaped(walked) = [s \in Slot |-> Reaped(walked)[s]]
  BY DEF Reaped
<1>3. conn' = Reaped(walked)
  BY DEF Walk
<1>4. NoLeak' /\ conn' \in [Slot -> SlotType]
  BY <1>1, <1>2, <1>3 DEF SlotOK, NoLeak
<1>5. 0 \in 0 .. Alive /\ 0 \in 0 .. Period + 1
  BY LoopAssumption DEF TimeOK
<1> QED
  BY <1>4, <1>5 DEF Walk, Inv, TypeOK

\* The walk ends within the pool.
LEMMA WalkEndInSlot ==
    ASSUME i_start \in Slot
    PROVE  WalkEnd \in Slot
<1>1. MaxSession \div WalkShare \in Nat
  BY LoopAssumption DEF PoolOK
<1>2. i_start \in Nat
  BY LoopAssumption DEF PoolOK, Slot
<1> QED
  BY <1>1, <1>2, RingInSlot DEF WalkEnd

\* Whatever the idle timer does, slots stay in order.
LEMMA TimeoutStepOK ==
    ASSUME Inv, TimeoutStep
    PROVE  Inv'
<1>1. CASE TimeoutNotDue
  BY <1>1 DEF TimeoutNotDue, Inv, TypeOK, NoLeak
<1>2. CASE TimeoutWalk
  BY <1>2, WalkOK, WalkEndInSlot DEF TimeoutWalk, Inv, TypeOK
<1>3. CASE TimeoutSweep
  BY <1>3, WalkOK DEF TimeoutSweep, Inv, TypeOK
<1> QED
  BY <1>1, <1>2, <1>3 DEF TimeoutStep

-----------------------------------------------------------------------------
(* The peers.  A peer acts on a socket only, and a socket belongs to a      *)
(* session in use.                                                          *)

\* A peer's step needs a socket, hence a session in use.
LEMMA PeerOwner ==
    ASSUME Inv, NEW s \in Slot, NEW x \in Side, Peer(s, x)
    PROVE  /\ conn[s].flag /\ conn[s].fd[x]
           /\ SlotOK(conn[s])
           /\ conn[s].sock[x] \in SocketType
BY InvSlots DEF Peer, SlotOK, SlotHoldsWhatItOwns, SlotType

\* A socket that is still open changes.
LEMMA SocketChanges ==
    ASSUME Inv, NEW s \in Slot, NEW x \in Side, Peer(s, x),
           NEW k \in SocketType, k.st # "none",
           conn' = [conn EXCEPT ![s].sock[x] = k]
    PROVE  Inv'
<1> DEFINE c == [conn[s] EXCEPT !.sock[x] = k]
<1>1. SlotOK(conn[s]) /\ conn[s].flag
  BY PeerOwner
<1>2. conn[s] \in SlotType /\ conn[s].sock[x].st # "none"
  BY <1>1 DEF SlotOK, Peer
<1>3. c \in SlotType /\ c.flag
  BY <1>1, <1>2 DEF SlotType
<1>4. \A y \in Side : /\ c.fd[y] <=> conn[s].fd[y]
                      /\ c.sock[y].st = "none" <=> conn[s].sock[y].st = "none"
                      /\ c.reg[y].on <=> conn[s].reg[y].on
  BY <1>2 DEF SlotType
<1>5. conn' = [conn EXCEPT ![s] = c]
  OBVIOUS
<1> HIDE DEF c
<1>6. SlotOK(c)
  BY <1>1, <1>3, <1>4, SameOwnership
<1> QED
  BY <1>5, <1>6, ReplaceSlot DEF Peer, Inv, TypeOK

\* What a peer has to send is a sequence of bytes.
LEMMA PeerBytesType ==
    ASSUME NEW c \in SlotType, NEW x \in Side
    PROVE  PeerBytes(c, x) \in Seq(Byte)
<1>1. c.req \in Requests /\ c.req \in RequestType
  BY SessionAssumption DEF TrafficOK, SlotType
<1>2. c.req.bytes \in Seq(Byte) /\ Reply[c.req] \in Seq(Byte)
  BY <1>1, SessionAssumption DEF TrafficOK, RequestType
<1> QED
  BY <1>2 DEF PeerBytes

\* The peers change nothing but their sockets.
LEMMA PeerStepOK ==
    ASSUME Inv, PeerStep
    PROVE  Inv'
<1> SUFFICES ASSUME NEW s \in Slot, NEW x \in Side,
                    \/ PeerSends(s, x)
                    \/ PeerShutsDown(s, x)
                    \/ PeerResets(s, x)
                    \/ PeerReceives(s, x)
                    \/ HandshakeDone(s, x)
             PROVE  Inv'
  BY DEF PeerStep
<1> DEFINE k == conn[s].sock[x]
<1>1. /\ Peer(s, x)
      /\ k \in SocketType /\ k.st # "none"
      /\ conn \in [Slot -> SlotType] /\ conn[s] \in SlotType
  BY PeerOwner DEF PeerSends, PeerShutsDown, PeerResets, PeerReceives,
                   HandshakeDone, Peer, Inv, TypeOK
<1>2. CASE PeerSends(s, x)
  <2> DEFINE all == PeerBytes(conn[s], x)
             next == [k EXCEPT !.rx = Append(k.rx, all[k.sent + 1]),
                       !.sent = k.sent + 1]
  <2>1. k.sent \in Nat /\ k.rx \in Seq(Byte) /\ all \in Seq(Byte)
    BY <1>1, PeerBytesType DEF SocketType
  <2>2. k.sent < Len(all)
    BY <1>2 DEF PeerSends
  <2>3. all[k.sent + 1] \in Byte
    BY <2>1, <2>2, LenProperties, ElementOfSeq
  <2>4. Append(k.rx, all[k.sent + 1]) \in Seq(Byte) /\ k.sent + 1 \in Nat
    BY <2>1, <2>3, AppendProperties
  <2> HIDE DEF all
  <2>5. next \in SocketType /\ next.st # "none"
    BY <1>1, <2>4 DEF SocketType
  <2>6. conn' = [conn EXCEPT ![s].sock[x] = next]
    BY <1>2 DEF PeerSends, all
  <2> QED
    BY <1>1, <2>5, <2>6, SocketChanges
<1>3. CASE PeerShutsDown(s, x)
  <2> DEFINE next == [k EXCEPT !.fin = TRUE]
  <2>1. next \in SocketType /\ next.st # "none"
    BY <1>1 DEF SocketType
  <2>2. conn' = [conn EXCEPT ![s].sock[x] = next]
    BY <1>3 DEF PeerShutsDown
  <2> QED
    BY <1>1, <2>1, <2>2, SocketChanges
<1>4. CASE PeerResets(s, x)
  <2> DEFINE next == [k EXCEPT !.rst = TRUE]
  <2>1. next \in SocketType /\ next.st # "none"
    BY <1>1 DEF SocketType
  <2>2. conn' = [conn EXCEPT ![s].sock[x] = next]
    BY <1>4 DEF PeerResets
  <2> QED
    BY <1>1, <2>1, <2>2, SocketChanges
<1>5. CASE PeerReceives(s, x)
  <2>1. \E l \in SocketType :
          l.st # "none" /\ conn' = [conn EXCEPT ![s].sock[x] = l]
    <3> PICK n \in k.room + 1 .. SndBuf :
               conn' = [conn EXCEPT ![s].sock[x].room = n]
      BY <1>5 DEF PeerReceives
    <3> DEFINE next == [k EXCEPT !.room = n]
    <3>1. k.room \in 0 .. SndBuf /\ SndBuf \in Nat
      BY <1>1, SessionAssumption DEF BuffersOK, SocketType
    <3>2. n \in 0 .. SndBuf
      BY <3>1
    <3>3. next \in SocketType /\ next.st # "none"
      BY <1>1, <3>2 DEF SocketType
    <3>4. conn' = [conn EXCEPT ![s].sock[x] = next]
      OBVIOUS
    <3> QED
      BY <3>3, <3>4
  <2> QED
    BY <1>1, <2>1, SocketChanges
<1>6. CASE HandshakeDone(s, x)
  <2> DEFINE next == [k EXCEPT !.st = "est"]
  <2>1. next \in SocketType /\ next.st # "none"
    BY <1>1 DEF SocketType
  <2>2. conn' = [conn EXCEPT ![s].sock[x] = next]
    BY <1>6 DEF HandshakeDone
  <2> QED
    BY <1>1, <2>1, <2>2, SocketChanges
<1> QED
  BY <1>2, <1>3, <1>4, <1>5, <1>6

-----------------------------------------------------------------------------
\* The loop starts in the invariant.
LEMMA InitOK == Init => Inv
<1> SUFFICES ASSUME Init PROVE Inv
  OBVIOUS
<1> DEFINE q == CHOOSE r \in Requests : TRUE
<1>1. q \in Requests
  BY SessionAssumption DEF TrafficOK
<1> HIDE DEF q
<1>2. conn = [s \in Slot |-> EmptySlot(q)]
  BY DEF Init, q
<1>3. conn \in [Slot -> SlotType] /\ NoLeak
  BY <1>1, <1>2, EmptySlotOK DEF NoLeak, SlotOK
<1>4. /\ 0 \in Slot /\ 0 \in 0 .. Alive /\ Period + 1 \in 0 .. Period + 1
  BY LoopAssumption DEF PoolOK, TimeOK, Slot
<1> QED
  BY <1>3, <1>4 DEF Init, Inv, TypeOK

\* A step that changes nothing keeps it.
LEMMA StutterOK ==
    ASSUME Inv, UNCHANGED vars
    PROVE  Inv'
BY DEF vars, Inv, TypeOK, NoLeak

-----------------------------------------------------------------------------
(* Slots that are not in use.                                               *)

\* Whatever an event does, it does to the session it is about; peers act on
\* open sockets; so a slot that is free during a batch stays as it is.
Untouched == \A s \in Slot : ~conn[s].flag => conn'[s] = conn[s]

\* A handler changes the slot of its event and no other.
LEMMA HandleEventUntouched ==
    ASSUME Inv, NEW e \in batch, conn[e.slot].flag, NEW c, HandleEvent(e, c)
    PROVE  Untouched
<1>1. e.slot \in Slot /\ conn \in [Slot -> SlotType]
  BY DEF Inv, TypeOK, EventType
<1> QED
  BY <1>1 DEF HandleEvent, Untouched

\* The peers do not touch a free slot.
LEMMA PeerUntouched ==
    ASSUME Inv, PeerStep
    PROVE  Untouched
<1>1. PICK s \in Slot, x \in Side :
        \/ PeerSends(s, x)
        \/ PeerShutsDown(s, x)
        \/ PeerResets(s, x)
        \/ PeerReceives(s, x)
        \/ HandshakeDone(s, x)
  BY DEF PeerStep
<1>2. conn[s].flag
  BY <1>1, PeerOwner DEF PeerSends, PeerShutsDown, PeerResets, PeerReceives,
                         HandshakeDone
<1>3. conn \in [Slot -> SlotType]
  BY DEF Inv, TypeOK
<1> QED
  BY <1>1, <1>2, <1>3 DEF PeerSends, PeerShutsDown, PeerResets, PeerReceives,
                          HandshakeDone, Untouched

-----------------------------------------------------------------------------
(* The relay discipline of both loops, one slot at a time: a side that is   *)
(* closed is closed for good and its partner lives to be flushed, epoll     *)
(* waits for what there is to do, and an event is about an open descriptor  *)
(* of the side it is tagged with, or of the last one left. Then the bytes:  *)
(* a handler passes on what it takes and drops nothing while the receiver   *)
(* lives.                                                                   *)

\* The descriptor and the queue of a side whose status is CLOSE.
Flushes(c, x) ==
    c.status[x] = "CLOSE" =>
        ~c.fd[x] /\ c.fd[Other(x)] /\ c.data[x] # <<>>

Armed(c, x) ==
    c.fd[x] =>
        /\ EPOLLOUT \in c.reg[x].events <=> c.data[Other(x)] # <<>>
        /\ c.status[Other(x)] # "CLOSE" => EPOLLIN \in c.reg[x].events

\* __on_session_close gives the server tag to the browser's descriptor.
Tagged(c, x) ==
    c.fd[x] => c.reg[x].tag = x \/ (x = Cli /\ c.status[Svr] = "CLOSE")

\* The far side does not exist before the near side relays.
Begun(c) ==
    c.status[Cli] \notin {"DATA_RELAY", "CLOSE"} =>
        c.status[Svr] = "INIT" /\ ~c.fd[Svr]

\* A session between two events.
Settled(c) ==
    c.flag => /\ \A x \in Side : Flushes(c, x) /\ Armed(c, x) /\ Tagged(c, x)
              /\ Begun(c)

\* A session in the middle of an event of its open side x: x may have been
\* found closed, the other side is as it was.
Midway(c, x) ==
    /\ c.event_fd = x
    /\ c.fd[x]
    /\ Begun(c)
    /\ c.status[Other(x)] = "CLOSE" =>
         ~c.fd[Other(x)] /\ c.data[Other(x)] # <<>>

\* What an event of side x may do to the descriptor of the other side.
Spares(c, d, x) == d.flag /\ c.fd[Other(x)] => d.fd[Other(x)]

-----------------------------------------------------------------------------
\* A freed session is settled.
LEMMA FreedIsSettled ==
    ASSUME NEW c, SlotOK(c)
    PROVE  Settled(FreeSession(c))
BY FreeSessionOK DEF Settled

\* Writing keeps a session midway through its event.
LEMMA WriteSideMidway ==
    ASSUME NEW c, SlotOK(c), c.flag, NEW x \in Side, Midway(c, x)
    PROVE  LET r == WriteSide(c, x) IN
           /\ r.ret < 0 => ~r.slot.flag
           /\ r.slot.flag => Midway(r.slot, x)
           /\ Spares(c, r.slot, x)
<1> DEFINE written == Written(c, x)
<1>1. Other(x) \in Side
  BY OtherSide
<1>2. /\ SlotOK(written) /\ written.flag
      /\ written.fd = c.fd /\ written.status = c.status
      /\ written.event_fd = c.event_fd
  BY WrittenOK
<1>3. ~FreeSession(c).flag /\ ~FreeSession(written).flag
  BY <1>2, FreeSessionOK
<1> HIDE DEF written
<1>4. CASE WriteSide(c, x) = Return(-1, FreeSession(c))
  BY <1>3, <1>4 DEF Return, Spares
<1>5. CASE WriteSide(c, x) = Return(0, FreeSession(written))
  BY <1>3, <1>5 DEF Return, Spares
<1>6. CASE /\ ~(written.data[Other(x)] = <<>> /\ ~c.fd[Other(x)])
           /\ WriteSide(c, x) = Return(0, written)
  BY <1>1, <1>2, <1>6 DEF Return, Spares, Midway, Begun
<1> QED
  BY <1>4, <1>5, <1>6, WriteSideCases DEF written

\* So does finding the end of the stream.
LEMMA EndedMidway ==
    ASSUME NEW c \in SlotType, NEW x \in Side, Midway(c, x)
    PROVE  Midway(Ended(c, x), x) /\ Ended(c, x).fd = c.fd
<1> DEFINE ended == Ended(c, x)
<1>1. Other(x) \in Side /\ Other(x) # x
  BY OtherSide
<1>2. /\ ended.status[Other(x)] = c.status[Other(x)]
      /\ ended.status[x] = "CLOSE"
      /\ ended.fd = c.fd /\ ended.data = c.data /\ ended.event_fd = c.event_fd
  BY <1>1 DEF Ended, SlotType
<1> HIDE DEF ended
<1>3. Begun(ended)
  BY <1>1, <1>2 DEF Midway, Begun, Side, Other, Cli, Svr
<1> QED
  BY <1>2, <1>3 DEF Midway, ended

\* So does reading, whatever it returns.
LEMMA ReadSideMidway ==
    ASSUME NEW c, SlotOK(c), c.flag, NEW x \in Side, Midway(c, x), NEW mem
    PROVE  LET r == ReadSide(c, x, mem) IN
           /\ r.ret < 0 => ~r.slot.flag
           /\ r.slot.flag => Midway(r.slot, x)
           /\ Spares(c, r.slot, x)
<1> DEFINE filled == Filled(c, x)
           ended == Ended(c, x)
<1>1. Other(x) \in Side /\ Other(x) # x /\ c \in SlotType
  BY OtherSide DEF SlotOK
<1>2. /\ filled.fd = c.fd /\ filled.status = c.status
      /\ filled.event_fd = c.event_fd
  BY FilledOK
<1>3. filled.data[Other(x)] = c.data[Other(x)]
  BY <1>1 DEF Filled, SlotType
<1>4. Midway(ended, x) /\ ended.fd = c.fd
  BY <1>1, EndedMidway
<1>5. ReadSide(c, x, mem) \in
        {Return(0, filled), Return(-1, FreeSession(c)), Return(0, ended),
         Return(0, c)}
  BY ReadSideCases
<1>6. ~FreeSession(c).flag
  BY FreeSessionOK
<1> HIDE DEF filled, ended
<1>7. Midway(filled, x)
  BY <1>2, <1>3 DEF Midway, Begun
<1> QED
  BY <1>2, <1>4, <1>5, <1>6, <1>7 DEF Return, Spares

\* So do both halves of the relay.
LEMMA OnDataRelayMidway ==
    ASSUME NEW c, SlotOK(c), c.flag, NEW x \in Side, Midway(c, x), NEW events,
           NEW mem
    PROVE  LET r == OnDataRelay(c, x, events, mem) IN
           /\ r.ret < 0 => ~r.slot.flag
           /\ r.slot.flag => Midway(r.slot, x)
           /\ Spares(c, r.slot, x)
<1> DEFINE w == IF EPOLLOUT \in events THEN WriteSide(c, x) ELSE Return(0, c)
<1>1. /\ SlotOK(w.slot)
      /\ w.ret < 0 => ~w.slot.flag
      /\ w.slot.flag => Midway(w.slot, x)
      /\ Spares(c, w.slot, x)
  BY WriteSideOK, WriteSideMidway DEF Return, Spares
<1>2. \/ OnDataRelay(c, x, events, mem) = w
      \/ w.slot.flag /\ OnDataRelay(c, x, events, mem) = ReadSide(w.slot, x, mem)
  BY DEF OnDataRelay
<1> HIDE DEF w
<1> QED
  BY <1>1, <1>2, ReadSideMidway DEF Spares

-----------------------------------------------------------------------------
(* The end of an event.                                                     *)

\* Closing the event's side settles the session.
LEMMA CloseSideSettles ==
    ASSUME NEW c, SlotOK(c), c.flag, NEW x \in Side, Begun(c),
           c.status[x] = "CLOSE",
           c.status[Other(x)] = "CLOSE" => ~c.fd[Other(x)]
    PROVE  Settled(CloseSide(c, x)) /\ Spares(c, CloseSide(c, x), x)
<1> DEFINE o == Other(x)
           emptied == [c EXCEPT !.data[o] = <<>>]
           shut == IF c.fd[x] THEN CloseFd(emptied, x) ELSE c
           out == [on |-> TRUE, events |-> {EPOLLOUT}, tag |-> Svr]
           kept == [shut EXCEPT !.reg[o] = out]
<1>1. o \in Side /\ o # x /\ Other(o) = x /\ c \in SlotType
  BY OtherSide DEF SlotOK
<1>2. <<>> \in Seq(Byte)
  BY EmptySeq
<1>3. /\ emptied \in SlotType /\ emptied.flag /\ emptied.fd = c.fd
      /\ emptied.status = c.status /\ emptied.data[x] = c.data[x]
      /\ emptied.sock = c.sock /\ emptied.reg = c.reg
  BY <1>1, <1>2 DEF SlotType
<1> HIDE DEF emptied
<1>4. /\ SlotOK(shut) /\ shut.flag
      /\ ~shut.fd[x] /\ (shut.fd[o] <=> c.fd[o])
      /\ shut.status = c.status /\ shut.data[x] = c.data[x]
      /\ shut.reg[o] = c.reg[o]
  <2>1. CASE c.fd[x]
    <3>1. /\ shut \in SlotType
          /\ \A y \in Side :
               /\ shut.fd[y] <=> emptied.fd[y] /\ y # x
               /\ shut.sock[y] = IF y = x THEN NoSocket ELSE emptied.sock[y]
               /\ shut.reg[y] = IF y = x THEN NoRegistration ELSE emptied.reg[y]
          /\ shut.data = emptied.data
          /\ shut.flag /\ shut.status = emptied.status
      BY <1>3, <2>1, CloseFdProperties
    <3> HIDE DEF shut
    <3> QED
      BY <1>1, <1>3, <3>1
         DEF SlotOK, SlotHoldsWhatItOwns, NoSocket, NoRegistration
  <2>2. CASE ~c.fd[x]
    BY <2>2
  <2> QED
    BY <2>1, <2>2
<1>5. c.fd[o] => c.reg[o].on
  BY <1>1 DEF SlotOK, SlotHoldsWhatItOwns
<1>6. CloseSide(c, x) = IF c.fd[o] /\ c.data[x] # <<>>
                        THEN kept ELSE FreeSession(shut)
  <2>1. CloseSide(c, x) = IF shut.fd[o] /\ shut.data[x] # <<>>
                          THEN EpollMod(shut, o, {EPOLLOUT}, Svr)
                          ELSE FreeSession(shut)
    BY DEF CloseSide, emptied
  <2> QED
    BY <1>4, <1>5, <2>1 DEF EpollMod, EpollAdd
<1>7. ~FreeSession(shut).flag
  BY <1>4, FreeSessionOK
<1> HIDE DEF shut
<1>8. ASSUME c.fd[o], c.data[x] # <<>>
      PROVE  Settled(kept) /\ Spares(c, kept, x)
  <2>1. /\ kept.flag /\ kept.fd = shut.fd /\ kept.status = shut.status
        /\ kept.data = shut.data /\ kept.reg[o] = out
    BY <1>1, <1>4 DEF SlotOK, SlotType
  <2>2. c.status[o] # "CLOSE"
    BY <1>8
  <2> HIDE DEF kept
  <2>3. Flushes(kept, x) /\ Flushes(kept, o)
    BY <1>1, <1>4, <1>8, <2>1, <2>2 DEF Flushes
  <2>4. Armed(kept, x) /\ Armed(kept, o)
    BY <1>1, <1>4, <1>8, <2>1 DEF Armed, EPOLLIN, EPOLLOUT
  <2>5. Tagged(kept, x) /\ Tagged(kept, o)
    BY <1>1, <1>4, <2>1 DEF Tagged, Side, Cli, Svr
  <2>6. Begun(kept)
    BY <1>1, <1>4, <1>8, <2>1 DEF Begun, Side, Cli, Svr
  <2>7. \A y \in Side : y = x \/ y = o
    BY <1>1 DEF Side
  <2> QED
    BY <1>4, <2>1, <2>3, <2>4, <2>5, <2>6, <2>7 DEF Settled, Spares
<1> HIDE DEF kept
<1> QED
  BY <1>6, <1>7, <1>8 DEF Settled, Spares

\* What a change of a registration sets and what it leaves.
LEMMA EpollModSets ==
    ASSUME NEW c \in SlotType, NEW x \in Side, c.reg[x].on, NEW events, NEW tag
    PROVE  LET d == EpollMod(c, x, events, tag) IN
           /\ d.flag = c.flag /\ d.fd = c.fd /\ d.status = c.status
           /\ d.data = c.data /\ d.sock = c.sock /\ d.taken = c.taken
           /\ d.req = c.req /\ d.head = c.head
           /\ d.reg[x] = [on |-> TRUE, events |-> events, tag |-> tag]
           /\ \A y \in Side : y # x => d.reg[y] = c.reg[y]
BY DEF EpollMod, EpollAdd, SlotType

\* Arming both sides settles a session whose closed side is only flushed.
LEMMA EpollSessionModSettles ==
    ASSUME NEW c, SlotOK(c), c.flag, Begun(c), \A x \in Side : Flushes(c, x)
    PROVE  /\ Settled(EpollSessionMod(c))
           /\ \A x \in Side : EpollSessionMod(c).fd[x] <=> c.fd[x]
<1> DEFINE m1 == IF c.fd[Cli] THEN EpollMod(c, Cli, Interest(c, Cli), Cli)
                 ELSE c
           m2 == IF c.fd[Svr] THEN EpollMod(m1, Svr, Interest(c, Svr), Svr)
                 ELSE m1
           wait(x) == [on |-> TRUE, events |-> Interest(c, x), tag |-> x]
<1>1. /\ Cli \in Side /\ Svr \in Side /\ Cli # Svr
      /\ \A x \in Side : x = Cli \/ x = Svr
  BY DEF Side, Cli, Svr
<1>2. /\ c \in SlotType
      /\ \A x \in Side : c.fd[x] => c.reg[x].on
  BY DEF SlotOK, SlotHoldsWhatItOwns
<1>3. \A d, x : Interest(d, x) \in SUBSET {EPOLLIN, EPOLLOUT}
  BY DEF Interest
<1>4. /\ SlotOK(m1) /\ m1.flag
      /\ m1.fd = c.fd /\ m1.status = c.status /\ m1.data = c.data
      /\ m1.reg[Svr] = c.reg[Svr]
      /\ c.fd[Cli] => m1.reg[Cli] = wait(Cli)
  BY <1>1, <1>2, <1>3, EpollModOK, EpollModSets
<1> HIDE DEF m1
<1>5. m1 \in SlotType
  BY <1>4 DEF SlotOK
<1>6. /\ m2.flag
      /\ m2.fd = c.fd /\ m2.status = c.status /\ m2.data = c.data
      /\ c.fd[Cli] => m2.reg[Cli] = wait(Cli)
      /\ c.fd[Svr] => m2.reg[Svr] = wait(Svr)
  BY <1>1, <1>2, <1>4, <1>5, EpollModSets
<1>7. EpollSessionMod(c) = m2
  <2>1. m1.data = c.data
    BY <1>4
  <2> QED
    BY <2>1 DEF EpollSessionMod, Interest, m1
<1> HIDE DEF m2
<1>8. \A x \in Side : c.fd[x] =>
        /\ m2.reg[x].tag = x
        /\ m2.reg[x].events = Interest(c, x)
  BY <1>1, <1>6
<1>9. \A x \in Side : Flushes(m2, x) /\ Armed(m2, x) /\ Tagged(m2, x)
  BY <1>6, <1>8 DEF Flushes, Armed, Tagged, Interest, EPOLLIN, EPOLLOUT
<1> QED
  BY <1>6, <1>7, <1>9 DEF Settled, Begun

\* Every event of an open side leaves its session settled.
LEMMA FinishSettles ==
    ASSUME NEW r, SlotOK(r.slot), NEW x \in Side,
           r.ret < 0 => ~r.slot.flag,
           r.slot.flag => Midway(r.slot, x)
    PROVE  Settled(Finish(r, x)) /\ Spares(r.slot, Finish(r, x), x)
<1> DEFINE c == r.slot
<1>1. CASE ~c.flag
  BY <1>1 DEF Finish, OnSessionClose, EpollSessionMod, Settled, Spares
<1>2. CASE c.flag /\ c.status[x] = "CLOSE"
  <2>1. Finish(r, x) = CloseSide(c, x)
    BY <1>2 DEF Finish, OnSessionClose, Midway
  <2> QED
    BY <1>2, <2>1, CloseSideSettles DEF Midway
<1>3. CASE c.flag /\ c.status[x] # "CLOSE"
  <2>1. Finish(r, x) = EpollSessionMod(c)
    BY <1>3 DEF Finish
  <2>2. \A y \in Side : Flushes(c, y)
    BY <1>3, OtherSide DEF Midway, Flushes, Side, Other
  <2> QED
    BY <1>3, <2>1, <2>2, EpollSessionModSettles, OtherSide DEF Midway, Spares
<1> QED
  BY <1>1, <1>2, <1>3

\* Relaying for an open side and what follows it.
LEMMA RelaySettles ==
    ASSUME NEW c, SlotOK(c), c.flag, NEW x \in Side, Midway(c, x), NEW events,
           NEW mem \in BOOLEAN
    PROVE  LET d == Finish(OnDataRelay(c, x, events, mem), x) IN
           Settled(d) /\ Spares(c, d, x)
<1> DEFINE r == OnDataRelay(c, x, events, mem)
<1>1. /\ SlotOK(r.slot) /\ (r.ret < 0 => ~r.slot.flag)
      /\ r.slot.flag => Midway(r.slot, x)
      /\ Spares(c, r.slot, x)
  BY OnDataRelayOK, OnDataRelayMidway
<1> HIDE DEF r
<1>2. Settled(Finish(r, x)) /\ Spares(r.slot, Finish(r, x), x)
  BY <1>1, FinishSettles
<1>3. ~r.slot.flag => ~Finish(r, x).flag
  BY DEF Finish, OnSessionClose, EpollSessionMod
<1> QED
  BY <1>1, <1>2, <1>3 DEF Spares, r

-----------------------------------------------------------------------------
(* Whole events.                                                            *)

\* An event of an open side finds the session midway.
LEMMA SettledMidway ==
    ASSUME NEW c, Settled(c), c.flag, NEW x \in Side, c.fd[x],
           NEW d, d.event_fd = x, d.fd = c.fd, d.data = c.data,
           \A y \in Side : \/ d.status[y] = c.status[y]
                         \/ /\ y = Svr /\ c.status[y] = "INIT"
                            /\ d.status[y] = "DATA_RELAY" /\ c.fd[Svr]
    PROVE  Midway(d, x)
<1>1. Cli \in Side /\ Svr \in Side /\ Other(x) \in Side
  BY OtherSide DEF Side
<1>2. Begun(d)
  BY <1>1 DEF Settled, Begun, Cli, Svr
<1>3. d.status[Other(x)] = "CLOSE" => c.status[Other(x)] = "CLOSE"
  BY <1>1
<1>4. Flushes(c, Other(x))
  BY <1>1 DEF Settled
<1> QED
  BY <1>2, <1>3, <1>4 DEF Midway, Flushes

\* After an event of the far side the session is settled again.
LEMMA SvrEventSettles ==
    ASSUME NEW c, SlotOK(c), c.flag, Settled(c), NEW events,
           NEW mem \in BOOLEAN,
           c.fd[Svr] \/ c.status[Svr] = "CLOSE"
    PROVE  /\ Settled(SvrEvent(c, events, mem))
           /\ Spares(c, SvrEvent(c, events, mem), Svr)
<1> DEFINE a == [c EXCEPT !.event_fd = Svr]
           up == [a EXCEPT !.status[Svr] = IF @ = "INIT" THEN "DATA_RELAY" ELSE @]
           r == OnDataRelay(up, Svr, Effective(events), mem)
<1>1. Svr \in Side /\ Cli \in Side /\ Svr # Cli /\ Other(Svr) = Cli
  BY DEF Side, Other, Cli, Svr
<1>2. c \in SlotType /\ Flushes(c, Svr) /\ Flushes(c, Cli) /\ Begun(c)
  BY <1>1 DEF SlotOK, Settled
<1>3. SlotOK(a) /\ a.flag
  BY <1>1 DEF SlotOK, SlotType, SlotHoldsWhatItOwns
<1>4. SlotOK(up) /\ up.flag
  BY <1>1 DEF SlotOK, SlotType, Status, SlotHoldsWhatItOwns
<1>5. /\ up.event_fd = Svr /\ up.fd = c.fd /\ up.data = c.data
      /\ up.status[Cli] = c.status[Cli]
      /\ up.status[Svr] = IF c.status[Svr] = "INIT" THEN "DATA_RELAY"
                          ELSE c.status[Svr]
  BY <1>1, <1>2 DEF SlotType
<1>6. SvrEvent(c, events, mem) \in
        {FreeSession(a), Finish(Return(0, up), Svr), Finish(r, Svr)}
  BY DEF SvrEvent, OnSessionErr
<1>7. SvrEvent(c, events, mem) \in
        {FreeSession(a), Finish(Return(0, up), Svr)}
      \/ up.status[Svr] = "DATA_RELAY"
  BY DEF SvrEvent, OnSessionErr
<1>8. Settled(FreeSession(a)) /\ ~FreeSession(a).flag
  BY <1>3, FreeSessionOK, FreedIsSettled
<1> HIDE DEF a, up
<1>9. CASE c.fd[Svr]
  <2>1. Midway(up, Svr)
    <3>1. \A y \in Side : y = Cli \/ y = Svr
      BY DEF Side
    <3> QED
      BY <1>1, <1>5, <1>9, <3>1, SettledMidway
  <2>2. Settled(Finish(r, Svr)) /\ Spares(up, Finish(r, Svr), Svr)
    BY <1>1, <1>4, <2>1, RelaySettles
  <2>3. /\ Settled(Finish(Return(0, up), Svr))
        /\ Spares(up, Finish(Return(0, up), Svr), Svr)
    BY <1>1, <1>4, <2>1, FinishSettles DEF Return
  <2> QED
    BY <1>5, <1>6, <1>8, <2>2, <2>3 DEF Spares
<1>10. CASE ~c.fd[Svr]
  <2>1. up.status[Svr] = "CLOSE"
    BY <1>5, <1>10
  <2>2. Finish(Return(0, up), Svr) = CloseSide(up, Svr)
    BY <1>1, <1>4, <1>5, <2>1 DEF Finish, Return, OnSessionClose
  <2>3. Begun(up) /\ (up.status[Cli] = "CLOSE" => ~up.fd[Cli])
    BY <1>2, <1>5, <1>10 DEF Begun, Flushes
  <2>4. Settled(CloseSide(up, Svr)) /\ Spares(up, CloseSide(up, Svr), Svr)
    BY <1>1, <1>4, <2>1, <2>3, CloseSideSettles
  <2> QED
    BY <1>5, <1>7, <1>8, <2>1, <2>2, <2>4 DEF Spares
<1> QED
  BY <1>9, <1>10

\* Building the far connection keeps the session midway.
LEMMA BuildSvrMidway ==
    ASSUME NEW c, SlotOK(c), c.flag, c.event_fd = Cli, c.fd[Cli],
           c.status[Svr] = "INIT", NEW outcome
    PROVE  LET r == BuildSvr(c, outcome) IN
           /\ r.ret < 0 => ~r.slot.flag
           /\ r.slot.flag => Midway(r.slot, Cli)
<1> DEFINE d == Connected(c, outcome)
<1>1. Cli \in Side /\ Svr \in Side /\ Cli # Svr /\ Other(Cli) = Svr
  BY DEF Side, Other, Cli, Svr
<1>2. /\ d.fd = [c.fd EXCEPT ![Svr] = TRUE] /\ d.status[Cli] = "DATA_RELAY"
      /\ d.status[Svr] \in {"DATA_RELAY", "INIT"} /\ d.event_fd = Cli
  BY ConnectedOK
<1>3. d.fd[Cli]
  BY <1>1, <1>2 DEF SlotOK, SlotType
<1> HIDE DEF d
<1>4. Midway(d, Cli)
  BY <1>1, <1>2, <1>3 DEF Midway, Begun
<1> QED
  BY <1>4, BuildSvrOK DEF Return, d

\* A session just accepted is settled.
LEMMA AcceptedSettled ==
    ASSUME NEW c, Fresh(c), c.data = [x \in Side |-> <<>>],
           c.status = [x \in Side |-> "INIT"]
    PROVE  /\ Settled(Accepted(c))
           /\ Settled(FreeSession([c EXCEPT
                !.fd[Cli] = TRUE, !.sock[Cli] = NewSocket("est")]))
<1> DEFINE new == NewSocket("est")
           opened == [c EXCEPT !.fd[Cli] = TRUE, !.sock[Cli] = new]
           known == [on |-> TRUE, events |-> {EPOLLIN}, tag |-> Cli]
           d == Accepted(c)
<1>1. Cli \in Side /\ Svr \in Side /\ Cli # Svr /\ Other(Cli) = Svr
  BY DEF Side, Other, Cli, Svr
<1>2. /\ d.flag /\ d.fd[Cli] /\ ~d.fd[Svr] /\ d.reg[Cli] = known
      /\ d.data = [x \in Side |-> <<>>] /\ d.status = [x \in Side |-> "INIT"]
  BY <1>1 DEF Accepted, EpollAdd, Fresh, SlotType
<1> HIDE DEF d
<1>3. \A x \in Side : Flushes(d, x) /\ Armed(d, x) /\ Tagged(d, x)
  BY <1>1, <1>2 DEF Flushes, Armed, Tagged, EPOLLIN, EPOLLOUT, Side
<1>4. Settled(d)
  BY <1>1, <1>2, <1>3 DEF Settled, Begun
<1>5. opened \in SlotType /\ opened.flag /\ Droppable(opened)
  <2>1. new \in SocketType
    BY NewSocketType
  <2> HIDE DEF new
  <2> QED
    BY <1>1, <2>1 DEF SlotType, Fresh, Droppable
<1>6. ~FreeSession(opened).flag
  BY <1>5, FreeSessionDrops
<1> QED
  BY <1>4, <1>6 DEF Settled, d

-----------------------------------------------------------------------------
(* The loop.                                                                *)

\* An event not yet handled: its descriptor is open, and it carries the tag
\* of its side unless the browser's descriptor is the last one left.
Fits(c, e) ==
    c.flag =>
        /\ c.fd[e.fd]
        /\ e.tag = e.fd \/ (e.fd = Cli /\ e.tag = Svr /\ c.status[Svr] = "CLOSE")

\* Inductive together with Inv.
Discipline ==
    /\ \A s \in Slot : Settled(conn[s])
    /\ \A e \in batch : Fits(conn[e.slot], e)
    /\ \A e, f \in batch : e.slot = f.slot /\ e.fd = f.fd => e = f
    /\ pc = "dispatch" \/ batch = {}

\* The discipline holds at the start,
LEMMA DisciplineInit == Init => Discipline
<1> SUFFICES ASSUME Init PROVE Discipline
  OBVIOUS
<1>1. \A s \in Slot : ~conn[s].flag
  BY DEF Init, EmptySlot
<1> QED
  BY <1>1 DEF Init, Discipline, Settled

\* while nobody is accepted,
LEMMA DisciplineAgent ==
    ASSUME Discipline, AgentStep \/ WaitInterrupted \/ UNCHANGED vars
    PROVE  Discipline'
<1>1. CASE UNCHANGED vars
  BY <1>1 DEF Discipline, vars
<1>2. CASE WaitInterrupted
  BY <1>2 DEF Discipline, WaitInterrupted
<1>3. CASE AgentStep
  <2>1. UNCHANGED <<conn, batch>> /\ pc # "dispatch"
    BY <1>3 DEF AgentStep, AgentInterrupted, AgentNoSession, AgentRefuses
  <2> QED
    BY <2>1 DEF Discipline
<1> QED
  BY <1>1, <1>2, <1>3

\* when somebody is,
LEMMA DisciplineAccepts ==
    ASSUME Inv, Discipline, NEW d \in Elapsed, NEW fresh, Fresh(fresh),
           fresh.data = [x \in Side |-> <<>>],
           fresh.status = [x \in Side |-> "INIT"],
           NEW registered \in BOOLEAN, AgentAccepts(d, fresh, registered)
    PROVE  Discipline'
<1> DEFINE c == IF registered THEN Accepted(fresh)
                ELSE FreeSession([fresh EXCEPT
                       !.fd[Cli] = TRUE, !.sock[Cli] = NewSocket("est")])
<1>1. Settled(c)
  BY AcceptedSettled
<1>2. conn' = [conn EXCEPT ![FirstFree] = c] /\ batch' = batch /\ batch = {}
  BY DEF AgentAccepts, Discipline
<1> HIDE DEF c
<1>3. conn \in [Slot -> SlotType]
  BY DEF Inv, TypeOK
<1> QED
  BY <1>1, <1>2, <1>3 DEF Discipline

\* when a batch is read,
LEMMA DisciplineWait ==
    ASSUME Inv, Discipline, EpollWait
    PROVE  Discipline'
<1>1. conn' = conn /\ batch' = {e \in Ready : e.events # {}}
  BY DEF EpollWait
<1>2. pc' = "dispatch" \/ batch' = {}
  BY DEF EpollWait
<1>3. ASSUME NEW e \in batch'
      PROVE  /\ e.slot \in Slot /\ e.fd \in Side
             /\ e = [slot |-> e.slot, tag |-> conn[e.slot].reg[e.fd].tag,
                     events |-> Reported(conn[e.slot], e.fd), fd |-> e.fd]
             /\ conn[e.slot].reg[e.fd].on
  <2>1. e \in Ready /\ e.events # {}
    BY <1>1
  <2>2. PICK s \in Slot, x \in Side :
          e = [slot |-> s, tag |-> conn[s].reg[x].tag,
               events |-> Reported(conn[s], x), fd |-> x]
    BY <2>1 DEF Ready
  <2>3. e.slot = s /\ e.fd = x /\ e.events = Reported(conn[s], x)
    BY <2>2
  <2>4. conn[s].reg[x].on
    BY <2>1, <2>3 DEF Reported
  <2> QED
    BY <2>2, <2>3, <2>4
<1>4. ASSUME NEW e \in batch'
      PROVE  Fits(conn[e.slot], e)
  <2> DEFINE c == conn[e.slot]
  <2>1. /\ e.slot \in Slot /\ e.fd \in Side
        /\ e.tag = c.reg[e.fd].tag /\ c.reg[e.fd].on
    BY <1>3
  <2>2. SlotOK(c) /\ Settled(c)
    BY <2>1, InvSlots DEF Discipline
  <2> HIDE DEF c
  <2>3. c.fd[e.fd]
    BY <2>1, <2>2 DEF SlotOK, SlotHoldsWhatItOwns
  <2>4. e.tag \in Side
    BY <2>1, <2>2 DEF SlotOK, SlotType, RegistrationType
  <2>5. c.flag => Tagged(c, e.fd)
    BY <2>1, <2>2 DEF Settled
  <2> QED
    BY <2>1, <2>3, <2>4, <2>5 DEF Fits, Tagged, Side, c
<1>5. \A e, f \in batch' : e.slot = f.slot /\ e.fd = f.fd => e = f
  BY <1>3
<1> QED
  BY <1>1, <1>2, <1>4, <1>5 DEF Discipline

\* and when an event of a freed session is passed over.
LEMMA DisciplineSkip ==
    ASSUME Discipline, NEW e, SkipEvent(e)
    PROVE  Discipline'
BY DEF SkipEvent, EventDone, Discipline

\* The side an event is taken for is open, or it is the closed server side.
LEMMA EventSide ==
    ASSUME Inv, Discipline, NEW e \in batch, conn[e.slot].flag
    PROVE  LET c == conn[e.slot] IN
           /\ e.slot \in Slot /\ SlotOK(c) /\ Settled(c)
           /\ e.tag \in Side /\ e.fd \in Side
           /\ c.fd[e.tag] \/ (e.tag = Svr /\ c.status[Svr] = "CLOSE")
<1>1. e.slot \in Slot /\ e.tag \in Side /\ e.fd \in Side
  BY DEF Inv, TypeOK, EventType
<1>2. Fits(conn[e.slot], e)
  BY DEF Discipline
<1> QED
  BY <1>1, <1>2, InvSlots DEF Discipline, Fits

\* Events still to come are about descriptors that this one leaves open.
LEMMA DisciplineHandle ==
    ASSUME Inv, Discipline, NEW e \in batch, conn[e.slot].flag,
           NEW c, Settled(c), Spares(conn[e.slot], c, e.tag), HandleEvent(e, c)
    PROVE  Discipline'
<1> DEFINE old == conn[e.slot]
<1>1. /\ e.slot \in Slot /\ SlotOK(old) /\ Settled(old)
      /\ e.tag \in Side /\ e.fd \in Side
  BY EventSide
<1>2. /\ conn' = [conn EXCEPT ![e.slot] = c] /\ batch' = batch \ {e}
      /\ pc' = "dispatch" \/ batch' = {}
  BY DEF HandleEvent, EventDone
<1>3. conn \in [Slot -> SlotType]
  BY DEF Inv, TypeOK
<1>4. ASSUME NEW f \in batch'
      PROVE  Fits(conn'[f.slot], f)
  <2>1. f \in batch /\ f # e /\ f.slot \in Slot /\ f.fd \in Side
    BY <1>2 DEF Inv, TypeOK, EventType
  <2>2. CASE f.slot # e.slot
    BY <1>2, <1>3, <2>1, <2>2 DEF Discipline
  <2>3. CASE f.slot = e.slot
    <3>1. f.fd # e.fd
      BY <2>1, <2>3 DEF Discipline
    <3>2. Fits(old, e) /\ Fits(old, f)
      BY <2>1, <2>3 DEF Discipline
    <3>3. old.fd[Cli] /\ old.fd[Svr]
      BY <1>1, <2>1, <3>1, <3>2 DEF Fits, Side
    <3>4. old.status[Svr] # "CLOSE"
      BY <1>1, <3>3 DEF Settled, Flushes, Side
    <3>5. e.tag = e.fd /\ f.tag = f.fd
      BY <3>2, <3>4 DEF Fits
    <3>6. f.fd = Other(e.tag)
      BY <1>1, <2>1, <3>1, <3>5 DEF Side, Other
    <3>7. c.flag => c.fd[f.fd]
      BY <2>1, <3>3, <3>6 DEF Spares, Side
    <3>8. conn'[f.slot] = c
      BY <1>1, <1>2, <1>3, <2>3
    <3> QED
      BY <3>5, <3>7, <3>8 DEF Fits
  <2> QED
    BY <2>2, <2>3
<1>5. \A s \in Slot : Settled(conn'[s])
  BY <1>2, <1>3 DEF Discipline
<1>6. \A f, g \in batch' : f.slot = g.slot /\ f.fd = g.fd => f = g
  BY <1>2 DEF Discipline
<1> QED
  BY <1>2, <1>4, <1>5, <1>6 DEF Discipline

\* The discipline holds after an event of the far side,
LEMMA DisciplineSvrEvent ==
    ASSUME Inv, Discipline, NEW e, HandleSvrEvent(e)
    PROVE  Discipline'
<1>1. PICK mem \in MallocOutcomes :
        HandleEvent(e, SvrEvent(conn[e.slot], e.events, mem))
  BY DEF HandleSvrEvent
<1>2. mem \in BOOLEAN
  BY DEF MallocOutcomes
<1>3. e \in batch /\ conn[e.slot].flag /\ e.tag = Svr
  BY DEF HandleSvrEvent
<1>4. /\ SlotOK(conn[e.slot]) /\ Settled(conn[e.slot])
      /\ conn[e.slot].fd[Svr] \/ conn[e.slot].status[Svr] = "CLOSE"
  BY <1>3, EventSide
<1>5. /\ Settled(SvrEvent(conn[e.slot], e.events, mem))
      /\ Spares(conn[e.slot], SvrEvent(conn[e.slot], e.events, mem), Svr)
  BY <1>2, <1>3, <1>4, SvrEventSettles
<1> QED
  BY <1>1, <1>3, <1>5, DisciplineHandle

\* and after the idle timer.
LEMMA DisciplineTimeout ==
    ASSUME Inv, Discipline, TimeoutStep
    PROVE  Discipline'
<1>1. CASE TimeoutNotDue
  BY <1>1 DEF TimeoutNotDue, Discipline
<1>2. ASSUME NEW walked, Walk(walked), pc = "timeout"
      PROVE  Discipline'
  <2>1. \A s \in Slot : Settled(Reaped(walked)[s])
    BY InvSlots, FreedIsSettled DEF Reaped, Discipline
  <2> QED
    BY <1>2, <2>1 DEF Walk, Discipline
<1> QED
  BY <1>1, <1>2 DEF TimeoutStep, TimeoutWalk, TimeoutSweep

\* Peers act on sockets; the program's own state does not change.
LEMMA PeerKeeps ==
    ASSUME Inv, PeerStep
    PROVE  /\ \A s \in Slot :
                /\ conn'[s].flag = conn[s].flag /\ conn'[s].fd = conn[s].fd
                /\ conn'[s].status = conn[s].status
                /\ conn'[s].data = conn[s].data /\ conn'[s].reg = conn[s].reg
                /\ conn'[s].head = conn[s].head /\ conn'[s].req = conn[s].req
                /\ conn'[s].taken = conn[s].taken
                /\ conn'[s].gave = conn[s].gave
                /\ conn'[s].strings = conn[s].strings
           /\ UNCHANGED <<batch, pc>>
<1>1. PICK s \in Slot, x \in Side :
        \/ PeerSends(s, x)
        \/ PeerShutsDown(s, x)
        \/ PeerResets(s, x)
        \/ PeerReceives(s, x)
        \/ HandshakeDone(s, x)
  BY DEF PeerStep
<1>2. conn \in [Slot -> SlotType]
  BY DEF Inv, TypeOK
<1>3. \A c \in SlotType : \A k : LET d == [c EXCEPT !.sock[x] = k] IN
        /\ d.flag = c.flag /\ d.fd = c.fd /\ d.status = c.status
        /\ d.data = c.data /\ d.reg = c.reg /\ d.head = c.head
        /\ d.req = c.req /\ d.taken = c.taken /\ d.gave = c.gave
        /\ d.strings = c.strings
  BY DEF SlotType
<1>4. \E k : conn' = [conn EXCEPT ![s] = [conn[s] EXCEPT !.sock[x] = k]]
  BY <1>1, <1>2 DEF PeerSends, PeerShutsDown, PeerResets, PeerReceives, HandshakeDone
<1>5. UNCHANGED <<batch, pc>>
  BY <1>1 DEF PeerSends, PeerShutsDown, PeerResets, PeerReceives,
              HandshakeDone, Peer
<1> QED
  BY <1>2, <1>3, <1>4, <1>5

\* The discipline holds whatever the peers do.
LEMMA DisciplinePeer ==
    ASSUME Inv, Discipline, PeerStep
    PROVE  Discipline'
<1>1. /\ \A s \in Slot :
           /\ conn'[s].flag = conn[s].flag /\ conn'[s].fd = conn[s].fd
           /\ conn'[s].status = conn[s].status
           /\ conn'[s].data = conn[s].data /\ conn'[s].reg = conn[s].reg
      /\ UNCHANGED <<batch, pc>>
  BY PeerKeeps
<1>2. \A s \in Slot : Settled(conn'[s])
  BY <1>1 DEF Discipline, Settled, Flushes, Armed, Tagged, Begun
<1>3. \A e \in batch : e.slot \in Slot
  BY DEF Inv, TypeOK, EventType
<1>4. \A e \in batch : Fits(conn'[e.slot], e)
  BY <1>1, <1>3 DEF Discipline, Fits
<1> QED
  BY <1>1, <1>2, <1>4 DEF Discipline

\* What the invariant is for.
LEMMA DisciplineImplies ==
    ASSUME Inv, Discipline
    PROVE  ClosedOnlyToFlush /\ ArmedForWhatIsPending /\ BatchNamesOpenFds
<1>1. ClosedOnlyToFlush
  BY DEF Discipline, Settled, Flushes, ClosedOnlyToFlush
<1>2. ArmedForWhatIsPending
  BY InvSlots
     DEF Discipline, Settled, Armed, ArmedForWhatIsPending, SlotOK,
         SlotHoldsWhatItOwns
<1>3. BatchNamesOpenFds
  BY DEF Discipline, Fits, BatchNamesOpenFds
<1> QED
  BY <1>1, <1>2, <1>3

-----------------------------------------------------------------------------
-----------------------------------------------------------------------------
(* The bytes.                                                               *)

\* The cipher works byte by byte.
LEMMA TranslateConcat ==
    ASSUME NEW x \in Side, NEW s \in Seq(Byte), NEW t \in Seq(Byte)
    PROVE  Translate(x, s \o t) = Translate(x, s) \o Translate(x, t)
<1> DEFINE ts == Translate(x, s)
           tt == Translate(x, t)
           both == Translate(x, s \o t)
<1>1. /\ ts \in Seq(Byte) /\ Len(ts) = Len(s)
      /\ tt \in Seq(Byte) /\ Len(tt) = Len(t)
      /\ s \o t \in Seq(Byte) /\ Len(s \o t) = Len(s) + Len(t)
      /\ both \in Seq(Byte) /\ Len(both) = Len(s) + Len(t)
  BY TranslateType, ConcatProperties
<1>2. Len(s) \in Nat /\ Len(t) \in Nat
  BY LenProperties
<1>3. /\ \A i \in 1 .. Len(s) : ts[i] = Xlate[x][s[i]]
      /\ \A i \in 1 .. Len(t) : tt[i] = Xlate[x][t[i]]
      /\ \A i \in 1 .. Len(s) + Len(t) : both[i] = Xlate[x][(s \o t)[i]]
  <2>1. \A u \in Seq(Byte) : \A i \in 1 .. Len(u) :
          Translate(x, u)[i] = Xlate[x][u[i]]
    BY LenProperties DEF Translate
  <2> HIDE DEF both
  <2>2. \A i \in 1 .. Len(s \o t) : both[i] = Xlate[x][(s \o t)[i]]
    BY <1>1, <2>1 DEF both
  <2> QED
    BY <1>1, <2>1, <2>2
<1> HIDE DEF ts, tt, both
<1>4. /\ ts \o tt \in Seq(Byte) /\ Len(ts \o tt) = Len(s) + Len(t)
      /\ \A i \in 1 .. Len(s) + Len(t) :
           (ts \o tt)[i] = IF i <= Len(s) THEN ts[i] ELSE tt[i - Len(s)]
  <2>1. /\ ts \o tt \in Seq(Byte) /\ Len(ts \o tt) = Len(ts) + Len(tt)
        /\ \A i \in 1 .. Len(ts) + Len(tt) :
             (ts \o tt)[i] = IF i <= Len(ts) THEN ts[i] ELSE tt[i - Len(ts)]
    <3>1. ts \in Seq(Byte) /\ tt \in Seq(Byte)
      BY <1>1
    <3> QED
      BY ONLY <3>1, ConcatProperties
  <2> QED
    BY <1>1, <2>1
<1>5. \A i \in 1 .. Len(s) + Len(t) :
        (s \o t)[i] = IF i <= Len(s) THEN s[i] ELSE t[i - Len(s)]
  BY ConcatProperties
<1>6. \A i \in 1 .. Len(s) + Len(t) :
        (i \in 1 .. Len(s)) \/ (~(i <= Len(s)) /\ i - Len(s) \in 1 .. Len(t))
  BY <1>2
<1>7. ASSUME NEW i \in 1 .. Len(s) + Len(t)
      PROVE  both[i] = (ts \o tt)[i]
  <2>1. CASE i \in 1 .. Len(s)
    <3>1. both[i] = Xlate[x][s[i]] /\ (ts \o tt)[i] = ts[i]
      BY <1>2, <1>3, <1>4, <1>5, <2>1
    <3> QED
      BY <1>3, <2>1, <3>1
  <2>2. CASE ~(i <= Len(s)) /\ i - Len(s) \in 1 .. Len(t)
    <3>1. /\ both[i] = Xlate[x][t[i - Len(s)]]
          /\ (ts \o tt)[i] = tt[i - Len(s)]
      BY <1>2, <1>3, <1>4, <1>5, <2>2
    <3> QED
      BY <1>3, <2>2, <3>1
  <2> QED
    BY <1>6, <2>1, <2>2
<1>8. both = ts \o tt
  BY <1>1, <1>4, <1>7, SeqEqual
<1> QED
  BY <1>8 DEF both, ts, tt

\* It makes nothing of nothing.
LEMMA TranslateNothing == \A x : Translate(x, <<>>) = <<>>
BY DEF Translate

\* Pieces of what a peer sends: from after the a-th byte up to the b-th.
LEMMA Pieces ==
    ASSUME NEW p \in Seq(Byte), NEW a \in Nat, NEW b \in Nat, a <= b,
           b <= Len(p)
    PROVE  SubSeq(p, a + 1, b) \in Seq(Byte) /\ Len(SubSeq(p, a + 1, b)) = b - a
<1>1. Len(p) \in Nat
  BY LenProperties
<1>2. \A i \in a + 1 .. b : p[i] \in Byte
  BY <1>1, ElementOfSeq
<1> QED
  BY <1>2, SubSeqProperties

\* Adjoining pieces of a sequence make one piece.
LEMMA PiecesJoin ==
    ASSUME NEW p \in Seq(Byte), NEW a \in Nat, NEW b \in Nat, NEW e \in Nat,
           a <= b, b <= e, e <= Len(p)
    PROVE  SubSeq(p, a + 1, b) \o SubSeq(p, b + 1, e) = SubSeq(p, a + 1, e)
<1>1. Len(p) \in Nat
  BY LenProperties
<1>2. a + 1 \in 1 .. Len(p) + 1 /\ b \in (a + 1) - 1 .. Len(p) /\ e \in b .. Len(p)
  BY <1>1
<1> QED
  BY <1>2, ConcatAdjacentSubSeq

\* Concatenation is associative.
LEMMA Regroup ==
    ASSUME NEW s \in Seq(Byte), NEW t \in Seq(Byte), NEW u \in Seq(Byte)
    PROVE  (s \o t) \o u = s \o (t \o u)
BY ConcatAssociative

\* Head and tail of a sequence make the sequence.
LEMMA PiecesWhole ==
    ASSUME NEW s \in Seq(Byte), NEW n \in Nat, n <= Len(s)
    PROVE  SubSeq(s, 1, n) \o SubSeq(s, n + 1, Len(s)) = s
<1>1. Len(s) \in Nat
  BY LenProperties
<1>2. 1 \in 1 .. Len(s) + 1 /\ n \in 1 - 1 .. Len(s) /\ Len(s) \in n .. Len(s)
  BY <1>1
<1>3. SubSeq(s, 1, n) \o SubSeq(s, n + 1, Len(s)) = SubSeq(s, 1, Len(s))
  BY <1>2, ConcatAdjacentSubSeq
<1> QED
  BY <1>3, SubSeqFull

\* Head and tail of a piece are pieces.
LEMMA PieceOfPiece ==
    ASSUME NEW p \in Seq(Byte), NEW a \in Nat, NEW b \in Nat, a <= b,
           b <= Len(p), NEW n \in Nat, n <= b - a
    PROVE  LET q == SubSeq(p, a + 1, b) IN
           /\ SubSeq(q, 1, n) = SubSeq(p, a + 1, a + n)
           /\ SubSeq(q, n + 1, Len(q)) = SubSeq(p, a + n + 1, b)
<1> DEFINE q == SubSeq(p, a + 1, b)
           front == SubSeq(p, a + 1, a + n)
           rest == SubSeq(p, a + n + 1, b)
           qf == SubSeq(q, 1, n)
           qr == SubSeq(q, n + 1, Len(q))
<1>1. Len(p) \in Nat /\ a + n \in Nat
  BY LenProperties
<1>2. /\ q \in Seq(Byte) /\ Len(q) = b - a
      /\ \A i \in 1 .. b - a : q[i] = p[a + i]
  <2>1. \A i \in a + 1 .. b : p[i] \in Byte
    BY <1>1, ElementOfSeq
  <2>2. /\ q \in Seq(Byte)
        /\ \A i \in 1 .. b - (a + 1) + 1 : q[i] = p[(a + 1) + i - 1]
    BY <2>1, SubSeqProperties
  <2>3. Len(q) = b - a
    BY Pieces
  <2> QED
    BY <2>2, <2>3
<1>3. /\ front \in Seq(Byte) /\ Len(front) = n
      /\ \A i \in 1 .. n : front[i] = p[a + i]
  <2>1. \A i \in a + 1 .. a + n : p[i] \in Byte
    BY <1>1, ElementOfSeq
  <2>2. /\ front \in Seq(Byte)
        /\ \A i \in 1 .. (a + n) - (a + 1) + 1 : front[i] = p[(a + 1) + i - 1]
    BY <1>1, <2>1, SubSeqProperties
  <2>3. Len(front) = n
    BY <1>1, Pieces
  <2> QED
    BY <2>2, <2>3
<1>4. /\ rest \in Seq(Byte) /\ Len(rest) = b - a - n
      /\ \A i \in 1 .. b - a - n : rest[i] = p[a + n + i]
  <2>1. \A i \in a + n + 1 .. b : p[i] \in Byte
    BY <1>1, ElementOfSeq
  <2>2. /\ rest \in Seq(Byte)
        /\ \A i \in 1 .. b - (a + n + 1) + 1 : rest[i] = p[(a + n + 1) + i - 1]
    BY <1>1, <2>1, SubSeqProperties
  <2>3. Len(rest) = b - a - n
    BY <1>1, Pieces
  <2> QED
    BY <2>2, <2>3
<1> HIDE DEF q, front, rest
<1>5. /\ qf \in Seq(Byte) /\ Len(qf) = n
      /\ \A i \in 1 .. n : qf[i] = q[i]
  <2>1. \A i \in 1 .. n : q[i] \in Byte
    BY <1>2, ElementOfSeq
  <2>2. /\ qf \in Seq(Byte) /\ Len(qf) = IF 1 <= n THEN n - 1 + 1 ELSE 0
        /\ \A i \in 1 .. n - 1 + 1 : qf[i] = q[1 + i - 1]
    BY <2>1, SubSeqProperties
  <2> QED
    BY <2>2
<1>6. /\ qr \in Seq(Byte) /\ Len(qr) = b - a - n
      /\ \A i \in 1 .. b - a - n : qr[i] = q[n + i]
  <2>1. \A i \in n + 1 .. Len(q) : q[i] \in Byte
    BY <1>2, ElementOfSeq
  <2>2. /\ qr \in Seq(Byte)
        /\ Len(qr) = IF n + 1 <= Len(q) THEN Len(q) - (n + 1) + 1 ELSE 0
        /\ \A i \in 1 .. Len(q) - (n + 1) + 1 : qr[i] = q[(n + 1) + i - 1]
    BY <1>2, <2>1, SubSeqProperties
  <2> QED
    BY <1>2, <2>2
<1> HIDE DEF qf, qr
<1>7. qf = front
  BY <1>2, <1>3, <1>5, SeqEqual
<1>8. qr = rest
  <2>1. \A i \in 1 .. b - a - n : n + i \in 1 .. b - a /\ a + (n + i) = a + n + i
    OBVIOUS
  <2>2. \A i \in 1 .. b - a - n : qr[i] = rest[i]
    BY <1>2, <1>4, <1>6, <2>1
  <2> QED
    BY <1>4, <1>6, <2>2, SeqEqual
<1> QED
  BY <1>7, <1>8 DEF q, front, rest, qf, qr

\* What has been read of side x is counted, and what is still in its open
\* socket is the next that the peer has sent.
Counted(c, x) ==
    /\ c.taken[x] <= Len(PeerBytes(c, x))
    /\ c.fd[x] =>
         /\ c.taken[x] <= c.sock[x].sent
         /\ c.sock[x].sent <= Len(PeerBytes(c, x))
         /\ c.sock[x].rx = SubSeq(PeerBytes(c, x), c.taken[x] + 1, c.sock[x].sent)

\* What side x has been read and what has been done with it: all that was
\* given to the other side and all that waits for it.
Through(c, x) == c.sock[Other(x)].out \o c.data[x]

\* From slot c to slot d nothing but what has been read meanwhile is added to
\* what goes through, and it is added at the end; what was given to a side
\* that is still open stays given; a closed side is not read.
FlowsSide(c, d, x) ==
    /\ Counted(d, x)
    /\ d.fd[x] => c.fd[x] /\ StartOf(c.sock[x].out, d.sock[x].out)
    /\ c.taken[x] <= d.taken[x]
    /\ ~c.fd[x] => d.taken[x] = c.taken[x]
    /\ d.fd[Other(x)] =>
         Through(d, x) = Through(c, x)
             \o Translate(x, SubSeq(PeerBytes(c, x), c.taken[x] + 1, d.taken[x]))

Flows(c, d) ==
    d.flag =>
        /\ d.req = c.req /\ d.head = c.head
        /\ d.status[Cli] = c.status[Cli] \/ d.status[Cli] = "CLOSE"
        /\ \A x \in Side : FlowsSide(c, d, x)

\* The types of what goes through a side.
LEMMA ThroughType ==
    ASSUME NEW c \in SlotType, NEW x \in Side
    PROVE  /\ Through(c, x) \in Seq(Byte)
           /\ PeerBytes(c, x) \in Seq(Byte)
           /\ c.data[x] \in Seq(Byte) /\ c.sock[x].out \in Seq(Byte)
           /\ c.sock[x].rx \in Seq(Byte)
           /\ c.taken[x] \in Nat /\ c.sock[x].sent \in Nat
<1>1. Other(x) \in Side
  BY OtherSide
<1>2. /\ c.data[x] \in Seq(Byte) /\ c.taken[x] \in Nat
      /\ c.sock[x] \in SocketType /\ c.sock[Other(x)] \in SocketType
  BY <1>1 DEF SlotType
<1>3. /\ c.sock[x].out \in Seq(Byte) /\ c.sock[Other(x)].out \in Seq(Byte)
      /\ c.sock[x].rx \in Seq(Byte) /\ c.sock[x].sent \in Nat
  BY <1>2 DEF SocketType
<1> QED
  BY <1>2, <1>3, PeerBytesType, ConcatProperties DEF Through

\* A sequence begins with itself,
LEMMA PrefixSelf ==
    ASSUME NEW s \in Seq(Byte)
    PROVE  StartOf(s, s)
<1>1. Len(s) \in 0 .. Len(s) /\ s = SubSeq(s, 1, Len(s))
  BY LenProperties
<1> QED
  BY <1>1, Zenon DEF StartOf

\* and what is added at the end keeps the beginning,
LEMMA PrefixConcat ==
    ASSUME NEW s \in Seq(Byte), NEW t \in Seq(Byte)
    PROVE  StartOf(s, s \o t)
<1>1. Len(s) \in Nat /\ Len(t) \in Nat /\ SubSeq(s, 1, Len(s)) = s
  BY LenProperties
<1>2. s \o t \in Seq(Byte) /\ Len(s \o t) = Len(s) + Len(t)
  BY ConcatProperties
<1>3. Len(s) \in 0 .. Len(s \o t)
  BY <1>1, <1>2
<1>4. s = SubSeq(s \o t, 1, Len(s))
  <2>1. CASE Len(s) = 0
    BY <1>1, <1>2, <2>1, SubSeqEmpty
  <2>2. CASE Len(s) # 0
    <3>1. 1 \in 1 .. Len(s) /\ Len(s) \in 1 .. Len(s)
      BY <1>1, <2>2
    <3> QED
      BY <1>1, <3>1, SubSeqOfConcat1
  <2> QED
    BY <2>1, <2>2
<1> QED
  BY <1>3, <1>4, Zenon DEF StartOf

\* and beginnings of beginnings are beginnings.
LEMMA PrefixTransitive ==
    ASSUME NEW s \in Seq(Byte), NEW t \in Seq(Byte), NEW u \in Seq(Byte),
           StartOf(s, t), StartOf(t, u)
    PROVE  StartOf(s, u)
<1>1. Len(t) \in Nat /\ Len(u) \in Nat
  BY LenProperties
<1>2. PICK n \in 0 .. Len(t) : s = SubSeq(t, 1, n)
  BY DEF StartOf
<1>3. PICK m \in 0 .. Len(u) : t = SubSeq(u, 1, m)
  BY DEF StartOf
<1>4. n \in 0 .. m /\ n \in 0 .. Len(u)
  <2>1. Len(t) = m
    BY <1>1, <1>3
  <2> QED
    BY <1>1, <1>2, <1>3, <2>1
<1>5. SubSeq(SubSeq(u, 1, m), 1, n) = SubSeq(u, 1, n)
  BY <1>1, <1>3, <1>4
<1> QED
  BY <1>2, <1>3, <1>4, <1>5 DEF StartOf

\* A step that leaves the bytes alone.
LEMMA SameFlow ==
    ASSUME NEW c \in SlotType, NEW d \in SlotType,
           \A x \in Side : Counted(c, x),
           d.req = c.req, d.head = c.head, d.taken = c.taken,
           d.status[Cli] = c.status[Cli] \/ d.status[Cli] = "CLOSE",
           \A x \in Side : d.fd[x] => c.fd[x] /\ d.sock[x] = c.sock[x],
           \A x \in Side : d.fd[Other(x)] => d.data[x] = c.data[x]
    PROVE  Flows(c, d)
<1> SUFFICES ASSUME NEW x \in Side
             PROVE  FlowsSide(c, d, x)
  BY DEF Flows
<1> DEFINE o == Other(x)
           none == SubSeq(PeerBytes(c, x), c.taken[x] + 1, c.taken[x])
<1>1. o \in Side
  BY OtherSide
<1>2. PeerBytes(d, x) = PeerBytes(c, x)
  BY DEF PeerBytes
<1>3. /\ Through(c, x) \in Seq(Byte) /\ c.taken[x] \in Nat
      /\ c.sock[x].out \in Seq(Byte)
  BY ThroughType
<1>4. Counted(d, x)
  BY <1>2 DEF Counted
<1>5. Translate(x, none) = <<>>
  <2>1. /\ c.taken[x] + 1 \in Int /\ c.taken[x] \in Int
        /\ c.taken[x] < c.taken[x] + 1
    BY <1>3
  <2>2. none = <<>>
    BY <2>1, SubSeqEmpty
  <2> QED
    BY <2>2, TranslateNothing
<1>6. d.fd[o] => Through(d, x) = Through(c, x)
  BY <1>1 DEF Through
<1>7. Through(c, x) \o <<>> = Through(c, x)
  BY <1>3, ConcatEmptySeq
<1> QED
  BY <1>3, <1>4, <1>5, <1>6, <1>7, PrefixSelf DEF FlowsSide

\* What flows twice flows.
LEMMA FlowsTransitive ==
    ASSUME NEW c \in SlotType, NEW d \in SlotType, NEW e \in SlotType,
           d.flag, Flows(c, d), Flows(d, e)
    PROVE  Flows(c, e)
<1> SUFFICES ASSUME e.flag
             PROVE  Flows(c, e)
  BY DEF Flows
<1>1. /\ e.req = c.req /\ e.head = c.head /\ d.req = c.req
      /\ e.status[Cli] = c.status[Cli] \/ e.status[Cli] = "CLOSE"
  BY DEF Flows
<1>2. ASSUME NEW x \in Side
      PROVE  FlowsSide(c, e, x)
  <2> DEFINE o == Other(x)
             p == PeerBytes(c, x)
             s1 == SubSeq(p, c.taken[x] + 1, d.taken[x])
             s2 == SubSeq(p, d.taken[x] + 1, e.taken[x])
             s3 == SubSeq(p, c.taken[x] + 1, e.taken[x])
  <2>1. FlowsSide(c, d, x) /\ FlowsSide(d, e, x) /\ o \in Side /\ FlowsSide(d, e, o)
    BY OtherSide DEF Flows
  <2>2. PeerBytes(d, x) = p /\ PeerBytes(e, x) = p
    BY <1>1 DEF PeerBytes
  <2>3. /\ Through(c, x) \in Seq(Byte) /\ p \in Seq(Byte)
        /\ c.taken[x] \in Nat /\ d.taken[x] \in Nat /\ e.taken[x] \in Nat
        /\ c.sock[x].out \in Seq(Byte) /\ d.sock[x].out \in Seq(Byte)
        /\ e.sock[x].out \in Seq(Byte)
    BY ThroughType
  <2>4. /\ c.taken[x] <= d.taken[x] /\ d.taken[x] <= e.taken[x]
        /\ e.taken[x] <= Len(p)
    BY <2>1, <2>2 DEF FlowsSide, Counted
  <2>5. Len(p) \in Nat
    BY <2>3, LenProperties
  <2> HIDE DEF p
  <2>6. s1 \in Seq(Byte) /\ s2 \in Seq(Byte) /\ s1 \o s2 = s3
    <3>1. d.taken[x] <= Len(p)
      BY <2>3, <2>4, <2>5
    <3>2. s1 \in Seq(Byte)
      BY <2>3, <2>4, <3>1, Pieces
    <3>3. s2 \in Seq(Byte)
      BY <2>3, <2>4, Pieces
    <3>4. s1 \o s2 = s3
      <4> DEFINE i == c.taken[x]
                 j == d.taken[x]
                 k == e.taken[x]
      <4>1. /\ p \in Seq(Byte) /\ i \in Nat /\ j \in Nat /\ k \in Nat
            /\ i <= j /\ j <= k /\ k <= Len(p)
        BY <2>3, <2>4
      <4> HIDE DEF i, j, k
      <4>2. SubSeq(p, i + 1, j) \o SubSeq(p, j + 1, k) = SubSeq(p, i + 1, k)
        BY ONLY <4>1, PiecesJoin
      <4> QED
        BY <4>2 DEF i, j, k
    <3> QED
      BY <3>2, <3>3, <3>4
  <2> HIDE DEF s1, s2, s3
  <2>7. /\ Translate(x, s1) \in Seq(Byte) /\ Translate(x, s2) \in Seq(Byte)
        /\ Translate(x, s3) = Translate(x, s1) \o Translate(x, s2)
    BY <2>6, TranslateType, TranslateConcat
  <2>8. ASSUME e.fd[o]
        PROVE  Through(e, x) = Through(c, x) \o Translate(x, s3)
    <3>1. Through(e, x) = Through(d, x) \o Translate(x, s2)
      BY <2>1, <2>2, <2>8 DEF FlowsSide, s2
    <3>2. d.fd[o]
      BY <2>1, <2>8 DEF FlowsSide
    <3>3. Through(d, x) = Through(c, x) \o Translate(x, s1)
      BY <2>1, <3>2 DEF FlowsSide, s1, p
    <3>4. (Through(c, x) \o Translate(x, s1)) \o Translate(x, s2)
            = Through(c, x) \o (Translate(x, s1) \o Translate(x, s2))
      <4>1. /\ Through(c, x) \in Seq(Byte)
            /\ Translate(x, s1) \in Seq(Byte) /\ Translate(x, s2) \in Seq(Byte)
        BY <2>3, <2>7
      <4> QED
        BY ONLY <4>1, ConcatAssociative
    <3> QED
      BY <2>7, <3>1, <3>3, <3>4
  <2>9. e.fd[x] => c.fd[x] /\ StartOf(c.sock[x].out, e.sock[x].out)
    BY <2>1, <2>3, PrefixTransitive DEF FlowsSide
  <2>10. ~c.fd[x] => e.taken[x] = c.taken[x]
    BY <2>1 DEF FlowsSide
  <2>11. Counted(e, x) /\ c.taken[x] <= e.taken[x]
    BY <2>1, <2>3, <2>4 DEF FlowsSide
  <2> QED
    BY <2>8, <2>9, <2>10, <2>11 DEF FlowsSide, s3, p
<1> QED
  BY <1>1, <1>2 DEF Flows

\* A write moves bytes from the queue to the socket.
LEMMA WrittenFlows ==
    ASSUME NEW c, SlotOK(c), c.flag, NEW x \in Side, c.fd[x],
           \A y \in Side : Counted(c, y)
    PROVE  Flows(c, Written(c, x))
<1> DEFINE o == Other(x)
           n == Writes(c, x)
           d == Written(c, x)
           front == SubSeq(c.data[o], 1, n)
           rest == SubSeq(c.data[o], n + 1, Len(c.data[o]))
<1>1. /\ o \in Side /\ o # x /\ Other(o) = x /\ c \in SlotType
      /\ \A y \in Side : y = x \/ y = o
  BY OtherSide DEF SlotOK, Side, Other
<1>2. /\ c.data[o] \in Seq(Byte) /\ c.sock[x] \in SocketType
      /\ n \in Nat /\ n <= Len(c.data[o])
  BY <1>1, WritesBounds
<1>3. c.sock[x].out \in Seq(Byte)
  BY <1>2 DEF SocketType
<1>5. front \in Seq(Byte) /\ rest \in Seq(Byte)
  BY <1>2, Piece
<1>6. front \o rest = c.data[o]
  BY <1>2, PiecesWhole
<1> HIDE DEF n
<1>7. d = [c EXCEPT !.data[o] = rest, !.sock[x].out = @ \o front,
                    !.gave[x] = @ \o front, !.sock[x].room = @ - n]
  BY DEF Written, n
<1> HIDE DEF front, rest, d
<1>8. /\ d.req = c.req /\ d.head = c.head /\ d.taken = c.taken
      /\ d.status = c.status /\ d.fd = c.fd
      /\ d.sock[o] = c.sock[o] /\ d.data[x] = c.data[x] /\ d.data[o] = rest
  BY <1>1, <1>7 DEF SlotType
<1>9. /\ d.sock[x].out = c.sock[x].out \o front
      /\ d.sock[x].rx = c.sock[x].rx /\ d.sock[x].sent = c.sock[x].sent
  BY <1>1, <1>2, <1>7 DEF SlotType, SocketType
<1>10. ASSUME NEW y \in Side
       PROVE  FlowsSide(c, d, y)
  <2> DEFINE none == SubSeq(PeerBytes(c, y), c.taken[y] + 1, d.taken[y])
  <2>1. /\ Through(c, y) \in Seq(Byte) /\ c.taken[y] \in Nat
        /\ c.sock[y].out \in Seq(Byte)
    BY <1>1, ThroughType
  <2>2. Counted(d, y)
    BY <1>1, <1>8, <1>9, SMTT(30) DEF Counted, PeerBytes
  <2>3. StartOf(c.sock[y].out, d.sock[y].out)
    BY <1>1, <1>3, <1>5, <1>8, <1>9, <2>1, PrefixSelf, PrefixConcat, ZenonT(30)
  <2>4. Through(d, y) = Through(c, y)
    <3>1. CASE y = x
      BY <1>1, <1>8, <3>1 DEF Through
    <3>2. CASE y = o
      <4>1. (c.sock[x].out \o front) \o rest = c.sock[x].out \o (front \o rest)
        BY <1>3, <1>5, Regroup
      <4> QED
        BY <1>1, <1>6, <1>8, <1>9, <3>2, <4>1 DEF Through
    <3> QED
      BY <1>1, <3>1, <3>2
  <2>5. Translate(y, none) = <<>>
    <3>1. /\ c.taken[y] + 1 \in Int /\ d.taken[y] \in Int
          /\ d.taken[y] < c.taken[y] + 1
      BY <1>8, <2>1
    <3>2. none = <<>>
      BY <3>1, SubSeqEmpty
    <3> QED
      BY <3>2, TranslateNothing
  <2>6. Through(c, y) \o <<>> = Through(c, y)
    BY <2>1, ConcatEmptySeq
  <2> QED
    BY <1>8, <2>1, <2>2, <2>3, <2>4, <2>5, <2>6 DEF FlowsSide
<1> QED
  BY <1>8, <1>10 DEF Flows, d

\* A read adds the bytes taken to the queue, translated.
LEMMA FilledFlows ==
    ASSUME NEW c, SlotOK(c), c.flag, NEW x \in Side, c.fd[x],
           \A y \in Side : Counted(c, y)
    PROVE  Flows(c, Filled(c, x))
<1> DEFINE o == Other(x)
           rx == c.sock[x].rx
           n == Reads(c, x)
           p == PeerBytes(c, x)
           got == SubSeq(rx, 1, n)
           rest == SubSeq(rx, n + 1, Len(rx))
           d == Filled(c, x)
<1>1. /\ o \in Side /\ o # x /\ Other(o) = x /\ c \in SlotType
      /\ \A y \in Side : y = x \/ y = o
  BY OtherSide DEF SlotOK, Side, Other
<1>2. /\ c.data[x] \in Seq(Byte) /\ c.sock[x] \in SocketType
      /\ rx \in Seq(Byte) /\ c.taken[x] \in Nat
      /\ n \in Nat /\ n <= Len(rx)
  BY <1>1, ReadsBounds
<1>3. p \in Seq(Byte) /\ c.sock[x].sent \in Nat /\ c.sock[o].out \in Seq(Byte)
  BY <1>1, ThroughType
<1>4. /\ c.taken[x] <= c.sock[x].sent /\ c.sock[x].sent <= Len(p)
      /\ rx = SubSeq(p, c.taken[x] + 1, c.sock[x].sent)
  BY DEF Counted
<1>5. Len(p) \in Nat
  BY <1>3, LenProperties
<1> HIDE DEF p
<1>6. Len(rx) = c.sock[x].sent - c.taken[x]
  BY <1>2, <1>3, <1>4, Pieces, SMTT(30)
<1>7. n <= c.sock[x].sent - c.taken[x]
  BY <1>2, <1>6
<1>8. /\ got = SubSeq(p, c.taken[x] + 1, c.taken[x] + n)
      /\ rest = SubSeq(p, c.taken[x] + n + 1, c.sock[x].sent)
  <2> DEFINE a == c.taken[x]
             b == c.sock[x].sent
             q == SubSeq(p, a + 1, b)
  <2>1. /\ SubSeq(q, 1, n) = SubSeq(p, a + 1, a + n)
        /\ SubSeq(q, n + 1, Len(q)) = SubSeq(p, a + n + 1, b)
    <3>1. /\ a \in Nat /\ b \in Nat /\ n \in Nat /\ p \in Seq(Byte)
          /\ a <= b /\ b <= Len(p) /\ n <= b - a
      BY <1>2, <1>3, <1>4, <1>7
    <3> HIDE DEF a, b, n
    <3> QED
      BY <3>1, PieceOfPiece
  <2> QED
    BY <1>4, <2>1
<1>9. got \in Seq(Byte) /\ Translate(x, got) \in Seq(Byte)
  BY <1>2, Piece, TranslateType
<1>10. d = [c EXCEPT !.data[x] = @ \o Translate(x, got),
                     !.taken[x] = @ + n,
                     !.sock[x].rx = rest]
  BY DEF Filled
<1> HIDE DEF n, got, rest, d
<1>11. /\ d.req = c.req /\ d.head = c.head
       /\ d.status = c.status /\ d.fd = c.fd
       /\ d.taken[x] = c.taken[x] + n /\ d.taken[o] = c.taken[o]
       /\ d.sock[o] = c.sock[o] /\ d.data[o] = c.data[o]
       /\ d.data[x] = c.data[x] \o Translate(x, got)
  BY <1>1, <1>10 DEF SlotType
<1>12. /\ d.sock[x].out = c.sock[x].out
       /\ d.sock[x].rx = rest /\ d.sock[x].sent = c.sock[x].sent
  BY <1>1, <1>2, <1>10 DEF SlotType, SocketType
<1>13. PeerBytes(d, x) = p /\ PeerBytes(d, o) = PeerBytes(c, o)
  BY <1>11 DEF PeerBytes, p
<1>14. FlowsSide(c, d, x)
  <2>1. Counted(d, x)
    <3>1. /\ c.taken[x] + n <= c.sock[x].sent /\ c.taken[x] + n <= Len(p)
      BY <1>2, <1>3, <1>4, <1>5, <1>7, SMTT(30)
    <3> QED
      BY <1>4, <1>8, <1>11, <1>12, <1>13, <3>1 DEF Counted
  <2>2. StartOf(c.sock[x].out, d.sock[x].out)
    BY <1>1, <1>12, ThroughType, PrefixSelf
  <2>3. Through(d, x) = Through(c, x) \o Translate(x, got)
    <3>1. c.sock[o].out \o (c.data[x] \o Translate(x, got))
            = (c.sock[o].out \o c.data[x]) \o Translate(x, got)
      <4>1. /\ c.sock[o].out \in Seq(Byte) /\ c.data[x] \in Seq(Byte)
            /\ Translate(x, got) \in Seq(Byte)
        BY <1>2, <1>3, <1>9
      <4> QED
        BY <4>1, Regroup
    <3> QED
      BY <1>11, <3>1 DEF Through
  <2>4. c.taken[x] <= d.taken[x]
    BY <1>2, <1>11
  <2>5. got = SubSeq(PeerBytes(c, x), c.taken[x] + 1, d.taken[x])
    BY <1>8, <1>11 DEF p
  <2> QED
    BY <1>11, <2>1, <2>2, <2>3, <2>4, <2>5 DEF FlowsSide
<1>15. FlowsSide(c, d, o)
  <2> DEFINE none == SubSeq(PeerBytes(c, o), c.taken[o] + 1, d.taken[o])
  <2>1. /\ Through(c, o) \in Seq(Byte) /\ c.taken[o] \in Nat
        /\ c.sock[o].out \in Seq(Byte)
    BY <1>1, ThroughType
  <2>2. Counted(d, o)
    BY <1>1, <1>11, <1>13 DEF Counted
  <2>3. Through(d, o) = Through(c, o)
    BY <1>1, <1>11, <1>12 DEF Through
  <2>4. Translate(o, none) = <<>>
    <3>1. /\ c.taken[o] + 1 \in Int /\ d.taken[o] \in Int
          /\ d.taken[o] < c.taken[o] + 1
      BY <1>11, <2>1
    <3>2. none = <<>>
      BY <3>1, SubSeqEmpty
    <3> QED
      BY <3>2, TranslateNothing
  <2>5. Through(c, o) \o <<>> = Through(c, o)
    BY <2>1, ConcatEmptySeq
  <2>6. StartOf(c.sock[o].out, d.sock[o].out)
    BY <1>11, <2>1, PrefixSelf
  <2> QED
    BY <1>11, <2>1, <2>2, <2>3, <2>4, <2>5, <2>6 DEF FlowsSide
<1> QED
  BY <1>1, <1>11, <1>14, <1>15 DEF Flows, d

\* Re-registering changes nothing but the registration it is about.
LEMMA EpollModKeeps ==
    ASSUME NEW c \in SlotType, NEW x \in Side, c.reg[x].on, NEW events, NEW tag
    PROVE  /\ EpollMod(c, x, events, tag).req = c.req
           /\ EpollMod(c, x, events, tag).head = c.head
           /\ EpollMod(c, x, events, tag).taken = c.taken
           /\ EpollMod(c, x, events, tag).status = c.status
           /\ EpollMod(c, x, events, tag).fd = c.fd
           /\ EpollMod(c, x, events, tag).sock = c.sock
           /\ EpollMod(c, x, events, tag).data = c.data
           /\ EpollMod(c, x, events, tag).gave = c.gave
           /\ \A y \in Side :
                  y # x => EpollMod(c, x, events, tag).reg[y] = c.reg[y]
BY DEF EpollMod, EpollAdd, SlotType

\* Bytes flow through the write, whatever becomes of it,
LEMMA WriteSideFlows ==
    ASSUME NEW c, SlotOK(c), c.flag, NEW x \in Side, c.fd[x],
           \A y \in Side : Counted(c, y)
    PROVE  LET d == WriteSide(c, x).slot IN
           Flows(c, d) /\ (d.flag => d.fd = c.fd)
<1> DEFINE written == Written(c, x)
<1>1. SlotOK(written) /\ written.flag /\ written.fd = c.fd
  BY WrittenOK
<1>2. Flows(c, written)
  BY WrittenFlows
<1>3. ~FreeSession(c).flag /\ ~FreeSession(written).flag
  BY <1>1, FreeSessionOK
<1>4. WriteSide(c, x).slot \in {FreeSession(c), FreeSession(written), written}
  BY WriteSideCases DEF Return
<1> HIDE DEF written
<1> QED
  BY <1>1, <1>2, <1>3, <1>4 DEF Flows

\* through the read,
LEMMA ReadSideFlows ==
    ASSUME NEW c, SlotOK(c), c.flag, NEW x \in Side, c.fd[x],
           \A y \in Side : Counted(c, y), NEW mem
    PROVE  Flows(c, ReadSide(c, x, mem).slot)
<1> DEFINE filled == Filled(c, x)
           ended == Ended(c, x)
<1>1. c \in SlotType
  BY DEF SlotOK
<1>2. Flows(c, filled)
  BY FilledFlows
<1>3. Flows(c, c)
  BY <1>1, SameFlow
<1>4. ended \in SlotType
  BY EndedOK DEF SlotOK
<1>5. /\ ended.req = c.req /\ ended.head = c.head /\ ended.taken = c.taken
      /\ ended.status[Cli] \in {c.status[Cli], "CLOSE"}
      /\ ended.fd = c.fd /\ ended.sock = c.sock /\ ended.data = c.data
  BY <1>1 DEF Ended, SlotType
<1> HIDE DEF filled, ended
<1>6. Flows(c, ended)
  BY <1>1, <1>4, <1>5, SameFlow
<1>7. ~FreeSession(c).flag
  BY FreeSessionOK
<1>8. ReadSide(c, x, mem).slot \in {filled, FreeSession(c), ended, c}
  BY ReadSideCases DEF Return, filled, ended
<1> QED
  BY <1>2, <1>3, <1>6, <1>7, <1>8 DEF Flows

\* through both in turn,
LEMMA OnDataRelayFlows ==
    ASSUME NEW c, SlotOK(c), c.flag, NEW x \in Side, c.fd[x],
           \A y \in Side : Counted(c, y), NEW events, NEW mem \in BOOLEAN
    PROVE  Flows(c, OnDataRelay(c, x, events, mem).slot)
<1> DEFINE w == IF EPOLLOUT \in events THEN WriteSide(c, x) ELSE Return(0, c)
           d == ReadSide(w.slot, x, mem).slot
<1>1. c \in SlotType
  BY DEF SlotOK
<1>2. /\ SlotOK(w.slot) /\ Flows(c, w.slot)
      /\ w.slot.flag => w.slot.fd = c.fd
  BY <1>1, WriteSideOK, WriteSideFlows, SameFlow DEF Return
<1>3. \/ OnDataRelay(c, x, events, mem) = w
      \/ w.slot.flag /\ OnDataRelay(c, x, events, mem) = ReadSide(w.slot, x, mem)
  BY DEF OnDataRelay
<1> HIDE DEF w
<1>4. ASSUME w.slot.flag
      PROVE  Flows(c, d)
  <2>1. w.slot \in SlotType /\ w.slot.fd[x] /\ \A y \in Side : Counted(w.slot, y)
    BY <1>2, <1>4 DEF SlotOK, Flows, FlowsSide
  <2>2. Flows(w.slot, d) /\ d \in SlotType
    BY <1>2, <1>4, <2>1, ReadSideFlows, ReadSideOK DEF SlotOK
  <2> HIDE DEF d
  <2> QED
    BY <1>1, <1>2, <1>4, <2>1, <2>2, FlowsTransitive
<1> QED
  BY <1>2, <1>3, <1>4

\* through the closing of a side, which drops no byte that can still be
\* given,
LEMMA CloseSideFlows ==
    ASSUME NEW c, SlotOK(c), c.flag, NEW x \in Side,
           \A y \in Side : Counted(c, y)
    PROVE  Flows(c, CloseSide(c, x))
<1> DEFINE o == Other(x)
           emptied == [c EXCEPT !.data[o] = <<>>]
           shut == IF c.fd[x] THEN CloseFd(emptied, x) ELSE c
           kept == EpollMod(shut, o, {EPOLLOUT}, Svr)
<1>1. /\ o \in Side /\ o # x /\ Other(o) = x /\ c \in SlotType /\ Svr \in Side
      /\ \A y \in Side : y = x \/ y = o
  BY OtherSide DEF SlotOK, Side, Other
<1>2. <<>> \in Seq(Byte)
  BY EmptySeq
<1>3. /\ emptied \in SlotType /\ emptied.flag /\ emptied.fd = c.fd
      /\ emptied.status = c.status /\ emptied.data[x] = c.data[x]
      /\ emptied.sock = c.sock /\ emptied.reg = c.reg
      /\ emptied.taken = c.taken /\ emptied.req = c.req /\ emptied.head = c.head
  BY <1>1, <1>2 DEF SlotType
<1> HIDE DEF emptied
<1>4. /\ shut \in SlotType /\ shut.flag
      /\ ~shut.fd[x] /\ (shut.fd[o] <=> c.fd[o])
      /\ shut.status = c.status /\ shut.data[x] = c.data[x]
      /\ shut.sock[o] = c.sock[o] /\ shut.reg[o] = c.reg[o]
      /\ shut.taken = c.taken /\ shut.req = c.req /\ shut.head = c.head
  <2>1. CASE c.fd[x]
    <3>1. /\ shut \in SlotType
          /\ \A y \in Side :
               /\ shut.fd[y] <=> emptied.fd[y] /\ y # x
               /\ shut.sock[y] = IF y = x THEN NoSocket ELSE emptied.sock[y]
               /\ shut.reg[y] = IF y = x THEN NoRegistration ELSE emptied.reg[y]
          /\ shut.data = emptied.data
          /\ shut.flag /\ shut.status = emptied.status
          /\ shut.taken = emptied.taken /\ shut.req = emptied.req
          /\ shut.head = emptied.head
      BY <1>3, <2>1, CloseFdProperties
    <3> HIDE DEF shut
    <3> QED
      BY <1>1, <1>3, <3>1
  <2>2. CASE ~c.fd[x]
    BY <1>1, <2>2
  <2> QED
    BY <2>1, <2>2
<1>5. c.fd[o] => c.reg[o].on
  BY <1>1 DEF SlotOK, SlotHoldsWhatItOwns
<1>6. CloseSide(c, x) = IF shut.fd[o] /\ shut.data[x] # <<>>
                        THEN kept ELSE FreeSession(shut)
  BY DEF CloseSide, emptied
<1>7. SlotOK(CloseSide(c, x))
  BY CloseSideOK
<1> HIDE DEF shut
<1>8. CASE shut.fd[o] /\ shut.data[x] # <<>>
  <2>1. /\ kept.req = c.req /\ kept.head = c.head /\ kept.taken = c.taken
        /\ kept.status = c.status /\ kept.fd = shut.fd
        /\ kept.sock[o] = c.sock[o] /\ kept.data[x] = c.data[x]
    <3>1. shut \in SlotType /\ shut.reg[o].on
      BY <1>4, <1>5, <1>8
    <3>2. /\ kept.req = shut.req /\ kept.head = shut.head
          /\ kept.taken = shut.taken /\ kept.status = shut.status
          /\ kept.fd = shut.fd /\ kept.sock = shut.sock /\ kept.data = shut.data
      BY <1>1, <3>1, EpollModKeeps
    <3> HIDE DEF kept
    <3> QED
      BY <1>4, <3>2
  <2>2. kept \in SlotType /\ CloseSide(c, x) = kept
    BY <1>6, <1>7, <1>8 DEF SlotOK
  <2> HIDE DEF kept
  <2>3. Flows(c, kept)
    BY <1>1, <1>4, <2>1, <2>2, SameFlow
  <2> QED
    BY <2>2, <2>3
<1>9. CASE ~(shut.fd[o] /\ shut.data[x] # <<>>)
  <2>1. CloseSide(c, x) = FreeSession(shut)
    BY <1>6, <1>9
  <2>2. ~FreeSession(shut).flag
    BY <1>7, <2>1 DEF SlotOK, FreeSession, SlotType
  <2> QED
    BY <2>1, <2>2 DEF Flows
<1> QED
  BY <1>8, <1>9

\* Arming changes the registrations and nothing else,
LEMMA EpollSessionModKeeps ==
    ASSUME NEW c, SlotOK(c), c.flag
    PROVE  /\ EpollSessionMod(c).req = c.req
           /\ EpollSessionMod(c).head = c.head
           /\ EpollSessionMod(c).taken = c.taken
           /\ EpollSessionMod(c).status = c.status
           /\ EpollSessionMod(c).fd = c.fd
           /\ EpollSessionMod(c).sock = c.sock
           /\ EpollSessionMod(c).data = c.data
           /\ EpollSessionMod(c).gave = c.gave
<1> DEFINE m1 == IF c.fd[Cli] THEN EpollMod(c, Cli, Interest(c, Cli), Cli)
                 ELSE c
           m2 == IF c.fd[Svr] THEN EpollMod(m1, Svr, Interest(c, Svr), Svr)
                 ELSE m1
           same(d) == /\ d.req = c.req /\ d.head = c.head /\ d.taken = c.taken
                      /\ d.status = c.status /\ d.fd = c.fd
                      /\ d.sock = c.sock /\ d.data = c.data
                      /\ d.gave = c.gave
<1>1. Cli \in Side /\ Svr \in Side /\ Cli # Svr
  BY DEF Side, Cli, Svr
<1>2. /\ c \in SlotType
      /\ \A x \in Side : c.fd[x] => c.reg[x].on
  BY DEF SlotOK, SlotHoldsWhatItOwns
<1>3. \A d, x : Interest(d, x) \in SUBSET {EPOLLIN, EPOLLOUT}
  BY DEF Interest
<1>4. /\ m1 \in SlotType /\ same(m1) /\ m1.reg[Svr] = c.reg[Svr]
  <2>1. CASE c.fd[Cli]
    <3> DEFINE events == Interest(c, Cli)
               moved == EpollMod(c, Cli, events, Cli)
    <3>1. SlotOK(moved)
      BY <1>1, <1>2, <1>3, <2>1, EpollModOK
    <3> HIDE DEF events
    <3>2. same(moved) /\ moved.reg[Svr] = c.reg[Svr]
      BY <1>1, <1>2, <2>1, EpollModKeeps
    <3> HIDE DEF moved
    <3>3. m1 = moved
      BY <2>1 DEF moved, events
    <3> QED
      BY <3>1, <3>2, <3>3 DEF SlotOK
  <2>2. CASE ~c.fd[Cli]
    BY <1>2, <2>2
  <2> QED
    BY <2>1, <2>2
<1> HIDE DEF m1
<1>5. same(m2)
  BY <1>1, <1>2, <1>4, EpollModKeeps
<1>6. EpollSessionMod(c) = m2
  <2>1. m1.data = c.data
    BY <1>4
  <2> QED
    BY <2>1 DEF EpollSessionMod, Interest, m1
<1> QED
  BY <1>5, <1>6

\* so that bytes flow through it,
LEMMA EpollSessionModFlows ==
    ASSUME NEW c, SlotOK(c), c.flag, \A y \in Side : Counted(c, y)
    PROVE  Flows(c, EpollSessionMod(c))
<1> DEFINE d == EpollSessionMod(c)
<1>1. c \in SlotType /\ d \in SlotType
  BY EpollSessionModOK DEF SlotOK
<1>2. /\ d.req = c.req /\ d.head = c.head /\ d.taken = c.taken
      /\ d.status = c.status /\ d.fd = c.fd
      /\ d.sock = c.sock /\ d.data = c.data
  BY EpollSessionModKeeps
<1> HIDE DEF d
<1> QED
  BY <1>1, <1>2, SameFlow DEF d

\* and through the tail of an event.
LEMMA FinishFlows ==
    ASSUME NEW r, SlotOK(r.slot), NEW x,
           r.slot.flag => \A y \in Side : Counted(r.slot, y)
    PROVE  Flows(r.slot, Finish(r, x))
<1>1. CASE ~r.slot.flag
  BY <1>1 DEF Finish, OnSessionClose, EpollSessionMod, Flows
<1>2. CASE r.slot.flag
  <2>1. Finish(r, x) \in {r.slot, EpollSessionMod(r.slot)}
        \/ /\ r.slot.event_fd \in Side
           /\ Finish(r, x) = CloseSide(r.slot, r.slot.event_fd)
    BY DEF Finish, OnSessionClose
  <2>2. Flows(r.slot, r.slot)
    BY <1>2, SameFlow DEF SlotOK
  <2>3. Flows(r.slot, EpollSessionMod(r.slot))
    BY <1>2, EpollSessionModFlows
  <2>4. \A y \in Side : Flows(r.slot, CloseSide(r.slot, y))
    BY <1>2, CloseSideFlows
  <2> QED
    BY <2>1, <2>2, <2>3, <2>4
<1> QED
  BY <1>1, <1>2

\* Relaying for an open side and what follows it.
LEMMA RelayFlows ==
    ASSUME NEW c, SlotOK(c), c.flag, NEW x \in Side, c.fd[x],
           \A y \in Side : Counted(c, y), NEW events, NEW mem \in BOOLEAN
    PROVE  Flows(c, Finish(OnDataRelay(c, x, events, mem), x))
<1> DEFINE r == OnDataRelay(c, x, events, mem)
           d == Finish(r, x)
<1>1. SlotOK(r.slot) /\ Flows(c, r.slot)
  BY OnDataRelayOK, OnDataRelayFlows
<1> HIDE DEF r
<1>2. r.slot.flag => \A y \in Side : Counted(r.slot, y)
  BY <1>1 DEF Flows, FlowsSide
<1>3. Flows(r.slot, d) /\ SlotOK(d)
  BY <1>1, <1>2, FinishFlows, FinishOK
<1>4. ~r.slot.flag => ~d.flag
  BY DEF Finish, OnSessionClose, EpollSessionMod
<1> HIDE DEF d
<1>5. CASE r.slot.flag
  <2>1. c \in SlotType /\ r.slot \in SlotType /\ d \in SlotType
    BY <1>1, <1>3 DEF SlotOK
  <2> QED
    BY <1>1, <1>3, <1>5, <2>1, FlowsTransitive DEF d, r
<1>6. CASE ~r.slot.flag
  BY <1>4, <1>6 DEF Flows, d, r
<1> QED
  BY <1>5, <1>6

\* Bytes flow through a whole event of the far side.
LEMMA SvrEventFlows ==
    ASSUME NEW c, SlotOK(c), c.flag, NEW events, NEW mem \in BOOLEAN,
           c.fd[Svr] \/ c.status[Svr] = "CLOSE",
           \A y \in Side : Counted(c, y)
    PROVE  Flows(c, SvrEvent(c, events, mem))
<1> DEFINE a == [c EXCEPT !.event_fd = Svr]
           up == [a EXCEPT !.status[Svr] = IF @ = "INIT" THEN "DATA_RELAY" ELSE @]
           r == OnDataRelay(up, Svr, Effective(events), mem)
           d == SvrEvent(c, events, mem)
<1>1. Svr \in Side /\ Cli \in Side /\ Svr # Cli
  BY DEF Side, Cli, Svr
<1>2. c \in SlotType
  BY DEF SlotOK
<1>3. SlotOK(a) /\ a.flag
  BY <1>1 DEF SlotOK, SlotType, SlotHoldsWhatItOwns
<1>4. SlotOK(up) /\ up.flag
  BY <1>1 DEF SlotOK, SlotType, Status, SlotHoldsWhatItOwns
<1>5. /\ up.req = c.req /\ up.head = c.head /\ up.taken = c.taken
      /\ up.status[Cli] = c.status[Cli]
      /\ c.status[Svr] # "INIT" => up.status[Svr] = c.status[Svr]
      /\ up.fd = c.fd /\ up.sock = c.sock /\ up.data = c.data
  BY <1>1, <1>2 DEF SlotType
<1>6. \/ d = FreeSession(a)
      \/ d = Finish(Return(0, up), Svr)
      \/ up.status[Svr] = "DATA_RELAY" /\ d = Finish(r, Svr)
  BY DEF SvrEvent, OnSessionErr
<1>7. ~FreeSession(a).flag
  BY <1>3, FreeSessionOK
<1> HIDE DEF a, up
<1>8. up \in SlotType
  BY <1>4 DEF SlotOK
<1>9. Flows(c, up)
  BY <1>2, <1>5, <1>8, SameFlow
<1>10. \A y \in Side : Counted(up, y)
  BY <1>4, <1>9 DEF Flows, FlowsSide
<1>11. CASE d = Finish(Return(0, up), Svr)
  <2> DEFINE f == Finish(Return(0, up), Svr)
  <2>1. Flows(up, f) /\ SlotOK(f)
    BY <1>4, <1>10, FinishFlows, FinishOK DEF Return
  <2> HIDE DEF f
  <2>2. f \in SlotType
    BY <2>1 DEF SlotOK
  <2>3. Flows(c, f)
    BY <1>2, <1>4, <1>8, <1>9, <2>1, <2>2, FlowsTransitive
  <2> QED
    BY <1>11, <2>3 DEF f
<1>12. CASE up.status[Svr] = "DATA_RELAY" /\ d = Finish(r, Svr)
  <2> DEFINE f == Finish(r, Svr)
  <2>1. up.fd[Svr]
    BY <1>5, <1>12
  <2>2. Flows(up, f)
    BY <1>1, <1>4, <1>10, <2>1, RelayFlows
  <2>3. SlotOK(f)
    BY <1>1, <1>4, OnDataRelayOK, FinishOK
  <2> HIDE DEF f
  <2>4. f \in SlotType
    BY <2>3 DEF SlotOK
  <2>5. Flows(c, f)
    BY <1>2, <1>4, <1>8, <1>9, <2>2, <2>4, FlowsTransitive
  <2> QED
    BY <1>12, <2>5 DEF f
<1> QED
  BY <1>6, <1>7, <1>11, <1>12 DEF Flows

\* A longer piece is the shorter one and the next element.
LEMMA PieceGrows ==
    ASSUME NEW p \in Seq(Byte), NEW a \in Nat, NEW b \in Nat, a <= b,
           b < Len(p)
    PROVE  Append(SubSeq(p, a + 1, b), p[b + 1]) = SubSeq(p, a + 1, b + 1)
<1> DEFINE front == SubSeq(p, a + 1, b)
           more == SubSeq(p, a + 1, b + 1)
           grown == Append(front, p[b + 1])
<1>1. Len(p) \in Nat /\ b + 1 \in Nat /\ b + 1 <= Len(p)
  BY LenProperties
<1>2. front \in Seq(Byte) /\ Len(front) = b - a
  BY <1>1, Pieces
<1>3. more \in Seq(Byte) /\ Len(more) = (b + 1) - a
  BY <1>1, Pieces
<1>4. p[b + 1] \in Byte
  BY <1>1, ElementOfSeq
<1>5. /\ grown \in Seq(Byte) /\ Len(grown) = Len(front) + 1
      /\ \A i \in 1 .. Len(front) : grown[i] = front[i]
      /\ grown[Len(front) + 1] = p[b + 1]
  BY <1>2, <1>4, AppendProperties
<1>6. \A i \in 1 .. b - a : front[i] = p[a + i]
  BY <1>1, SubSeqProperties
<1>7. \A i \in 1 .. (b + 1) - a : more[i] = p[a + i]
  BY <1>1, SubSeqProperties
<1> HIDE DEF front, more, grown
<1>8. \A i \in 1 .. Len(more) : grown[i] = more[i]
  <2> SUFFICES ASSUME NEW i \in 1 .. Len(more)
               PROVE  grown[i] = more[i]
    OBVIOUS
  <2>1. i \in 1 .. (b + 1) - a
    BY <1>3
  <2>2. CASE i = (b - a) + 1
    BY <1>2, <1>5, <1>7, <2>1, <2>2
  <2>3. CASE i \in 1 .. b - a
    BY <1>2, <1>5, <1>6, <1>7, <2>1, <2>3
  <2> QED
    BY <2>1, <2>2, <2>3
<1>9. Len(grown) = Len(more)
  BY <1>2, <1>3, <1>5
<1> QED
  BY <1>3, <1>5, <1>8, <1>9, SeqEqual DEF front, more, grown


\* base, and then the translation of what was read after the first `from`
\* bytes, is what side x has had go through.
Carried(c, x, base, from) ==
    c.fd[Other(x)] =>
        Through(c, x) = base
            \o Translate(x, SubSeq(PeerBytes(c, x), from + 1, c.taken[x]))

\* What was carried before bytes flowed is carried after.
LEMMA CarriedOn ==
    ASSUME NEW c \in SlotType, NEW d \in SlotType, d.flag, Flows(c, d),
           NEW x \in Side, NEW base \in Seq(Byte), NEW from \in Nat,
           from <= c.taken[x], Carried(c, x, base, from)
    PROVE  Carried(d, x, base, from)
<1> DEFINE o == Other(x)
           p == PeerBytes(c, x)
           i == c.taken[x]
           j == d.taken[x]
           s1 == SubSeq(p, from + 1, i)
           s2 == SubSeq(p, i + 1, j)
           s3 == SubSeq(p, from + 1, j)
<1> SUFFICES ASSUME d.fd[o]
             PROVE  Through(d, x) = base \o Translate(x, s3)
  BY DEF Carried, Flows, PeerBytes
<1>1. o \in Side /\ FlowsSide(c, d, x) /\ FlowsSide(c, d, o)
  BY OtherSide DEF Flows
<1>2. p \in Seq(Byte) /\ i \in Nat /\ j \in Nat
  BY ThroughType
<1>3. PeerBytes(d, x) = p
  BY DEF Flows, PeerBytes
<1>4. i <= j /\ j <= Len(p)
  BY <1>1, <1>3 DEF FlowsSide, Counted
<1>5. c.fd[o] /\ Through(d, x) = Through(c, x) \o Translate(x, s2)
  BY <1>1 DEF FlowsSide
<1>6. Through(c, x) = base \o Translate(x, s1)
  BY <1>5 DEF Carried
<1>7. Len(p) \in Nat
  BY <1>2, LenProperties
<1> HIDE DEF i, j, p
<1>8. s1 \in Seq(Byte) /\ s2 \in Seq(Byte) /\ s1 \o s2 = s3
  <2>1. i <= Len(p) /\ from <= i
    BY <1>2, <1>4, <1>7 DEF i
  <2>2. s1 \in Seq(Byte)
    BY <1>2, <2>1, Pieces
  <2>3. s2 \in Seq(Byte)
    BY <1>2, <1>4, Pieces
  <2>4. s1 \o s2 = s3
    BY <1>2, <1>4, <2>1, PiecesJoin
  <2> QED
    BY <2>2, <2>3, <2>4
<1> HIDE DEF s1, s2, s3
<1>9. /\ Translate(x, s1) \in Seq(Byte) /\ Translate(x, s2) \in Seq(Byte)
      /\ Translate(x, s3) = Translate(x, s1) \o Translate(x, s2)
  BY <1>8, TranslateType, TranslateConcat
<1>10. (base \o Translate(x, s1)) \o Translate(x, s2)
         = base \o (Translate(x, s1) \o Translate(x, s2))
  BY <1>9, Regroup
<1> QED
  BY <1>5, <1>6, <1>9, <1>10

\* With nothing read yet, base alone.
LEMMA CarriedBase ==
    ASSUME NEW c \in SlotType, NEW x \in Side, NEW base \in Seq(Byte),
           Through(c, x) = base
    PROVE  Carried(c, x, base, c.taken[x])
<1>1. c.taken[x] \in Nat
  BY ThroughType
<1>2. SubSeq(PeerBytes(c, x), c.taken[x] + 1, c.taken[x]) = <<>>
  <2>1. /\ c.taken[x] + 1 \in Int /\ c.taken[x] \in Int
        /\ c.taken[x] < c.taken[x] + 1
    BY <1>1
  <2> QED
    BY <2>1, SubSeqEmpty
<1>3. base \o <<>> = base
  BY ConcatEmptySeq
<1> QED
  BY <1>2, <1>3, TranslateNothing DEF Carried

\* A socket that has just been opened and of which nothing was read.
LEMMA NewlyCounted ==
    ASSUME NEW c \in SlotType, NEW x \in Side, c.taken[x] = 0,
           c.sock[x].rx = <<>>, c.sock[x].sent = 0
    PROVE  Counted(c, x)
<1>1. PeerBytes(c, x) \in Seq(Byte)
  BY ThroughType
<1>2. Len(PeerBytes(c, x)) \in Nat
  BY <1>1, LenProperties
<1>3. SubSeq(PeerBytes(c, x), 0 + 1, 0) = <<>>
  BY SubSeqEmpty
<1> QED
  BY <1>2, <1>3 DEF Counted

\* A slot just handed out: nothing has been read, given or queued.
LEMMA AcceptedCounted ==
    ASSUME NEW c, Fresh(c), c.data = [x \in Side |-> <<>>],
           c.taken = [x \in Side |-> 0]
    PROVE  LET d == Accepted(c) IN
           /\ d.fd[Cli] /\ ~d.fd[Svr] /\ d.status = c.status
           /\ d.head = c.head /\ d.req = c.req
           /\ d.sock[Cli].out = <<>> /\ d.data = c.data /\ d.taken = c.taken
           /\ \A x \in Side : Counted(d, x)
<1> DEFINE new == NewSocket("est")
           known == [on |-> TRUE, events |-> {EPOLLIN}, tag |-> Cli]
           d == Accepted(c)
<1>1. Cli \in Side /\ Svr \in Side /\ Cli # Svr /\ c \in SlotType
  BY DEF Side, Cli, Svr, Fresh
<1>2. new.rx = <<>> /\ new.sent = 0 /\ new.out = <<>>
  BY DEF NewSocket, NoSocket
<1>3. d = [[c EXCEPT !.fd[Cli] = TRUE, !.sock[Cli] = new]
             EXCEPT !.reg[Cli] = known]
  BY DEF Accepted, EpollAdd
<1>4. d \in SlotType
  BY AcceptedOK DEF SlotOK
<1> HIDE DEF new, known, d
<1>5. /\ d.fd[Cli] /\ ~d.fd[Svr] /\ d.status = c.status
      /\ d.head = c.head /\ d.req = c.req
      /\ d.sock[Cli] = new /\ d.data = c.data /\ d.taken = c.taken
  BY <1>1, <1>3 DEF SlotType, Fresh
<1>6. Counted(d, Cli)
  BY <1>1, <1>2, <1>4, <1>5, NewlyCounted
<1>7. Counted(d, Svr)
  <2>1. PeerBytes(d, Svr) \in Seq(Byte)
    BY <1>1, <1>4, ThroughType
  <2>2. Len(PeerBytes(d, Svr)) \in Nat
    BY <2>1, LenProperties
  <2> QED
    BY <1>1, <1>5, <2>2 DEF Counted
<1> QED
  BY <1>2, <1>5, <1>6, <1>7 DEF d, Side

\* EPOLL_CTL_ADD failed.
LEMMA RefusedFreed ==
    ASSUME NEW c, Fresh(c)
    PROVE  ~FreeSession([c EXCEPT !.fd[Cli] = TRUE,
                                  !.sock[Cli] = NewSocket("est")]).flag
<1> DEFINE new == NewSocket("est")
           opened == [c EXCEPT !.fd[Cli] = TRUE, !.sock[Cli] = new]
<1>1. opened \in SlotType /\ opened.flag /\ Droppable(opened)
  <2>1. new \in SocketType
    BY NewSocketType
  <2>2. Cli \in Side
    BY DEF Side
  <2> HIDE DEF new
  <2> QED
    BY <2>1, <2>2 DEF SlotType, Fresh, Droppable
<1> QED
  BY <1>1, FreeSessionDrops

\* The connection to the far side, when nothing has been read of it.
LEMMA ConnectedCounted ==
    ASSUME NEW c, SlotOK(c), c.flag, c.taken[Svr] = 0, Counted(c, Cli),
           NEW outcome
    PROVE  /\ \A x \in Side : Counted(Connected(c, outcome), x)
           /\ Through(Connected(c, outcome), Cli) = c.data[Cli]
           /\ Through(Connected(c, outcome), Svr) = Through(c, Svr)
<1> DEFINE d == Connected(c, outcome)
<1>1. Cli \in Side /\ Svr \in Side /\ Cli # Svr
      /\ Other(Cli) = Svr /\ Other(Svr) = Cli
  BY DEF Side, Cli, Svr, Other
<1>2. /\ SlotOK(d) /\ d.flag /\ d.fd = [c.fd EXCEPT ![Svr] = TRUE]
      /\ d.data = c.data /\ d.sock[Cli] = c.sock[Cli]
      /\ d.sock[Svr].out = <<>> /\ d.sock[Svr].rx = <<>>
      /\ d.sock[Svr].sent = 0 /\ d.taken = c.taken /\ d.req = c.req
  BY ConnectedOK
<1> HIDE DEF d
<1>3. c \in SlotType /\ d \in SlotType
  BY <1>2 DEF SlotOK
<1>4. d.fd[Cli] = c.fd[Cli]
  BY <1>1, <1>2, <1>3 DEF SlotType
<1>5. Counted(d, Cli)
  BY <1>1, <1>2, <1>4 DEF Counted, PeerBytes
<1>6. Counted(d, Svr)
  BY <1>1, <1>2, <1>3, NewlyCounted
<1>7. <<>> \o d.data[Cli] = d.data[Cli]
  BY <1>1, <1>3, ThroughType, ConcatEmptySeq
<1> QED
  BY <1>1, <1>2, <1>5, <1>6, <1>7 DEF Through, Side, d

\* What a peer does adds to what its socket holds, and to nothing else.
LEMMA PeerCounts ==
    ASSUME Inv, PeerStep, NEW s \in Slot, conn[s].flag,
           \A x \in Side : Counted(conn[s], x)
    PROVE  \A x \in Side : /\ Counted(conn'[s], x)
                           /\ Through(conn'[s], x) = Through(conn[s], x)
                           /\ PeerBytes(conn'[s], x) = PeerBytes(conn[s], x)
<1>1. PICK t \in Slot, y \in Side :
        \/ PeerSends(t, y)
        \/ PeerShutsDown(t, y)
        \/ PeerResets(t, y)
        \/ PeerReceives(t, y)
        \/ HandshakeDone(t, y)
  BY DEF PeerStep
<1>2. conn \in [Slot -> SlotType] /\ conn[s] \in SlotType
  BY DEF Inv, TypeOK
<1>3. CASE t # s
  <2>1. conn'[s] = conn[s]
    BY <1>1, <1>2, <1>3 DEF PeerSends, PeerShutsDown, PeerResets,
                            PeerReceives, HandshakeDone
  <2> QED
    BY <2>1
<1>4. CASE t = s
  <2> DEFINE c == conn[s]
             d == conn'[s]
             k == c.sock[y]
             p == PeerBytes(c, y)
  <2>1. Peer(s, y) /\ c.flag /\ c.fd[y] /\ k \in SocketType
    BY <1>1, <1>4, PeerOwner DEF PeerSends, PeerShutsDown, PeerResets,
                                 PeerReceives, HandshakeDone
  <2>2. /\ k.rx \in Seq(Byte) /\ k.sent \in Nat /\ p \in Seq(Byte)
        /\ c.taken[y] \in Nat
    BY <1>2, ThroughType
  <2>3. /\ c.taken[y] <= k.sent /\ k.sent <= Len(p)
        /\ k.rx = SubSeq(p, c.taken[y] + 1, k.sent)
    BY <2>1 DEF Counted
  <2>4. \E l : /\ d = [c EXCEPT !.sock[y] = l]
               /\ l.out = k.out
               /\ \/ l.rx = k.rx /\ l.sent = k.sent
                  \/ /\ k.sent < Len(p) /\ l.sent = k.sent + 1
                     /\ l.rx = Append(k.rx, p[k.sent + 1])
    <3>1. CASE PeerSends(s, y)
      <4> DEFINE l == [k EXCEPT !.rx = Append(k.rx, p[k.sent + 1]),
                                !.sent = k.sent + 1]
      <4>1. conn' = [conn EXCEPT ![s].sock[y] = l] /\ k.sent < Len(p)
        BY <3>1 DEF PeerSends
      <4>2. /\ l.out = k.out /\ l.sent = k.sent + 1
            /\ l.rx = Append(k.rx, p[k.sent + 1])
        BY <2>1 DEF SocketType
      <4> HIDE DEF l, k, p
      <4>3. d = [c EXCEPT !.sock[y] = l]
        BY <1>2, <4>1
      <4> QED
        BY <4>1, <4>2, <4>3
    <3>2. CASE PeerShutsDown(s, y)
      <4> DEFINE l == [k EXCEPT !.fin = TRUE]
      <4>1. d = [c EXCEPT !.sock[y] = l]
        BY <1>2, <3>2 DEF PeerShutsDown
      <4>2. l.out = k.out /\ l.rx = k.rx /\ l.sent = k.sent
        BY <2>1 DEF SocketType
      <4> QED
        BY <4>1, <4>2
    <3>3. CASE PeerResets(s, y)
      <4> DEFINE l == [k EXCEPT !.rst = TRUE]
      <4>1. d = [c EXCEPT !.sock[y] = l]
        BY <1>2, <3>3 DEF PeerResets
      <4>2. l.out = k.out /\ l.rx = k.rx /\ l.sent = k.sent
        BY <2>1 DEF SocketType
      <4> QED
        BY <4>1, <4>2
    <3>4. CASE PeerReceives(s, y)
      <4> PICK n \in k.room + 1 .. SndBuf :
                 conn' = [conn EXCEPT ![s].sock[y].room = n]
        BY <3>4 DEF PeerReceives
      <4> DEFINE l == [k EXCEPT !.room = n]
      <4>1. d = [c EXCEPT !.sock[y] = l]
        BY <1>2
      <4>2. l.out = k.out /\ l.rx = k.rx /\ l.sent = k.sent
        BY <2>1 DEF SocketType
      <4> QED
        BY <4>1, <4>2
    <3>5. CASE HandshakeDone(s, y)
      <4> DEFINE l == [k EXCEPT !.st = "est"]
      <4>1. d = [c EXCEPT !.sock[y] = l]
        BY <1>2, <3>5 DEF HandshakeDone
      <4>2. l.out = k.out /\ l.rx = k.rx /\ l.sent = k.sent
        BY <2>1 DEF SocketType
      <4> QED
        BY <4>1, <4>2
    <3> QED
      BY <1>1, <1>4, <3>1, <3>2, <3>3, <3>4, <3>5
  <2>5. PICK l : /\ d = [c EXCEPT !.sock[y] = l]
                 /\ l.out = k.out
                 /\ \/ l.rx = k.rx /\ l.sent = k.sent
                    \/ /\ k.sent < Len(p) /\ l.sent = k.sent + 1
                       /\ l.rx = Append(k.rx, p[k.sent + 1])
    BY <2>4
  <2>6. /\ d.fd = c.fd /\ d.taken = c.taken /\ d.req = c.req
        /\ d.data = c.data /\ d.sock[y] = l
        /\ \A x \in Side : x # y => d.sock[x] = c.sock[x]
    BY <1>2, <2>5 DEF SlotType
  <2>7. l.sent <= Len(p) /\ c.taken[y] <= l.sent
        /\ l.rx = SubSeq(p, c.taken[y] + 1, l.sent)
    <3>1. CASE l.rx = k.rx /\ l.sent = k.sent
      BY <2>3, <3>1
    <3>2. CASE /\ k.sent < Len(p) /\ l.sent = k.sent + 1
               /\ l.rx = Append(k.rx, p[k.sent + 1])
      <4> DEFINE i == c.taken[y]
                 j == k.sent
      <4>1. i \in Nat /\ j \in Nat /\ i <= j /\ j < Len(p) /\ p \in Seq(Byte)
        BY <2>2, <2>3, <3>2
      <4>2. k.rx = SubSeq(p, i + 1, j) /\ l.rx = Append(k.rx, p[j + 1])
        BY <2>3, <3>2
      <4> HIDE DEF i, j, p, k
      <4>3. Append(SubSeq(p, i + 1, j), p[j + 1]) = SubSeq(p, i + 1, j + 1)
        BY <4>1, PieceGrows
      <4>4. Len(p) \in Nat
        BY <4>1, LenProperties
      <4>5. j + 1 <= Len(p) /\ i <= j + 1
        BY <4>1, <4>4
      <4> QED
        BY <3>2, <4>2, <4>3, <4>5 DEF i, j
    <3> QED
      BY <2>5, <3>1, <3>2
  <2>8. \A x \in Side : PeerBytes(d, x) = PeerBytes(c, x)
    BY <2>6 DEF PeerBytes
  <2>9. \A x \in Side : Through(d, x) = Through(c, x)
    BY <2>5, <2>6, OtherSide DEF Through
  <2>10. Counted(d, y)
    BY <2>3, <2>6, <2>7, <2>8 DEF Counted
  <2>11. \A x \in Side : x # y => Counted(d, x)
    BY <2>6, <2>8 DEF Counted
  <2> QED
    BY <2>8, <2>9, <2>10, <2>11
<1> QED
  BY <1>3, <1>4

-----------------------------------------------------------------------------
(* What both programs contribute to the refinement of ProxySession: the     *)
(* history of a slot is wiped with its descriptors, a session that relays   *)
(* has both of them, and a step that lets the bytes flow from one settled   *)
(* slot to the next is a step of the abstract session.                      *)

\* A side without a descriptor has been given nothing, a free slot has read
\* nothing, a session that relays has the descriptors of its open sides, and
\* what it gave the sides that are open is what their sockets were given.
Kept(c) ==
    /\ \A y \in Side : ~c.fd[y] => c.sock[y].out = <<>>
    /\ ~c.flag => \A y \in Side : c.taken[y] = 0
    /\ c.flag /\ c.status[Cli] = "DATA_RELAY" =>
         \A y \in Side : c.status[y] # "CLOSE" => c.fd[y]
    /\ c.flag => \A y \in Side : c.fd[y] => c.gave[y] = c.sock[y].out

\* free_*_session wipes what a session has.
LEMMA FreeSessionKept ==
    ASSUME NEW c \in SlotType,
           \A y \in Side : ~c.fd[y] => c.sock[y].out = <<>>,
           ~c.flag => \A y \in Side : c.taken[y] = 0
    PROVE  Kept(FreeSession(c))
<1>1. CASE ~c.flag
  BY <1>1 DEF FreeSession, Kept
<1>2. CASE c.flag
  <2> DEFINE freed == [c EXCEPT !.data = [x \in Side |-> <<>>],
                                !.taken = [x \in Side |-> 0]]
             shut1 == IF c.fd[Cli] THEN CloseFd(freed, Cli) ELSE freed
             shut2 == IF c.fd[Svr] THEN CloseFd(shut1, Svr) ELSE shut1
  <2>1. <<>> \in Seq(Byte) /\ Cli \in Side /\ Svr \in Side /\ Cli # Svr
    BY EmptySeq DEF Side, Cli, Svr
  <2>2. /\ freed \in SlotType /\ freed.fd = c.fd /\ freed.sock = c.sock
        /\ freed.taken = [x \in Side |-> 0]
    BY <2>1 DEF SlotType
  <2> HIDE DEF freed
  <2>3. /\ shut1 \in SlotType /\ (shut1.fd[Svr] <=> c.fd[Svr]) /\ ~shut1.fd[Cli]
        /\ shut1.sock[Cli].out = <<>> /\ shut1.sock[Svr] = c.sock[Svr]
        /\ shut1.taken = freed.taken
    <3>1. CASE c.fd[Cli]
      <4>1. /\ shut1 \in SlotType
            /\ \A y \in Side :
                 /\ shut1.fd[y] <=> freed.fd[y] /\ y # Cli
                 /\ shut1.sock[y] = IF y = Cli THEN NoSocket ELSE freed.sock[y]
            /\ shut1.taken = freed.taken
        BY <2>1, <2>2, <3>1, CloseFdProperties
      <4> HIDE DEF shut1
      <4> QED
        BY <2>1, <2>2, <4>1 DEF NoSocket
    <3>2. CASE ~c.fd[Cli]
      <4>1. shut1 = freed
        BY <2>2, <3>2
      <4> HIDE DEF shut1
      <4> QED
        BY <2>1, <2>2, <3>2, <4>1
    <3> QED
      BY <3>1, <3>2
  <2> HIDE DEF shut1
  <2>4. /\ shut2 \in SlotType /\ shut2.taken = freed.taken
        /\ shut2.sock[Cli].out = <<>> /\ shut2.sock[Svr].out = <<>>
    BY <2>1, <2>3, CloseFdProperties DEF NoSocket
  <2> HIDE DEF shut2
  <2> DEFINE d == [shut2 EXCEPT !.h = FALSE, !.head = <<>>, !.flag = FALSE]
  <2>5. FreeSession(c) = d
    BY <1>2 DEF FreeSession, freed, shut1, shut2
  <2>6. ~d.flag /\ d.sock = shut2.sock /\ d.taken = shut2.taken
    BY <2>4 DEF SlotType
  <2> HIDE DEF d
  <2>7. \A y \in Side : d.sock[y].out = <<>> /\ d.taken[y] = 0
    BY <2>2, <2>4, <2>6 DEF Side
  <2> QED
    BY <2>5, <2>6, <2>7 DEF Kept
<1> QED
  BY <1>1, <1>2

\* Both halves of the relay.
LEMMA OnDataRelayKept ==
    ASSUME NEW c, SlotOK(c), c.flag, Kept(c), NEW x \in Side, c.fd[x],
           NEW events, NEW mem \in BOOLEAN
    PROVE  Kept(OnDataRelay(c, x, events, mem).slot)
<1>1. ASSUME NEW b, SlotOK(b), b.flag, Kept(b)
      PROVE  Kept(FreeSession(b))
  BY <1>1, FreeSessionKept DEF SlotOK, Kept
<1>2. Kept(WriteSide(c, x).slot)
  <2> DEFINE written == Written(c, x)
  <2>1. /\ SlotOK(written) /\ written.flag
        /\ written.fd = c.fd /\ written.status = c.status
    BY WrittenOK
  <2>2. /\ written.taken = c.taken
        /\ \A y \in Side : y # x => written.sock[y] = c.sock[y]
        /\ \A y \in Side : y # x => written.gave[y] = c.gave[y]
    BY DEF Written, SlotOK, SlotType
  <2>3. c.gave[x] = c.sock[x].out => written.gave[x] = written.sock[x].out
    <3> DEFINE front == SubSeq(c.data[Other(x)], 1, Writes(c, x))
    <3>1. c \in SlotType /\ c.sock[x] \in SocketType
      BY DEF SlotOK, SlotType
    <3>2. written.gave[x] = c.gave[x] \o front
      BY <3>1 DEF Written, SlotType
    <3>3. written.sock[x].out = c.sock[x].out \o front
      BY <3>1 DEF Written, SlotType, SocketType
    <3> QED
      BY <3>2, <3>3
  <2> HIDE DEF written
  <2>4. Kept(written)
    BY <2>1, <2>2, <2>3 DEF Kept
  <2>5. WriteSide(c, x) \in {Return(-1, FreeSession(c)),
                             Return(0, FreeSession(written)),
                             Return(0, written)}
    BY WriteSideCases DEF written
  <2> QED
    BY <1>1, <2>1, <2>4, <2>5 DEF Return
<1>3. ASSUME NEW b, SlotOK(b), b.flag, Kept(b)
      PROVE  Kept(ReadSide(b, x, mem).slot)
  <2> DEFINE filled == Filled(b, x)
             ended == Ended(b, x)
  <2>1. filled.fd = b.fd /\ filled.status = b.status /\ filled.flag
    BY <1>3, FilledOK
  <2>2. filled.gave = b.gave /\ \A y \in Side : filled.sock[y].out = b.sock[y].out
    BY <1>3 DEF Filled, SlotOK, SlotType, SocketType
  <2>3. /\ ended.fd = b.fd /\ ended.sock = b.sock /\ ended.flag
        /\ ended.gave = b.gave
        /\ \A y \in Side : \/ ended.status[y] = b.status[y]
                           \/ ended.status[y] = "CLOSE"
    BY <1>3 DEF Ended, SlotOK, SlotType
  <2> HIDE DEF filled, ended
  <2>4. Kept(filled) /\ Kept(ended)
    <3>1. Cli \in Side
      BY DEF Side
    <3> QED
      BY <1>3, <2>1, <2>2, <2>3, <3>1 DEF Kept
  <2>5. ReadSide(b, x, mem) \in
          {Return(0, filled), Return(-1, FreeSession(b)), Return(0, ended),
           Return(0, b)}
    BY ReadSideCases DEF filled, ended
  <2> QED
    BY <1>1, <1>3, <2>4, <2>5 DEF Return
<1> DEFINE w == IF EPOLLOUT \in events THEN WriteSide(c, x) ELSE Return(0, c)
<1>4. SlotOK(w.slot) /\ Kept(w.slot)
  BY <1>2, WriteSideOK DEF Return
<1>5. \/ OnDataRelay(c, x, events, mem) = w
      \/ w.slot.flag /\ OnDataRelay(c, x, events, mem) = ReadSide(w.slot, x, mem)
  BY DEF OnDataRelay
<1> HIDE DEF w
<1> QED
  BY <1>3, <1>4, <1>5

\* __on_session_close closes the descriptor of a side that is closed.
LEMMA CloseSideKept ==
    ASSUME NEW c, SlotOK(c), c.flag, Kept(c), NEW x \in Side,
           c.status[x] = "CLOSE"
    PROVE  Kept(CloseSide(c, x))
<1> DEFINE o == Other(x)
           emptied == [c EXCEPT !.data[o] = <<>>]
           shut == IF c.fd[x] THEN CloseFd(emptied, x) ELSE c
           d == EpollMod(shut, o, {EPOLLOUT}, Svr)
<1>1. o \in Side /\ o # x /\ c \in SlotType /\ <<>> \in Seq(Byte)
  BY OtherSide, EmptySeq DEF SlotOK
<1>2. /\ emptied \in SlotType /\ emptied.fd = c.fd /\ emptied.sock = c.sock
      /\ emptied.reg = c.reg /\ emptied.status = c.status
      /\ emptied.taken = c.taken /\ emptied.flag /\ emptied.gave = c.gave
  BY <1>1 DEF SlotType
<1> HIDE DEF emptied
<1>3. /\ shut \in SlotType /\ shut.flag /\ shut.status = c.status
      /\ shut.taken = c.taken /\ shut.gave = c.gave
      /\ \A y \in Side : shut.fd[y] <=> c.fd[y] /\ (y # x)
      /\ \A y \in Side : shut.fd[y] => /\ shut.reg[y] = c.reg[y]
                                       /\ shut.sock[y] = c.sock[y]
      /\ \A y \in Side : ~shut.fd[y] => shut.sock[y].out = <<>>
  <2>1. CASE c.fd[x]
    <3>1. /\ shut \in SlotType
          /\ \A y \in Side :
               /\ shut.fd[y] <=> emptied.fd[y] /\ y # x
               /\ shut.sock[y] = IF y = x THEN NoSocket ELSE emptied.sock[y]
               /\ shut.reg[y] = IF y = x THEN NoRegistration ELSE emptied.reg[y]
          /\ shut.flag /\ shut.status = emptied.status
          /\ shut.taken = emptied.taken /\ shut.gave = emptied.gave
      BY <1>2, <2>1, CloseFdProperties
    <3> HIDE DEF shut
    <3> QED
      BY <1>2, <3>1 DEF Kept, NoSocket
  <2>2. CASE ~c.fd[x]
    BY <1>1, <2>2 DEF Kept
  <2> QED
    BY <2>1, <2>2
<1> HIDE DEF shut
<1>4. Kept(FreeSession(shut))
  BY <1>3, FreeSessionKept
<1>5. ASSUME shut.fd[o]
      PROVE  Kept(d)
  <2>1. shut.reg[o].on
    BY <1>1, <1>3, <1>5 DEF SlotOK, SlotHoldsWhatItOwns
  <2>2. /\ d.fd = shut.fd /\ d.sock = shut.sock /\ d.status = shut.status
        /\ d.taken = shut.taken /\ d.gave = shut.gave
    BY <1>1, <1>3, <2>1, EpollModKeeps
  <2>3. d.flag
    BY <1>3 DEF EpollMod, EpollAdd, SlotType
  <2> HIDE DEF d
  <2>4. \A y \in Side : ~d.fd[y] => d.sock[y].out = <<>>
    BY <1>3, <2>2
  <2>5. d.status[Cli] = "DATA_RELAY" =>
          \A y \in Side : d.status[y] # "CLOSE" => d.fd[y]
    BY <1>3, <2>2 DEF Kept
  <2>6. \A y \in Side : d.fd[y] => d.gave[y] = d.sock[y].out
    BY <1>3, <2>2 DEF Kept
  <2> QED
    BY <2>3, <2>4, <2>5, <2>6 DEF Kept
<1>6. CloseSide(c, x) = IF shut.fd[o] /\ shut.data[x] # <<>> THEN d
                        ELSE FreeSession(shut)
  BY DEF CloseSide, shut, emptied
<1> HIDE DEF d
<1> QED
  BY <1>4, <1>5, <1>6

\* Arming epoll does not end the session.
LEMMA EpollSessionModFlag ==
    ASSUME NEW c, SlotOK(c), c.flag
    PROVE  EpollSessionMod(c).flag
<1> DEFINE m1 == IF c.fd[Cli] THEN EpollMod(c, Cli, Interest(c, Cli), Cli)
                 ELSE c
<1>1. Cli \in Side /\ Svr \in Side
  BY DEF Side
<1>2. Interest(c, Cli) \in SUBSET {EPOLLIN, EPOLLOUT}
      /\ Interest(c, Svr) \in SUBSET {EPOLLIN, EPOLLOUT}
  BY DEF Interest
<1>3. SlotOK(m1) /\ m1.flag
  BY <1>1, <1>2, EpollModOK
<1> HIDE DEF m1
<1>4. EpollMod(m1, Svr, Interest(c, Svr), Svr).flag
  BY <1>1, <1>2, <1>3, EpollModOK
<1> QED
  BY <1>3, <1>4 DEF EpollSessionMod, m1

\* The tail of an event.
LEMMA FinishKept ==
    ASSUME NEW r, SlotOK(r.slot), Kept(r.slot), NEW x \in Side
    PROVE  Kept(Finish(r, x))
<1> DEFINE c == r.slot
<1>1. Kept(OnSessionClose(c))
  BY CloseSideKept DEF OnSessionClose
<1>2. Kept(EpollSessionMod(c))
  <2>1. CASE ~c.flag
    BY <2>1 DEF EpollSessionMod
  <2>2. CASE c.flag
    <3> DEFINE d == EpollSessionMod(c)
    <3>1. /\ d.status = c.status /\ d.fd = c.fd /\ d.sock = c.sock
          /\ d.gave = c.gave
      BY <2>2, EpollSessionModKeeps
    <3>2. d.flag
      BY <2>2, EpollSessionModFlag
    <3> HIDE DEF d
    <3> QED
      BY <2>2, <3>1, <3>2 DEF Kept, d
  <2> QED
    BY <2>1, <2>2
<1> QED
  BY <1>1, <1>2 DEF Finish

\* An event of the far side.
LEMMA SvrEventKept ==
    ASSUME NEW c, SlotOK(c), c.flag, Kept(c), NEW events, NEW mem \in BOOLEAN,
           c.fd[Svr] \/ c.status[Svr] = "CLOSE"
    PROVE  Kept(SvrEvent(c, events, mem))
<1> DEFINE a == [c EXCEPT !.event_fd = Svr]
           up == [a EXCEPT !.status[Svr] = IF @ = "INIT" THEN "DATA_RELAY" ELSE @]
           r == OnDataRelay(up, Svr, Effective(events), mem)
           d == SvrEvent(c, events, mem)
<1>1. Svr \in Side /\ Cli \in Side /\ Svr # Cli /\ c \in SlotType
  BY DEF Side, Cli, Svr, SlotOK
<1>2. SlotOK(a) /\ a.flag /\ a.fd = c.fd /\ a.sock = c.sock
  BY <1>1 DEF SlotOK, SlotType, SlotHoldsWhatItOwns
<1>3. SlotOK(up) /\ up.flag
  BY <1>1 DEF SlotOK, SlotType, Status, SlotHoldsWhatItOwns
<1>4. /\ up.status[Cli] = c.status[Cli]
      /\ up.status[Svr] = c.status[Svr] \/ c.status[Svr] = "INIT"
      /\ up.fd = c.fd /\ up.sock = c.sock /\ up.gave = c.gave
  BY <1>1 DEF SlotType
<1>5. \/ d = FreeSession(a)
      \/ d = Finish(Return(0, up), Svr)
      \/ up.status[Svr] = "DATA_RELAY" /\ d = Finish(r, Svr)
  BY DEF SvrEvent, OnSessionErr
<1> HIDE DEF a, up, d
<1>6. Kept(FreeSession(a))
  BY <1>2, FreeSessionKept DEF SlotOK, Kept
<1>7. Kept(up)
  BY <1>1, <1>3, <1>4 DEF Kept, Side
<1>8. Kept(Finish(Return(0, up), Svr))
  BY <1>1, <1>3, <1>7, FinishKept DEF Return
<1>9. ASSUME up.status[Svr] = "DATA_RELAY"
      PROVE  Kept(Finish(r, Svr))
  <2>1. up.fd[Svr]
    BY <1>4, <1>9
  <2>2. SlotOK(r.slot) /\ Kept(r.slot)
    BY <1>1, <1>3, <1>7, <2>1, OnDataRelayOK, OnDataRelayKept
  <2> QED
    BY <1>1, <2>2, FinishKept
<1> QED
  BY <1>5, <1>6, <1>8, <1>9 DEF d

\* The far connection is built, or the session given up half-way through.
LEMMA BuildSvrKept ==
    ASSUME NEW c, SlotOK(c), c.flag, Kept(c), c.fd[Cli], NEW outcome
    PROVE  Kept(BuildSvr(c, outcome).slot)
<1> DEFINE new == NewSocket(IF outcome = "done" THEN "est" ELSE "syn")
           opened == [c EXCEPT !.fd[Svr] = TRUE, !.sock[Svr] = new,
                              !.gave[Svr] = <<>>]
           d == Connected(c, outcome)
<1>1. Svr \in Side /\ Cli \in Side /\ Svr # Cli /\ c \in SlotType
  BY DEF Side, Cli, Svr, SlotOK
<1>2. new \in SocketType
  BY NewSocketType
<1>3. Kept(FreeSession(c))
  BY <1>1, FreeSessionKept DEF Kept
<1>4. Kept(FreeSession(opened))
  <2> HIDE DEF new
  <2>1. /\ opened \in SlotType /\ opened.flag
        /\ \A y \in Side : ~opened.fd[y] => ~c.fd[y] /\ opened.sock[y] = c.sock[y]
    BY <1>1, <1>2, EmptySeq DEF SlotType
  <2> HIDE DEF opened
  <2> QED
    BY <2>1, FreeSessionKept DEF Kept
<1>5. Kept(d)
  <2>1. /\ d.flag /\ d.fd = [c.fd EXCEPT ![Svr] = TRUE]
        /\ d.sock[Cli] = c.sock[Cli]
    BY ConnectedOK
  <2>4. d.gave[Cli] = c.gave[Cli] /\ d.gave[Svr] = d.sock[Svr].out
    <3>1. d.sock[Svr].out = <<>>
      BY ConnectedOK
    <3> QED
      BY <1>1, <3>1 DEF Connected, SlotType
  <2> HIDE DEF d
  <2>2. d.fd[Cli] /\ d.fd[Svr]
    BY <1>1, <2>1 DEF SlotType
  <2>3. \A y \in Side : d.fd[y]
    BY <2>2 DEF Side
  <2>5. \A y \in Side : d.gave[y] = d.sock[y].out
    BY <2>1, <2>4 DEF Side, Kept
  <2> QED
    BY <2>1, <2>3, <2>5 DEF Kept
<1>6. BuildSvr(c, outcome) \in {Return(-1, FreeSession(c)),
                                Return(-1, FreeSession(opened)), Return(0, d)}
  <2>1. Return(0, EpollAdd([opened EXCEPT !.status[Cli] = "DATA_RELAY",
                             !.status[Svr] = IF outcome = "done"
                                             THEN "DATA_RELAY" ELSE @],
                           Svr, {EPOLLIN, EPOLLOUT}, Svr)) = Return(0, d)
    BY <1>1 DEF EpollAdd, Connected, Return, SlotType
  <2> QED
    BY <2>1 DEF BuildSvr, OnSessionErr
<1> QED
  BY <1>3, <1>4, <1>5, <1>6 DEF Return

-----------------------------------------------------------------------------
(* Slots seen as abstract sessions.                                         *)

\* What has been handed over of the bytes that came from side x.
Delivered(c, x) == c.sock[Other(x)].out

\* ProxySession's steps of a session in use, for the slots c and d: m and n
\* are what the bytes read were meant to make up before and after.
InOrderNow(d, n) == \A x \in Side : StartOf(Delivered(d, x), n[x])

Relayed(c, d, m, n) ==
    /\ Phase(c) \in {"waiting", "relaying"} /\ Phase(d) = "relaying"
    /\ ClosedSide(d) = ClosedSide(c)
    /\ \A x \in Side : StartOf(m[x], n[x])
    /\ \A x \in Side : StartOf(Delivered(c, x), Delivered(d, x))
    /\ InOrderNow(d, n)

HalfClosed(c, d, m, n, x) ==
    /\ Phase(c) \in {"waiting", "relaying"} /\ Phase(d) = "flushing"
    /\ ClosedSide(d) = x
    /\ \A y \in Side : StartOf(m[y], n[y])
    /\ StartOf(Delivered(c, x), Delivered(d, x))
    /\ \A y \in Side \ {x} : Delivered(d, y) = <<>>
    /\ InOrderNow(d, n)
    /\ Delivered(d, x) # n[x]

Flushed(c, d, m, n) ==
    /\ Phase(c) = "flushing" /\ Phase(d) = "flushing"
    /\ ClosedSide(c) \in Side /\ ClosedSide(d) = ClosedSide(c)
    /\ n[ClosedSide(c)] = m[ClosedSide(c)]
    /\ \A y \in Side : StartOf(m[y], n[y])
    /\ StartOf(Delivered(c, ClosedSide(c)), Delivered(d, ClosedSide(c)))
    /\ \A y \in Side \ {ClosedSide(c)} : Delivered(d, y) = <<>>
    /\ InOrderNow(d, n)
    /\ Delivered(d, ClosedSide(c)) # n[ClosedSide(c)]

\* In a settled slot at most one side is closed, and the phase says which.
LEMMA PhaseOfSettled ==
    ASSUME NEW c, SlotOK(c), Settled(c), Kept(c)
    PROVE  /\ ~c.flag => Phase(c) = "free" /\ ClosedSide(c) = "nobody"
           /\ c.flag => Phase(c) # "free"
           /\ Phase(c) \in {"waiting", "relaying"} =>
                c.flag /\ ClosedSide(c) = "nobody"
                /\ \A x \in Side : c.status[x] # "CLOSE"
           /\ Phase(c) = "waiting" => ~c.fd[Svr]
           /\ Phase(c) = "relaying" =>
                c.status[Cli] = "DATA_RELAY" /\ c.fd[Cli] /\ c.fd[Svr]
           /\ Phase(c) = "flushing" =>
                /\ c.flag /\ ClosedSide(c) \in Side
                /\ c.status[ClosedSide(c)] = "CLOSE"
                /\ ~c.fd[ClosedSide(c)] /\ c.fd[Other(ClosedSide(c))]
                /\ c.data[ClosedSide(c)] # <<>>
           /\ \A x \in Side : c.flag /\ c.status[x] = "CLOSE" =>
                Phase(c) = "flushing" /\ ClosedSide(c) = x
<1>1. CASE ~c.flag
  BY <1>1 DEF Phase, ClosedSide
<1>2. CASE c.flag /\ \E x \in Side : c.status[x] = "CLOSE"
  <2> DEFINE y == CHOOSE x \in Side : c.status[x] = "CLOSE"
  <2>1. Phase(c) = "flushing" /\ ClosedSide(c) = y
    BY <1>2 DEF Phase, ClosedSide
  <2>2. y \in Side /\ c.status[y] = "CLOSE"
    BY <1>2
  <2> HIDE DEF y
  <2>3. \A x \in Side : c.status[x] = "CLOSE" =>
          ~c.fd[x] /\ c.fd[Other(x)] /\ c.data[x] # <<>>
    BY <1>2 DEF Settled, Flushes
  <2>4. \A x \in Side : c.status[x] = "CLOSE" => x = y
    BY <2>2, <2>3 DEF Side, Other, Cli, Svr
  <2> QED
    BY <1>2, <2>1, <2>2, <2>3, <2>4
<1>3. CASE c.flag /\ ~\E x \in Side : c.status[x] = "CLOSE"
  <2>1. Phase(c) = IF c.fd[Svr] THEN "relaying" ELSE "waiting"
    BY <1>3 DEF Phase
  <2>2. ClosedSide(c) = "nobody"
    BY <1>3 DEF ClosedSide
  <2>3. Cli \in Side /\ Svr \in Side
    BY DEF Side
  <2>4. c.fd[Svr] => c.status[Cli] = "DATA_RELAY"
    BY <1>3, <2>3 DEF Settled, Begun
  <2>5. c.status[Cli] = "DATA_RELAY" => c.fd[Cli] /\ c.fd[Svr]
    BY <1>3, <2>3 DEF Kept
  <2> QED
    BY <1>3, <2>1, <2>2, <2>4, <2>5
<1> QED
  BY <1>1, <1>2, <1>3

\* What was handed over of one side, if the bytes of the slot are sound.
LEMMA InOrderSlot ==
    ASSUME NEW d, SlotOK(d), d.flag, Kept(d), NEW n,
           \A x \in Side : n[x] \in Seq(Byte),
           \A x \in Side : d.fd[Other(x)] => Through(d, x) = n[x]
    PROVE  /\ InOrderNow(d, n)
           /\ \A x \in Side : d.fd[Other(x)] /\ d.data[x] # <<>> =>
                                Delivered(d, x) # n[x]
<1> SUFFICES ASSUME NEW x \in Side
             PROVE  /\ StartOf(Delivered(d, x), n[x])
                    /\ d.fd[Other(x)] /\ d.data[x] # <<>> =>
                         Delivered(d, x) # n[x]
  BY DEF InOrderNow
<1>1. Other(x) \in Side /\ d \in SlotType
  BY OtherSide DEF SlotOK
<1>2. Delivered(d, x) \in Seq(Byte) /\ d.data[x] \in Seq(Byte)
  BY <1>1, ThroughType DEF Delivered
<1>3. CASE ~d.fd[Other(x)]
  <2>1. Delivered(d, x) = <<>>
    BY <1>1, <1>3 DEF Kept, Delivered
  <2>2. n[x] \in Seq(Byte)
    OBVIOUS
  <2>3. <<>> \in Seq(Byte) /\ <<>> \o n[x] = n[x]
    BY <2>2, EmptySeq, ConcatEmptySeq
  <2>4. StartOf(<<>>, <<>> \o n[x])
    BY <2>2, <2>3, PrefixConcat
  <2> QED
    BY <1>3, <2>1, <2>3, <2>4
<1>4. CASE d.fd[Other(x)]
  <2>1. n[x] = Delivered(d, x) \o d.data[x]
    BY <1>4 DEF Through, Delivered
  <2> DEFINE t == Delivered(d, x)
             u == d.data[x]
  <2>2. t \in Seq(Byte) /\ u \in Seq(Byte) /\ n[x] = t \o u
    BY <1>2, <2>1
  <2> HIDE DEF t, u
  <2>3. StartOf(t, n[x])
    BY <2>2, PrefixConcat
  <2>4. u # <<>> => t # n[x]
    <3>1. Len(t) \in Nat /\ Len(u) \in Nat /\ Len(t \o u) = Len(t) + Len(u)
      BY <2>2, LenProperties, ConcatProperties
    <3>2. u # <<>> => Len(u) # 0
      BY <2>2, EmptySeq
    <3> QED
      BY <2>2, <3>1, <3>2
  <2> QED
    BY <2>3, <2>4 DEF t, u
<1> QED
  BY <1>3, <1>4

\* A step from one settled slot in use to another.
LEMMA SessionMoves ==
    ASSUME NEW c, SlotOK(c), c.flag, Settled(c), Kept(c),
           NEW d, SlotOK(d), d.flag, Settled(d), Kept(d), NEW m, NEW n,
           \A x \in Side : n[x] \in Seq(Byte) /\ StartOf(m[x], n[x]),
           \A x \in Side : d.fd[Other(x)] => Through(d, x) = n[x],
           \A x \in Side : d.fd[x] => StartOf(c.sock[x].out, d.sock[x].out),
           Phase(c) = "waiting" => d.status[Cli] \in {"DATA_RELAY", "CLOSE"},
           Phase(c) # "waiting" =>
             /\ d.status[Cli] \in {c.status[Cli], "CLOSE"}
             /\ \A x \in Side : d.fd[x] => c.fd[x]
             /\ \A x \in Side : ~c.fd[x] => n[x] = m[x]
    PROVE  \/ Relayed(c, d, m, n)
           \/ \E x \in Side : HalfClosed(c, d, m, n, x)
           \/ Flushed(c, d, m, n)
<1>1. Cli \in Side /\ Svr \in Side
  BY DEF Side
<1>2. /\ InOrderNow(d, n)
      /\ \A x \in Side : d.fd[Other(x)] /\ d.data[x] # <<>> =>
                           Delivered(d, x) # n[x]
  BY InOrderSlot
<1>3. \A x \in Side : d.fd[Other(x)] =>
                        StartOf(Delivered(c, x), Delivered(d, x))
  BY OtherSide DEF Delivered
<1>4. ASSUME NEW x \in Side, NEW y \in Side \ {x}, ~d.fd[x]
      PROVE  Delivered(d, y) = <<>>
  <2>1. Other(y) = x
    BY DEF Side, Other, Cli, Svr
  <2> QED
    BY <1>4, <2>1 DEF Delivered, Kept
<1>5. CASE Phase(c) \in {"waiting", "relaying"}
  <2>1. ClosedSide(c) = "nobody"
    BY <1>5, PhaseOfSettled
  <2>2. d.status[Cli] \in {"DATA_RELAY", "CLOSE"}
    <3>1. Phase(c) = "relaying" => c.status[Cli] = "DATA_RELAY"
      BY PhaseOfSettled
    <3> QED
      BY <1>5, <3>1
  <2>3. CASE \E x \in Side : d.status[x] = "CLOSE"
    <3>1. PICK x \in Side : d.status[x] = "CLOSE"
      BY <2>3
    <3>2. Phase(d) = "flushing" /\ ClosedSide(d) = x
      BY <3>1, PhaseOfSettled
    <3>3. ~d.fd[x] /\ d.fd[Other(x)] /\ d.data[x] # <<>>
      BY <3>2, PhaseOfSettled
    <3> QED
      BY <1>2, <1>3, <1>4, <1>5, <3>2, <3>3 DEF HalfClosed
  <2>4. CASE ~\E x \in Side : d.status[x] = "CLOSE"
    <3>1. d.status[Cli] = "DATA_RELAY"
      BY <1>1, <2>2, <2>4
    <3>2. \A x \in Side : d.fd[x]
      BY <2>4, <3>1 DEF Kept
    <3>3. Phase(d) = "relaying"
      BY <1>1, <2>4, <3>2 DEF Phase
    <3>4. ClosedSide(d) = "nobody"
      BY <2>4 DEF ClosedSide
    <3> QED
      BY <1>2, <1>3, <1>5, <2>1, <3>2, <3>3, <3>4, OtherSide DEF Relayed
  <2> QED
    BY <2>3, <2>4
<1>6. CASE Phase(c) = "flushing"
  <2> DEFINE x == ClosedSide(c)
  <2>1. /\ x \in Side /\ c.status[x] = "CLOSE" /\ ~c.fd[x] /\ c.fd[Other(x)]
    BY <1>6, PhaseOfSettled
  <2> HIDE DEF x
  <2>2. ~d.fd[x] /\ n[x] = m[x]
    BY <1>6, <2>1
  <2>3. d.status[Cli] \in {c.status[Cli], "CLOSE"}
    BY <1>6
  <2>4. d.status[x] = "CLOSE"
    <3>1. CASE x = Cli
      BY <2>1, <2>3, <3>1
    <3>2. CASE x = Svr
      <4>1. c.status[Cli] \in {"DATA_RELAY", "CLOSE"}
        BY <2>1, <3>2 DEF Settled, Begun
      <4>2. c.status[Cli] # "CLOSE"
        <5>1. Other(x) = Cli
          BY <3>2 DEF Other, Cli, Svr
        <5>2. c.fd[Cli]
          BY <2>1, <5>1
        <5> QED
          BY <1>1, <5>2 DEF Settled, Flushes
      <4>3. d.status[Cli] # "CLOSE"
        <5>1. Other(Cli) = Svr
          BY DEF Other, Cli, Svr
        <5> QED
          BY <1>1, <2>2, <3>2, <5>1 DEF Settled, Flushes
      <4>4. d.status[Cli] = "DATA_RELAY"
        BY <2>3, <4>1, <4>2, <4>3
      <4> QED
        BY <1>1, <2>2, <3>2, <4>4 DEF Kept
    <3> QED
      BY <2>1, <3>1, <3>2 DEF Side
  <2>5. Phase(d) = "flushing" /\ ClosedSide(d) = x
    BY <2>1, <2>4, PhaseOfSettled
  <2>6. d.fd[Other(x)] /\ d.data[x] # <<>>
    BY <2>5, PhaseOfSettled
  <2> QED
    BY <1>2, <1>3, <1>4, <1>6, <2>1, <2>2, <2>5, <2>6 DEF Flushed, x
<1> QED
  BY <1>5, <1>6 DEF Phase

\* A slot handed out and registered, or refused.
LEMMA AcceptedKept ==
    ASSUME NEW c, Fresh(c), c.data = [x \in Side |-> <<>>],
           c.taken = [x \in Side |-> 0],
           c.status = [x \in Side |-> "INIT"],
           \A x \in Side : c.sock[x].out = <<>> /\ c.gave[x] = <<>>
    PROVE  /\ Kept(Accepted(c)) /\ Phase(Accepted(c)) = "waiting"
           /\ \A x \in Side : Accepted(c).sock[x].out = <<>>
           /\ Kept(FreeSession([c EXCEPT
                !.fd[Cli] = TRUE, !.sock[Cli] = NewSocket("est")]))
<1> DEFINE new == NewSocket("est")
           opened == [c EXCEPT !.fd[Cli] = TRUE, !.sock[Cli] = new]
           d == Accepted(c)
<1>1. Cli \in Side /\ Svr \in Side /\ Cli # Svr /\ c \in SlotType /\ c.flag
  BY DEF Side, Cli, Svr, Fresh
<1>2. new \in SocketType /\ new.out = <<>>
  BY NewSocketType DEF NewSocket, NoSocket
<1>3. /\ d.flag /\ d.fd[Cli] /\ ~d.fd[Svr] /\ d.status = c.status
      /\ d.sock = [c.sock EXCEPT ![Cli] = new] /\ d.gave = c.gave
  BY <1>1 DEF Accepted, EpollAdd, SlotType, Fresh
<1>4. opened \in SlotType /\ opened.flag /\ opened.sock = [c.sock EXCEPT ![Cli] = new]
  <2> HIDE DEF new
  <2> QED
    BY <1>1, <1>2 DEF SlotType
<1> HIDE DEF new, d, opened
<1>5. \A x \in Side : [c.sock EXCEPT ![Cli] = new][x].out = <<>>
  BY <1>1, <1>2 DEF SlotType
<1>6. Kept(d) /\ Phase(d) = "waiting"
  BY <1>1, <1>3, <1>5 DEF Kept, Phase
<1>7. Kept(FreeSession(opened))
  BY <1>4, <1>5, FreeSessionKept, ZenonT(30)
<1> QED
  BY <1>3, <1>5, <1>6, <1>7, SMTT(30) DEF d, opened, new

\* The peers take nothing back of what their sockets were given.
LEMMA PeerKeepsOut ==
    ASSUME Inv, PeerStep, NEW s \in Slot, NEW x \in Side
    PROVE  conn'[s].sock[x].out = conn[s].sock[x].out
<1>1. PICK t \in Slot, y \in Side :
        \/ PeerSends(t, y)
        \/ PeerShutsDown(t, y)
        \/ PeerResets(t, y)
        \/ PeerReceives(t, y)
        \/ HandshakeDone(t, y)
  BY DEF PeerStep
<1>2. conn \in [Slot -> SlotType] /\ conn[t] \in SlotType
  BY DEF Inv, TypeOK
<1> DEFINE k == conn[t].sock[y]
<1>3. k \in SocketType
  BY <1>2 DEF SlotType
<1>4. ASSUME NEW l, conn' = [conn EXCEPT ![t].sock[y] = l], l.out = k.out
      PROVE  conn'[s].sock[x].out = conn[s].sock[x].out
  <2>1. CASE t # s
    BY <1>2, <1>4, <2>1
  <2>2. CASE t = s
    <3> HIDE DEF k
    <3>1. conn'[s] = [conn[s] EXCEPT !.sock[y] = l]
      BY <1>2, <1>4, <2>2
    <3>2. conn'[s].sock = [conn[s].sock EXCEPT ![y] = l]
          /\ conn[s].sock \in [Side -> SocketType]
      BY <1>2, <2>2, <3>1 DEF SlotType
    <3> QED
      BY <1>4, <2>2, <3>2 DEF k
  <2> QED
    BY <2>1, <2>2
<1>5. CASE PeerSends(t, y)
  <2> DEFINE l == [k EXCEPT !.rx = Append(k.rx, PeerBytes(conn[t], y)[k.sent + 1]),
                            !.sent = k.sent + 1]
  <2>1. conn' = [conn EXCEPT ![t].sock[y] = l]
    BY <1>5 DEF PeerSends
  <2>2. l.out = k.out
    BY <1>3 DEF SocketType
  <2> QED
    BY <1>4, <2>1, <2>2
<1>6. CASE PeerShutsDown(t, y)
  <2> DEFINE l == [k EXCEPT !.fin = TRUE]
  <2>1. conn' = [conn EXCEPT ![t].sock[y] = l]
    BY <1>2, <1>6 DEF PeerShutsDown
  <2>2. l.out = k.out
    BY <1>3 DEF SocketType
  <2> QED
    BY <1>4, <2>1, <2>2
<1>7. CASE PeerResets(t, y)
  <2> DEFINE l == [k EXCEPT !.rst = TRUE]
  <2>1. conn' = [conn EXCEPT ![t].sock[y] = l]
    BY <1>2, <1>7 DEF PeerResets
  <2>2. l.out = k.out
    BY <1>3 DEF SocketType
  <2> QED
    BY <1>4, <2>1, <2>2
<1>8. CASE PeerReceives(t, y)
  <2> PICK n \in k.room + 1 .. SndBuf :
             conn' = [conn EXCEPT ![t].sock[y].room = n]
    BY <1>8 DEF PeerReceives
  <2> DEFINE l == [k EXCEPT !.room = n]
  <2>1. conn' = [conn EXCEPT ![t].sock[y] = l]
    BY <1>2
  <2>2. l.out = k.out
    BY <1>3 DEF SocketType
  <2> QED
    BY <1>4, <2>1, <2>2
<1>9. CASE HandshakeDone(t, y)
  <2> DEFINE l == [k EXCEPT !.st = "est"]
  <2>1. conn' = [conn EXCEPT ![t].sock[y] = l]
    BY <1>2, <1>9 DEF HandshakeDone
  <2>2. l.out = k.out
    BY <1>3 DEF SocketType
  <2> QED
    BY <1>4, <2>1, <2>2
<1> QED
  BY <1>1, <1>5, <1>6, <1>7, <1>8, <1>9

-----------------------------------------------------------------------------
(* What an event shows of itself outside: which bytes the sockets are given *)
(* and which sockets are opened.  The other programs and the peers see      *)
(* nothing else of it.                                                      *)

\* Socket k has become l, given the bytes w and, perhaps, read of.
Given(k, l, w) ==
    /\ l.st = k.st /\ l.fin = k.fin /\ l.rst = k.rst /\ l.sent = k.sent
    /\ l.out = k.out \o w /\ l.room = k.room - Len(w)

\* A socket that was opened and given nothing.
Opened(l) == l.st # "none" /\ Given(NewSocket(l.st), l, <<>>)

\* What has been read of side x and what can still be read of it.
Pending(c, x) == c.taken[x] + (IF c.fd[x] THEN Len(c.sock[x].rx) ELSE 0)

\* From slot c to slot d, the sockets still open were given w, and no more
\* than what the sockets held was read of them.
Gives(c, d, w) ==
    d.flag =>
        /\ d.req = c.req
        /\ \A x \in Side :
             /\ Pending(d, x) <= Pending(c, x)
             /\ d.fd[x] => c.fd[x] /\ Given(c.sock[x], d.sock[x], w[x])

\* The same of a whole event, which may also open the far socket.
Handled(c, d, w) ==
    d.flag =>
        /\ d.req = c.req
        /\ \A x \in Side :
             /\ Pending(d, x) <= Pending(c, x)
             /\ d.fd[x] =>
                  \/ c.fd[x] /\ Given(c.sock[x], d.sock[x], w[x])
                  \/ /\ ~c.fd[x] /\ x = Svr /\ w[x] = <<>>
                     /\ Opened(d.sock[x])

GivesNothing == [x \in Side |-> <<>>]
GivesOnly(x, bytes) == [y \in Side |-> IF y = x THEN bytes ELSE <<>>]

\* What there is to read is a number.
LEMMA PendingNat ==
    ASSUME NEW c \in SlotType, NEW x \in Side
    PROVE  Pending(c, x) \in Nat /\ c.taken[x] <= Pending(c, x)
<1>1. c.taken[x] \in Nat /\ Len(c.sock[x].rx) \in Nat
  BY ThroughType, LenProperties
<1> QED
  BY <1>1 DEF Pending

\* A socket that was given nothing.
LEMMA SameGiven ==
    ASSUME NEW k \in SocketType
    PROVE  Given(k, k, <<>>)
<1>1. k.out \in Seq(Byte) /\ k.room \in Nat
  BY SessionAssumption DEF BuffersOK, SocketType
<1>2. k.out \o <<>> = k.out /\ Len(<<>>) = 0
  BY <1>1, ConcatEmptySeq, EmptySeq
<1> QED
  BY <1>1, <1>2 DEF Given

\* First nothing and then w, or first w and then nothing, is w.
LEMMA GivenTwice ==
    ASSUME NEW k \in SocketType, NEW l, NEW m, NEW v, NEW w \in Seq(Byte),
           Given(k, l, v), Given(l, m, w), v = <<>>
    PROVE  Given(k, m, w)
<1>1. k.out \in Seq(Byte) /\ k.room \in Nat /\ Len(w) \in Nat
  BY SessionAssumption, LenProperties DEF BuffersOK, SocketType
<1>2. k.out \o <<>> = k.out /\ Len(<<>>) = 0
  BY <1>1, ConcatEmptySeq, EmptySeq
<1>3. l.out = k.out /\ l.room = k.room
  BY <1>1, <1>2 DEF Given
<1> QED
  BY <1>3 DEF Given

LEMMA GivenThenNothing ==
    ASSUME NEW k \in SocketType, NEW l, NEW m, NEW v \in Seq(Byte), NEW w,
           Given(k, l, v), Given(l, m, w), w = <<>>
    PROVE  Given(k, m, v)
<1>1. /\ k.out \in Seq(Byte) /\ k.room \in Nat /\ Len(v) \in Nat
      /\ k.out \o v \in Seq(Byte)
  BY SessionAssumption, LenProperties, ConcatProperties
     DEF BuffersOK, SocketType
<1>2. (k.out \o v) \o <<>> = k.out \o v /\ Len(<<>>) = 0
  BY <1>1, ConcatEmptySeq, EmptySeq
<1>3. m.out = k.out \o v
  BY <1>2 DEF Given
<1>4. m.room = k.room - Len(v)
  <2>1. l.room = k.room - Len(v) /\ m.room = l.room - 0
    BY <1>2 DEF Given
  <2> QED
    BY <1>1, <2>1
<1> QED
  BY <1>3, <1>4 DEF Given

\* A step that leaves the sockets alone or closes them.
LEMMA SameGives ==
    ASSUME NEW c \in SlotType, NEW d \in SlotType,
           d.req = c.req, d.taken = c.taken,
           \A x \in Side : d.fd[x] => c.fd[x] /\ d.sock[x] = c.sock[x]
    PROVE  Gives(c, d, GivesNothing)
<1> SUFFICES ASSUME NEW x \in Side
             PROVE  /\ Pending(d, x) <= Pending(c, x)
                    /\ d.fd[x] => Given(c.sock[x], d.sock[x], GivesNothing[x])
  BY DEF Gives
<1>1. c.taken[x] \in Nat /\ Len(c.sock[x].rx) \in Nat /\ c.sock[x] \in SocketType
  BY ThroughType, LenProperties DEF SlotType
<1>2. Pending(d, x) <= Pending(c, x)
  BY <1>1 DEF Pending
<1>3. d.fd[x] => Given(c.sock[x], d.sock[x], <<>>)
  BY <1>1, SameGiven
<1> QED
  BY <1>2, <1>3 DEF GivesNothing

\* Two steps in turn one of which gives nothing.
LEMMA GivesTwice ==
    ASSUME NEW c \in SlotType, NEW d \in SlotType, NEW e \in SlotType,
           d.flag, NEW w, \A x \in Side : w[x] \in Seq(Byte),
           \/ Gives(c, d, GivesNothing) /\ Gives(d, e, w)
           \/ Gives(c, d, w) /\ Gives(d, e, GivesNothing)
    PROVE  Gives(c, e, w)
<1> SUFFICES ASSUME e.flag, NEW x \in Side
             PROVE  /\ e.req = c.req /\ Pending(e, x) <= Pending(c, x)
                    /\ e.fd[x] => c.fd[x] /\ Given(c.sock[x], e.sock[x], w[x])
  BY DEF Gives
<1> DEFINE k == c.sock[x]
           l == d.sock[x]
           m == e.sock[x]
<1>1. k \in SocketType /\ w[x] \in Seq(Byte) /\ GivesNothing[x] = <<>>
  BY DEF SlotType, GivesNothing
<1>2. /\ Pending(c, x) \in Nat /\ Pending(d, x) \in Nat /\ Pending(e, x) \in Nat
  BY PendingNat
<1>3. e.req = c.req /\ Pending(e, x) <= Pending(c, x)
  <2>1. /\ d.req = c.req /\ e.req = d.req
        /\ Pending(d, x) <= Pending(c, x) /\ Pending(e, x) <= Pending(d, x)
    BY DEF Gives
  <2> QED
    BY <1>2, <2>1
<1>4. ASSUME e.fd[x]
      PROVE  c.fd[x] /\ Given(k, m, w[x])
  <2>1. CASE Gives(c, d, GivesNothing) /\ Gives(d, e, w)
    <3>1. c.fd[x] /\ Given(k, l, <<>>) /\ Given(l, m, w[x])
      BY <1>1, <1>4, <2>1 DEF Gives
    <3> QED
      BY <1>1, <3>1, GivenTwice
  <2>2. CASE Gives(c, d, w) /\ Gives(d, e, GivesNothing)
    <3>1. c.fd[x] /\ Given(k, l, w[x]) /\ Given(l, m, <<>>)
      BY <1>1, <1>4, <2>2 DEF Gives
    <3> QED
      BY <1>1, <3>1, GivenThenNothing
  <2> QED
    BY <2>1, <2>2
<1> QED
  BY <1>3, <1>4

\* What GivesOnly gives are bytes.
LEMMA GivesTypes ==
    /\ \A x \in Side : GivesNothing[x] \in Seq(Byte)
    /\ \A y \in Side : GivesOnly(y, <<>>) = GivesNothing
    /\ \A bytes \in Seq(Byte), y, x \in Side :
         GivesOnly(y, bytes)[x] \in Seq(Byte)
BY EmptySeq DEF GivesNothing, GivesOnly

\* A write gives its socket what it takes from the queue.
LEMMA WrittenGives ==
    ASSUME NEW c, SlotOK(c), c.flag, NEW x \in Side, c.fd[x]
    PROVE  LET bytes == SubSeq(c.data[Other(x)], 1, Writes(c, x)) IN
           bytes \in Seq(Byte) /\ Gives(c, Written(c, x), GivesOnly(x, bytes))
<1> DEFINE o == Other(x)
           n == Writes(c, x)
           d == Written(c, x)
           front == SubSeq(c.data[o], 1, n)
           rest == SubSeq(c.data[o], n + 1, Len(c.data[o]))
<1>1. /\ o \in Side /\ o # x /\ c \in SlotType
      /\ \A y \in Side : y = x \/ y = o
  BY OtherSide DEF SlotOK, Side, Other
<1>2. /\ c.data[o] \in Seq(Byte) /\ c.sock[x] \in SocketType
      /\ n \in Nat /\ n <= Len(c.data[o])
  BY <1>1, WritesBounds
<1>3. front \in Seq(Byte) /\ Len(front) = n
  <2>1. front \in Seq(Byte)
    BY <1>2, Piece
  <2>2. Len(front) = n
    BY <1>2, LenProperties, SubSeqProperties
  <2> QED
    BY <2>1, <2>2
<1> HIDE DEF n
<1>4. d = [c EXCEPT !.data[o] = rest, !.sock[x].out = @ \o front,
                    !.gave[x] = @ \o front, !.sock[x].room = @ - n]
  BY DEF Written, n
<1> HIDE DEF front, rest, d
<1>5. /\ d.req = c.req /\ d.taken = c.taken /\ d.fd = c.fd
      /\ d.sock[o] = c.sock[o]
  BY <1>1, <1>4 DEF SlotType
<1>6. /\ d.sock[x].out = c.sock[x].out \o front
      /\ d.sock[x].room = c.sock[x].room - n
      /\ d.sock[x].rx = c.sock[x].rx /\ d.sock[x].sent = c.sock[x].sent
      /\ d.sock[x].st = c.sock[x].st /\ d.sock[x].fin = c.sock[x].fin
      /\ d.sock[x].rst = c.sock[x].rst
  BY <1>1, <1>2, <1>4 DEF SlotType, SocketType
<1>7. Given(c.sock[x], d.sock[x], front)
  BY <1>3, <1>6 DEF Given
<1>8. Given(c.sock[o], d.sock[o], <<>>)
  BY <1>1, <1>5, SameGiven DEF SlotType
<1>9. \A y \in Side : Pending(d, y) = Pending(c, y)
  BY <1>1, <1>5, <1>6 DEF Pending
<1>10. \A y \in Side : Pending(c, y) \in Nat
  BY <1>1, PendingNat
<1>11. Gives(c, d, GivesOnly(x, front))
  <2> SUFFICES ASSUME NEW y \in Side
               PROVE  /\ Pending(d, y) <= Pending(c, y)
                      /\ d.fd[y] => c.fd[y]
                      /\ Given(c.sock[y], d.sock[y], GivesOnly(x, front)[y])
    BY <1>5 DEF Gives
  <2>1. Pending(d, y) <= Pending(c, y)
    BY <1>9, <1>10
  <2>2. CASE y = x
    BY <1>5, <1>7, <2>1, <2>2 DEF GivesOnly
  <2>3. CASE y = o
    BY <1>1, <1>5, <1>8, <2>1, <2>3 DEF GivesOnly
  <2> QED
    BY <1>1, <2>2, <2>3
<1> QED
  BY <1>3, <1>11 DEF front, d, n

\* A read gives nothing.
LEMMA FilledGives ==
    ASSUME NEW c, SlotOK(c), c.flag, NEW x \in Side, c.fd[x]
    PROVE  Gives(c, Filled(c, x), GivesNothing)
<1> DEFINE o == Other(x)
           rx == c.sock[x].rx
           n == Reads(c, x)
           d == Filled(c, x)
           rest == SubSeq(rx, n + 1, Len(rx))
           more == c.data[x] \o Translate(x, SubSeq(rx, 1, n))
<1>1. /\ o \in Side /\ o # x /\ c \in SlotType
      /\ \A y \in Side : y = x \/ y = o
  BY OtherSide DEF SlotOK, Side, Other
<1>2. /\ rx \in Seq(Byte) /\ c.taken[x] \in Nat /\ c.sock[x] \in SocketType
      /\ n \in Nat /\ n <= Len(rx) /\ Len(rx) \in Nat
  BY <1>1, ReadsBounds, LenProperties
<1>3. Len(rest) = Len(rx) - n
  BY <1>2, Pieces
<1> HIDE DEF n
<1>4. d = [c EXCEPT !.data[x] = more, !.taken[x] = @ + n, !.sock[x].rx = rest]
  BY <1>1 DEF Filled, n, SlotType
<1> HIDE DEF rest, more, rx, d
<1>5. /\ d.req = c.req /\ d.fd = c.fd /\ d.sock[o] = c.sock[o]
      /\ d.taken[x] = c.taken[x] + n /\ d.taken[o] = c.taken[o]
  BY <1>1, <1>4 DEF SlotType
<1>6. /\ d.sock[x].rx = rest
      /\ d.sock[x].out = c.sock[x].out /\ d.sock[x].room = c.sock[x].room
      /\ d.sock[x].sent = c.sock[x].sent /\ d.sock[x].st = c.sock[x].st
      /\ d.sock[x].fin = c.sock[x].fin /\ d.sock[x].rst = c.sock[x].rst
  BY <1>1, <1>2, <1>4 DEF SlotType, SocketType
<1>7. \A y \in Side : c.sock[y] \in SocketType
  BY <1>1 DEF SlotType
<1>8. Given(c.sock[x], d.sock[x], <<>>)
  <2>1. Given(c.sock[x], c.sock[x], <<>>)
    BY <1>7, SameGiven
  <2> QED
    BY <1>6, <2>1 DEF Given
<1>9. Given(c.sock[o], d.sock[o], <<>>)
  BY <1>1, <1>5, <1>7, SameGiven
<1>10. Pending(d, o) = Pending(c, o)
  BY <1>5 DEF Pending
<1>11. Pending(d, x) = Pending(c, x)
  BY <1>2, <1>3, <1>5, <1>6 DEF Pending, rx
<1>12. \A y \in Side : Pending(c, y) \in Nat
  BY <1>1, PendingNat
<1>13. Gives(c, d, GivesNothing)
  <2> SUFFICES ASSUME NEW y \in Side
               PROVE  /\ Pending(d, y) <= Pending(c, y)
                      /\ d.fd[y] => c.fd[y]
                      /\ Given(c.sock[y], d.sock[y], <<>>)
    BY <1>5 DEF Gives, GivesNothing
  <2>1. Pending(d, y) <= Pending(c, y)
    BY <1>1, <1>10, <1>11, <1>12
  <2> QED
    BY <1>1, <1>5, <1>8, <1>9, <2>1
<1> QED
  BY <1>13 DEF d

\* What write() takes: nothing on a socket that was reset.
Handed(c, x) ==
    IF c.sock[x].rst THEN <<>> ELSE SubSeq(c.data[Other(x)], 1, Writes(c, x))
RelayWrites(c, x, events) == IF EPOLLOUT \in events THEN Handed(c, x) ELSE <<>>

LEMMA HandedType ==
    ASSUME NEW c \in SlotType, NEW x \in Side
    PROVE  /\ Handed(c, x) \in Seq(Byte)
           /\ \A events : RelayWrites(c, x, events) \in Seq(Byte)
<1>1. /\ c.data[Other(x)] \in Seq(Byte)
      /\ Writes(c, x) \in Nat /\ Writes(c, x) <= Len(c.data[Other(x)])
  BY WritesBounds
<1>2. SubSeq(c.data[Other(x)], 1, Writes(c, x)) \in Seq(Byte)
  BY <1>1, Piece
<1> QED
  BY <1>2, EmptySeq DEF Handed, RelayWrites

\* The write, whatever becomes of it,
LEMMA WriteSideGives ==
    ASSUME NEW c, SlotOK(c), c.flag, NEW x \in Side, c.fd[x]
    PROVE  Gives(c, WriteSide(c, x).slot, GivesOnly(x, Handed(c, x)))
<1> DEFINE written == Written(c, x)
           bytes == SubSeq(c.data[Other(x)], 1, Writes(c, x))
           r == WriteSide(c, x)
<1>1. SlotOK(written)
  BY WrittenOK
<1>2. Gives(c, written, GivesOnly(x, bytes))
  BY WrittenGives
<1>3. ~FreeSession(c).flag /\ ~FreeSession(written).flag
  BY <1>1, FreeSessionOK
<1>4. r.slot \in {FreeSession(c), FreeSession(written), written}
  BY WriteSideCases DEF Return
<1>5. c.sock[x].rst /\ c.data[Other(x)] # <<>> => r.slot = FreeSession(c)
  BY DEF WriteSide, OnSessionErr, Return
<1>6. c.data[Other(x)] = <<>> => bytes = <<>>
  BY EmptySeq DEF Writes
<1> HIDE DEF written, r, bytes
<1>7. CASE ~r.slot.flag
  BY <1>7 DEF Gives, r
<1>8. CASE r.slot.flag
  <2>1. r.slot = written
    BY <1>3, <1>4, <1>8
  <2>2. bytes = Handed(c, x)
    BY <1>3, <1>5, <1>6, <1>8 DEF Handed, bytes
  <2> QED
    BY <1>2, <2>1, <2>2 DEF r
<1> QED
  BY <1>7, <1>8

\* the read, which gives nothing,
LEMMA ReadSideGives ==
    ASSUME NEW c, SlotOK(c), c.flag, NEW x \in Side, c.fd[x], NEW mem
    PROVE  Gives(c, ReadSide(c, x, mem).slot, GivesNothing)
<1> DEFINE filled == Filled(c, x)
           ended == Ended(c, x)
<1>1. c \in SlotType
  BY DEF SlotOK
<1>2. Gives(c, filled, GivesNothing)
  BY FilledGives
<1>3. Gives(c, c, GivesNothing)
  BY <1>1, SameGives
<1>4. ended \in SlotType
  BY EndedOK DEF SlotOK
<1>5. /\ ended.req = c.req /\ ended.taken = c.taken
      /\ ended.fd = c.fd /\ ended.sock = c.sock
  BY <1>1 DEF Ended, SlotType
<1> HIDE DEF filled, ended
<1>6. Gives(c, ended, GivesNothing)
  BY <1>1, <1>4, <1>5, SameGives
<1>7. ~FreeSession(c).flag
  BY FreeSessionOK
<1>8. ReadSide(c, x, mem).slot \in {filled, FreeSession(c), ended, c}
  BY ReadSideCases DEF Return, filled, ended
<1> QED
  BY <1>2, <1>3, <1>6, <1>7, <1>8 DEF Gives

\* and both in turn.
LEMMA OnDataRelayGives ==
    ASSUME NEW c, SlotOK(c), c.flag, NEW x \in Side, c.fd[x],
           NEW events, NEW mem \in BOOLEAN
    PROVE  Gives(c, OnDataRelay(c, x, events, mem).slot,
                 GivesOnly(x, RelayWrites(c, x, events)))
<1> DEFINE w == IF EPOLLOUT \in events THEN WriteSide(c, x) ELSE Return(0, c)
           d == ReadSide(w.slot, x, mem).slot
           bytes == RelayWrites(c, x, events)
           given == GivesOnly(x, bytes)
<1>1. c \in SlotType /\ bytes \in Seq(Byte)
  BY HandedType DEF SlotOK
<1>2. \A y \in Side : given[y] \in Seq(Byte)
  BY <1>1, GivesTypes
<1>3. SlotOK(w.slot)
  BY <1>1, WriteSideOK DEF Return
<1>4. w.slot.flag => w.slot.fd[x]
  <2>1. CASE EPOLLOUT \in events
    <3>1. w.slot \in {FreeSession(c), FreeSession(Written(c, x)), Written(c, x)}
      BY <2>1, WriteSideCases DEF Return
    <3>2. /\ ~FreeSession(c).flag /\ ~FreeSession(Written(c, x)).flag
          /\ Written(c, x).fd = c.fd
      BY WrittenOK, FreeSessionOK
    <3> QED
      BY <3>1, <3>2
  <2>2. CASE EPOLLOUT \notin events
    BY <2>2 DEF Return
  <2> QED
    BY <2>1, <2>2
<1>5. Gives(c, w.slot, given)
  <2>1. CASE EPOLLOUT \in events
    BY <2>1, WriteSideGives DEF RelayWrites
  <2>2. CASE EPOLLOUT \notin events
    BY <1>1, <2>2, SameGives, GivesTypes DEF RelayWrites, Return
  <2> QED
    BY <2>1, <2>2
<1>6. \/ OnDataRelay(c, x, events, mem) = w
      \/ w.slot.flag /\ OnDataRelay(c, x, events, mem) = ReadSide(w.slot, x, mem)
  BY DEF OnDataRelay
<1> HIDE DEF w, given
<1>7. ASSUME w.slot.flag
      PROVE  Gives(c, d, given)
  <2>1. w.slot \in SlotType /\ w.slot.fd[x]
    BY <1>3, <1>4, <1>7 DEF SlotOK
  <2>2. Gives(w.slot, d, GivesNothing) /\ d \in SlotType
    BY <1>3, <1>7, <2>1, ReadSideGives, ReadSideOK DEF SlotOK
  <2> HIDE DEF d
  <2> QED
    BY <1>1, <1>2, <1>5, <1>7, <2>1, <2>2, GivesTwice
<1> QED
  BY <1>5, <1>6, <1>7 DEF given

\* Closing a side gives nothing,
LEMMA CloseSideGives ==
    ASSUME NEW c, SlotOK(c), c.flag, NEW x \in Side
    PROVE  Gives(c, CloseSide(c, x), GivesNothing)
<1> DEFINE o == Other(x)
           emptied == [c EXCEPT !.data[o] = <<>>]
           shut == IF c.fd[x] THEN CloseFd(emptied, x) ELSE c
           kept == EpollMod(shut, o, {EPOLLOUT}, Svr)
<1>1. /\ o \in Side /\ o # x /\ c \in SlotType /\ Svr \in Side
      /\ \A y \in Side : y = x \/ y = o
  BY OtherSide DEF SlotOK, Side, Other
<1>2. /\ emptied \in SlotType /\ emptied.fd = c.fd /\ emptied.sock = c.sock
      /\ emptied.reg = c.reg /\ emptied.taken = c.taken /\ emptied.req = c.req
  BY <1>1, EmptySeq DEF SlotType
<1> HIDE DEF emptied
<1>3. /\ shut \in SlotType /\ ~shut.fd[x] /\ (shut.fd[o] <=> c.fd[o])
      /\ shut.sock[o] = c.sock[o] /\ shut.reg[o] = c.reg[o]
      /\ shut.taken = c.taken /\ shut.req = c.req
  <2>1. CASE c.fd[x]
    <3>1. /\ shut \in SlotType
          /\ \A y \in Side :
               /\ shut.fd[y] <=> emptied.fd[y] /\ y # x
               /\ shut.sock[y] = IF y = x THEN NoSocket ELSE emptied.sock[y]
               /\ shut.reg[y] = IF y = x THEN NoRegistration ELSE emptied.reg[y]
          /\ shut.taken = emptied.taken /\ shut.req = emptied.req
      BY <1>2, <2>1, CloseFdProperties
    <3> HIDE DEF shut
    <3> QED
      BY <1>1, <1>2, <3>1
  <2>2. CASE ~c.fd[x]
    BY <1>1, <2>2
  <2> QED
    BY <2>1, <2>2
<1>4. c.fd[o] => c.reg[o].on
  BY <1>1 DEF SlotOK, SlotHoldsWhatItOwns
<1>5. CloseSide(c, x) = IF shut.fd[o] /\ shut.data[x] # <<>>
                        THEN kept ELSE FreeSession(shut)
  BY DEF CloseSide, emptied
<1>6. SlotOK(CloseSide(c, x))
  BY CloseSideOK
<1> HIDE DEF shut
<1>7. CASE shut.fd[o] /\ shut.data[x] # <<>>
  <2>1. shut \in SlotType /\ shut.reg[o].on
    BY <1>3, <1>4, <1>7
  <2>2. /\ kept.req = shut.req /\ kept.taken = shut.taken
        /\ kept.fd = shut.fd /\ kept.sock = shut.sock
    BY <1>1, <2>1, EpollModKeeps
  <2>3. kept \in SlotType /\ CloseSide(c, x) = kept
    BY <1>5, <1>6, <1>7 DEF SlotOK
  <2> HIDE DEF kept
  <2>4. \A y \in Side : kept.fd[y] => c.fd[y] /\ kept.sock[y] = c.sock[y]
    BY <1>1, <1>3, <2>2
  <2>5. Gives(c, kept, GivesNothing)
    BY <1>1, <1>3, <2>2, <2>3, <2>4, SameGives
  <2> QED
    BY <2>3, <2>5
<1>8. CASE ~(shut.fd[o] /\ shut.data[x] # <<>>)
  <2>1. CloseSide(c, x) = FreeSession(shut)
    BY <1>5, <1>8
  <2>2. ~FreeSession(shut).flag
    BY <1>6, <2>1 DEF SlotOK, FreeSession, SlotType
  <2> QED
    BY <2>1, <2>2 DEF Gives
<1> QED
  BY <1>7, <1>8

\* nor does the rest of the tail of an event.
LEMMA FinishGives ==
    ASSUME NEW r, SlotOK(r.slot), NEW x
    PROVE  Gives(r.slot, Finish(r, x), GivesNothing)
<1>1. CASE ~r.slot.flag
  BY <1>1 DEF Finish, OnSessionClose, EpollSessionMod, Gives
<1>2. CASE r.slot.flag
  <2>1. \/ Finish(r, x) \in {r.slot, EpollSessionMod(r.slot)}
        \/ /\ r.slot.event_fd \in Side
           /\ Finish(r, x) = CloseSide(r.slot, r.slot.event_fd)
    BY DEF Finish, OnSessionClose
  <2>2. Gives(r.slot, r.slot, GivesNothing)
    BY SameGives DEF SlotOK
  <2>3. Gives(r.slot, EpollSessionMod(r.slot), GivesNothing)
    <3> DEFINE c == r.slot
               d == EpollSessionMod(c)
    <3>1. c \in SlotType /\ d \in SlotType
      BY EpollSessionModOK DEF SlotOK
    <3>2. /\ d.req = c.req /\ d.taken = c.taken /\ d.fd = c.fd /\ d.sock = c.sock
      BY <1>2, EpollSessionModKeeps
    <3> HIDE DEF d
    <3> QED
      BY <3>1, <3>2, SameGives DEF d
  <2>4. \A y \in Side : Gives(r.slot, CloseSide(r.slot, y), GivesNothing)
    BY <1>2, CloseSideGives
  <2> QED
    BY <2>1, <2>2, <2>3, <2>4
<1> QED
  BY <1>1, <1>2

\* Relaying for an open side, and what follows it, gives this side what the
\* write takes and nothing else.
LEMMA RelayGives ==
    ASSUME NEW c, SlotOK(c), c.flag, NEW x \in Side, c.fd[x],
           NEW events, NEW mem \in BOOLEAN
    PROVE  Gives(c, Finish(OnDataRelay(c, x, events, mem), x),
                 GivesOnly(x, RelayWrites(c, x, events)))
<1> DEFINE r == OnDataRelay(c, x, events, mem)
           d == Finish(r, x)
           given == GivesOnly(x, RelayWrites(c, x, events))
<1>1. SlotOK(r.slot) /\ Gives(c, r.slot, given)
  BY OnDataRelayOK, OnDataRelayGives
<1>2. \A y \in Side : given[y] \in Seq(Byte)
  <2>1. RelayWrites(c, x, events) \in Seq(Byte)
    BY HandedType DEF SlotOK
  <2> QED
    BY <2>1, GivesTypes
<1> HIDE DEF r
<1>3. Gives(r.slot, d, GivesNothing) /\ SlotOK(d)
  BY <1>1, FinishGives, FinishOK
<1>4. ~r.slot.flag => ~d.flag
  BY DEF Finish, OnSessionClose, EpollSessionMod
<1> HIDE DEF d, given
<1>5. CASE r.slot.flag
  <2>1. c \in SlotType /\ r.slot \in SlotType /\ d \in SlotType
    BY <1>1, <1>3 DEF SlotOK
  <2>2. Gives(c, d, given)
    BY <1>1, <1>2, <1>3, <1>5, <2>1, GivesTwice
  <2> QED
    BY <2>2 DEF d, r, given
<1>6. CASE ~r.slot.flag
  BY <1>4, <1>6 DEF Gives, d, r, given
<1> QED
  BY <1>5, <1>6

\* What the handler of an event writes is what the relay writes, if it comes
\* to relaying.
LEMMA WrittenByRelay ==
    ASSUME NEW c \in SlotType, c.flag, NEW e, e.tag \in Side
    PROVE  /\ WrittenBy(c, e) =
                IF c.status[e.tag] = "DATA_RELAY"
                   \/ (e.tag = Svr /\ c.status[e.tag] = "INIT")
                THEN RelayWrites(c, e.tag, Effective(e.events)) ELSE <<>>
           /\ WrittenBy(c, e) \in Seq(Byte)
<1>1. WrittenBy(c, e) =
        IF c.status[e.tag] = "DATA_RELAY"
           \/ (e.tag = Svr /\ c.status[e.tag] = "INIT")
        THEN RelayWrites(c, e.tag, Effective(e.events)) ELSE <<>>
  BY DEF WrittenBy, RelayWrites, Handed, Writes, AtMost
<1>2. RelayWrites(c, e.tag, Effective(e.events)) \in Seq(Byte)
  BY HandedType
<1> QED
  BY <1>1, <1>2, EmptySeq

\* A step that opens nothing.
LEMMA GivesHandled ==
    ASSUME NEW c, NEW d, NEW w, Gives(c, d, w)
    PROVE  Handled(c, d, w)
BY DEF Gives, Handled

\* An event of the far side.
LEMMA SvrEventGives ==
    ASSUME NEW c, SlotOK(c), c.flag, NEW e, e.tag = Svr, NEW mem \in BOOLEAN,
           c.fd[Svr] \/ c.status[Svr] = "CLOSE"
    PROVE  Gives(c, SvrEvent(c, e.events, mem), GivesOnly(Svr, WrittenBy(c, e)))
<1> DEFINE events == e.events
           a == [c EXCEPT !.event_fd = Svr]
           up == [a EXCEPT !.status[Svr] = IF @ = "INIT" THEN "DATA_RELAY" ELSE @]
           r == OnDataRelay(up, Svr, Effective(events), mem)
           d == SvrEvent(c, events, mem)
           bytes == WrittenBy(c, e)
           given == GivesOnly(Svr, bytes)
<1>1. Svr \in Side /\ Cli \in Side /\ Svr # Cli
  BY DEF Side, Cli, Svr
<1>2. c \in SlotType
  BY DEF SlotOK
<1>3. SlotOK(a) /\ a.flag
  BY <1>1 DEF SlotOK, SlotType, SlotHoldsWhatItOwns
<1>4. SlotOK(up) /\ up.flag
  BY <1>1 DEF SlotOK, SlotType, Status, SlotHoldsWhatItOwns
<1>5. /\ up.req = c.req /\ up.taken = c.taken
      /\ c.status[Svr] # "INIT" => up.status[Svr] = c.status[Svr]
      /\ c.status[Svr] = "INIT" => up.status[Svr] = "DATA_RELAY"
      /\ up.fd = c.fd /\ up.sock = c.sock /\ up.data = c.data
  BY <1>1, <1>2 DEF SlotType
<1>6. \/ d = FreeSession(a)
      \/ up.status[Svr] # "DATA_RELAY" /\ d = Finish(Return(0, up), Svr)
      \/ up.status[Svr] = "DATA_RELAY" /\ d = Finish(r, Svr)
  BY DEF SvrEvent, OnSessionErr
<1>7. ~FreeSession(a).flag
  BY <1>3, FreeSessionOK
<1> HIDE DEF a, up
<1>8. up \in SlotType
  BY <1>4 DEF SlotOK
<1>9. Gives(c, up, GivesNothing)
  BY <1>2, <1>5, <1>8, SameGives
<1>10. bytes \in Seq(Byte) /\ bytes =
        IF up.status[Svr] = "DATA_RELAY"
        THEN RelayWrites(up, Svr, Effective(events)) ELSE <<>>
  <2>1. RelayWrites(up, Svr, Effective(events)) = RelayWrites(c, Svr, Effective(events))
    BY <1>5 DEF RelayWrites, Handed, Writes
  <2>2. /\ WrittenBy(c, e) =
             IF c.status[Svr] = "DATA_RELAY" \/ c.status[Svr] = "INIT"
             THEN RelayWrites(c, Svr, Effective(events)) ELSE <<>>
        /\ WrittenBy(c, e) \in Seq(Byte)
    BY <1>1, <1>2, WrittenByRelay
  <2> QED
    BY <1>5, <2>1, <2>2
<1>11. \A y \in Side : given[y] \in Seq(Byte)
  BY <1>1, <1>10, GivesTypes
<1> HIDE DEF bytes
<1>12. CASE up.status[Svr] # "DATA_RELAY" /\ d = Finish(Return(0, up), Svr)
  <2> DEFINE f == Finish(Return(0, up), Svr)
  <2>1. Gives(up, f, GivesNothing) /\ SlotOK(f)
    BY <1>4, FinishGives, FinishOK DEF Return
  <2>2. given = GivesNothing
    BY <1>1, <1>10, <1>12, GivesTypes
  <2> HIDE DEF f, given
  <2>3. f \in SlotType
    BY <2>1 DEF SlotOK
  <2>4. Gives(c, f, given)
    BY <1>2, <1>4, <1>8, <1>9, <1>11, <2>1, <2>2, <2>3, GivesTwice
  <2> QED
    BY <1>12, <2>4 DEF f, given, bytes
<1>13. CASE up.status[Svr] = "DATA_RELAY" /\ d = Finish(r, Svr)
  <2> DEFINE f == Finish(r, Svr)
  <2>1. up.fd[Svr]
    BY <1>5, <1>13
  <2>2. Gives(up, f, given)
    BY <1>1, <1>4, <1>10, <1>13, <2>1, RelayGives
  <2>3. SlotOK(f)
    BY <1>1, <1>4, OnDataRelayOK, FinishOK
  <2> HIDE DEF f, given
  <2>4. f \in SlotType
    BY <2>3 DEF SlotOK
  <2>5. Gives(c, f, given)
    BY <1>2, <1>4, <1>8, <1>9, <1>11, <2>2, <2>4, GivesTwice
  <2> QED
    BY <1>13, <2>5 DEF f, given, bytes
<1> QED
  BY <1>6, <1>7, <1>12, <1>13 DEF Gives

\* connect() opens the far socket and gives nothing.
LEMMA ConnectedHandled ==
    ASSUME NEW c, SlotOK(c), c.flag, NEW b, SlotOK(b), b.flag,
           Gives(c, b, GivesNothing), ~c.fd[Svr], ~b.fd[Svr], NEW outcome,
           NEW d, SlotOK(d), NEW w, \A x \in Side : w[x] \in Seq(Byte),
           w[Svr] = <<>>, Gives(Connected(b, outcome), d, w)
    PROVE  Handled(c, d, w)
<1> SUFFICES ASSUME d.flag, NEW x \in Side
             PROVE  /\ d.req = c.req /\ Pending(d, x) <= Pending(c, x)
                    /\ d.fd[x] =>
                         \/ c.fd[x] /\ Given(c.sock[x], d.sock[x], w[x])
                         \/ /\ ~c.fd[x] /\ x = Svr /\ w[x] = <<>>
                            /\ Opened(d.sock[x])
  BY DEF Handled, Side
<1> DEFINE f == Connected(b, outcome)
<1>1. /\ Svr \in Side /\ Cli \in Side /\ Svr # Cli
      /\ \A y \in Side : y = Cli \/ y = Svr
  BY DEF Side, Cli, Svr
<1>2. c \in SlotType /\ b \in SlotType /\ d \in SlotType
  BY DEF SlotOK
<1>3. SlotOK(f) /\ f.flag /\ f.fd = [b.fd EXCEPT ![Svr] = TRUE]
  BY ConnectedOK
<1>4. f \in SlotType
  BY <1>3 DEF SlotOK
<1>5. /\ f.req = b.req /\ f.taken = b.taken /\ f.sock[Cli] = b.sock[Cli]
      /\ \E state \in {"syn", "est"} : f.sock[Svr] = NewSocket(state)
  <2>1. f.req = b.req /\ f.taken = b.taken /\ f.sock[Cli] = b.sock[Cli]
    BY ConnectedOK
  <2>2. f.sock[Svr] = NewSocket(IF outcome = "done" THEN "est" ELSE "syn")
    BY <1>1, <1>2 DEF Connected, SlotType
  <2> QED
    BY <2>1, <2>2
<1>6. Gives(f, d, w)
  OBVIOUS
<1> HIDE DEF f
<1>7. /\ Pending(c, x) \in Nat /\ Pending(b, x) \in Nat /\ Pending(d, x) \in Nat
      /\ Pending(f, x) \in Nat
  BY <1>2, <1>4, PendingNat
<1>8. Pending(f, x) = Pending(b, x)
  <2>1. b.taken[x] \in Nat /\ b.fd \in [Side -> BOOLEAN]
    BY <1>2 DEF SlotType
  <2>2. CASE x = Cli
    BY <1>1, <1>3, <1>5, <2>1, <2>2 DEF Pending
  <2>3. CASE x = Svr
    <3>1. f.sock[Svr].rx = <<>> /\ Len(<<>>) = 0
      BY <1>5, EmptySeq DEF NewSocket, NoSocket
    <3> QED
      BY <1>3, <1>5, <2>1, <2>3, <3>1 DEF Pending
  <2> QED
    BY <1>1, <2>2, <2>3
<1>9. d.req = c.req /\ Pending(d, x) <= Pending(c, x)
  <2>1. /\ b.req = c.req /\ d.req = f.req
        /\ Pending(b, x) <= Pending(c, x) /\ Pending(d, x) <= Pending(f, x)
    BY <1>6 DEF Gives
  <2> QED
    BY <1>5, <1>7, <1>8, <2>1
<1>10. ASSUME d.fd[x]
      PROVE  \/ c.fd[x] /\ Given(c.sock[x], d.sock[x], w[x])
             \/ ~c.fd[x] /\ x = Svr /\ w[x] = <<>> /\ Opened(d.sock[x])
  <2>1. f.fd[x] /\ Given(f.sock[x], d.sock[x], w[x])
    BY <1>10, <1>6 DEF Gives
  <2>2. CASE x = Cli
    <3>1. b.fd[Cli]
      BY <1>1, <1>2, <1>3, <2>1, <2>2 DEF SlotType
    <3>2. c.fd[Cli] /\ Given(c.sock[Cli], b.sock[Cli], <<>>)
      BY <1>1, <3>1 DEF Gives, GivesNothing
    <3>3. c.sock[Cli] \in SocketType
      BY <1>1, <1>2 DEF SlotType
    <3>4. Given(b.sock[Cli], d.sock[Cli], w[Cli])
      BY <1>5, <2>1, <2>2
    <3>5. Given(c.sock[Cli], d.sock[Cli], w[Cli])
      BY <1>1, <3>2, <3>3, <3>4, GivenTwice
    <3> QED
      BY <2>2, <3>2, <3>5
  <2>3. CASE x = Svr
    <3>1. PICK state \in {"syn", "est"} : f.sock[Svr] = NewSocket(state)
      BY <1>5
    <3>2. Given(NewSocket(state), d.sock[Svr], <<>>)
      BY <2>1, <2>3, <3>1
    <3>3. NewSocket(state).st = state /\ state # "none"
      BY DEF NewSocket, NoSocket
    <3>4. d.sock[Svr].st = state
      BY <3>2, <3>3 DEF Given
    <3> QED
      BY <2>3, <3>2, <3>3, <3>4 DEF Opened
  <2> QED
    BY <1>1, <2>2, <2>3
<1> QED
  BY <1>9, <1>10

-----------------------------------------------------------------------------
(* What a side is given, as a part of all that it may ever be given.        *)

\* The bytes of a piece.
LEMMA PieceItems ==
    ASSUME NEW p \in Seq(Byte), NEW a \in Nat, NEW b \in Nat, a <= b,
           b <= Len(p)
    PROVE  \A i \in 1 .. b - a : SubSeq(p, a + 1, b)[i] = p[a + i]
<1>1. Len(p) \in Nat
  BY LenProperties
<1>2. \A i \in a + 1 .. b : p[i] \in Byte
  BY <1>1, ElementOfSeq
<1>3. \A i \in 1 .. b - (a + 1) + 1 : SubSeq(p, a + 1, b)[i] = p[(a + 1) + i - 1]
  BY <1>2, SubSeqProperties
<1> QED
  BY <1>3

\* A part of what was translated is the translation of that part.
LEMMA TranslatePiece ==
    ASSUME NEW x \in Side, NEW p \in Seq(Byte), NEW a \in Nat, NEW b \in Nat,
           a <= b, b <= Len(p)
    PROVE  Translate(x, SubSeq(p, a + 1, b)) = SubSeq(Translate(x, p), a + 1, b)
<1> DEFINE t == Translate(x, p)
           s == SubSeq(p, a + 1, b)
           l == Translate(x, s)
           r == SubSeq(t, a + 1, b)
<1>1. t \in Seq(Byte) /\ Len(t) = Len(p) /\ Len(p) \in Nat
  BY TranslateType, LenProperties
<1>2. s \in Seq(Byte) /\ Len(s) = b - a
  BY Pieces
<1>3. l \in Seq(Byte) /\ Len(l) = b - a
  BY <1>2, TranslateType
<1>4. r \in Seq(Byte) /\ Len(r) = b - a
  BY <1>1, Pieces
<1>5. ASSUME NEW i \in 1 .. b - a
      PROVE  l[i] = r[i]
  <2>1. l[i] = Xlate[x][s[i]]
    <3>1. DOMAIN s = 1 .. b - a
      BY <1>2, LenProperties
    <3> QED
      BY <3>1 DEF Translate
  <2>2. s[i] = p[a + i] /\ r[i] = t[a + i]
    BY <1>1, PieceItems
  <2>3. t[a + i] = Xlate[x][p[a + i]]
    <3>1. DOMAIN p = 1 .. Len(p) /\ a + i \in 1 .. Len(p)
      BY <1>1, LenProperties
    <3> QED
      BY <3>1 DEF Translate
  <2> QED
    BY <2>1, <2>2, <2>3
<1> HIDE DEF l, r
<1>6. l = r
  BY <1>3, <1>4, <1>5, SeqEqual
<1> QED
  BY <1>6 DEF l, r

\* A front, and behind it a part of p, begin the front and all of p.
LEMMA FrontAndPiece ==
    ASSUME NEW f \in Seq(Byte), NEW p \in Seq(Byte), NEW t \in Nat, t <= Len(p)
    PROVE  /\ f \o p \in Seq(Byte) /\ Len(f \o p) = Len(f) + Len(p)
           /\ Len(f \o SubSeq(p, 1, t)) = Len(f) + t
           /\ f \o SubSeq(p, 1, t) = SubSeq(f \o p, 1, Len(f) + t)
<1> DEFINE s == SubSeq(p, 0 + 1, t)
           w == f \o p
           l == f \o s
           n == Len(f) + t
           r == SubSeq(w, 0 + 1, n)
<1>1. Len(f) \in Nat /\ Len(p) \in Nat
  BY LenProperties
<1>2. s \in Seq(Byte) /\ Len(s) = t
  BY Pieces
<1>3. w \in Seq(Byte) /\ Len(w) = Len(f) + Len(p)
  BY ConcatProperties
<1>4. l \in Seq(Byte) /\ Len(l) = n
  BY <1>2, ConcatProperties
<1>5. r \in Seq(Byte) /\ Len(r) = n
  <2>1. n \in Nat /\ n <= Len(w) /\ 0 <= n /\ n - 0 = n
    BY <1>1, <1>3
  <2> HIDE DEF w, n
  <2> QED
    BY <1>3, <2>1, Pieces
<1>6. ASSUME NEW i \in 1 .. n
      PROVE  l[i] = r[i]
  <2>1. r[i] = w[i]
    <3>1. n \in Nat /\ n <= Len(w) /\ 0 <= n /\ i \in 1 .. n - 0 /\ 0 + i = i
      BY <1>1, <1>3
    <3> HIDE DEF w, n
    <3> QED
      BY <1>3, <3>1, PieceItems
  <2>2. CASE i <= Len(f)
    <3>1. l[i] = f[i] /\ w[i] = f[i]
      BY <1>1, <1>2, <2>2, ConcatProperties
    <3> QED
      BY <2>1, <3>1
  <2>3. CASE i > Len(f)
    <3>1. l[i] = s[i - Len(f)] /\ w[i] = p[i - Len(f)]
      BY <1>1, <1>2, <2>3, ConcatProperties
    <3>2. s[i - Len(f)] = p[i - Len(f)]
      <4>1. i - Len(f) \in 1 .. t - 0 /\ 0 + (i - Len(f)) = i - Len(f) /\ 0 <= t
        BY <1>1, <2>3
      <4> QED
        BY <4>1, PieceItems
    <3> QED
      BY <2>1, <3>1, <3>2
  <2> QED
    BY <1>1, <2>2, <2>3
<1> HIDE DEF l, r, n
<1>7. l = r
  BY <1>1, <1>4, <1>5, <1>6, SeqEqual DEF n
<1> QED
  BY <1>3, <1>4, <1>7 DEF l, r, n

\* Side y, given w on top of what it has, has the first bytes of the whole, and
\* at most as many as most.
Promised(c, y, w, whole, most) ==
    LET given == c.sock[y].out \o w IN
    /\ Len(given) = Len(c.sock[y].out) + Len(w)
    /\ Len(given) <= most /\ most <= Len(whole)
    /\ given = SubSeq(whole, 1, Len(given))

\* All that the other side of x may ever be given: the base, and all that x
\* sends after its first bytes.
Due(c, x, base, from) ==
    base \o Translate(x, SubSeq(PeerBytes(c, x), from + 1, Len(PeerBytes(c, x))))

\* What is handed over of the queue is due.
LEMMA QueuePromised ==
    ASSUME NEW c \in SlotType, NEW x \in Side, Counted(c, x),
           NEW base \in Seq(Byte), NEW from \in Nat, Carried(c, x, base, from),
           from <= c.taken[x], c.fd[Other(x)],
           NEW n \in Nat, n <= Len(c.data[x])
    PROVE  Promised(c, Other(x), SubSeq(c.data[x], 1, n), Due(c, x, base, from),
                    Len(base) + (c.taken[x] - from))
<1> DEFINE p == PeerBytes(c, x)
           m == c.taken[x]
           rest == SubSeq(p, from + 1, Len(p))
           out == c.sock[Other(x)].out
           data == c.data[x]
           w == SubSeq(data, 1, n)
           t == Translate(x, rest)
           whole == base \o t
           most == Len(base) + (m - from)
           all == SubSeq(whole, 1, most)
<1>1. /\ p \in Seq(Byte) /\ m \in Nat /\ m <= Len(p) /\ Len(p) \in Nat
      /\ data \in Seq(Byte) /\ out \in Seq(Byte)
      /\ Len(data) \in Nat /\ Len(out) \in Nat /\ Len(base) \in Nat
  BY ThroughType, OtherSide, LenProperties DEF Counted
<1>2. out \o data = base \o Translate(x, SubSeq(p, from + 1, m))
  BY DEF Carried, Through
<1>0. from <= m /\ n <= Len(data)
  OBVIOUS
<1> HIDE DEF p, m, out, data
<1>15. /\ m - from \in Nat /\ m - from <= Len(p) - from /\ from <= Len(p)
      /\ from + (m - from) = m /\ 0 + 1 = 1 /\ 0 <= m - from
  BY <1>0, <1>1
<1>16. PICK j \in Nat : j = m - from
  BY <1>15
<1>17. j <= Len(p) - from /\ from + j = m
  BY <1>15, <1>16
<1>3. rest \in Seq(Byte) /\ Len(rest) = Len(p) - from
  BY <1>1, <1>15, Pieces
<1>4. t \in Seq(Byte) /\ Len(t) = Len(p) - from
  BY <1>3, TranslateType
<1>5. Translate(x, SubSeq(p, from + 1, m)) = SubSeq(t, 1, j)
  <2>1. SubSeq(rest, 1, j) = SubSeq(p, from + 1, from + j)
    BY <1>1, <1>15, <1>17, PieceOfPiece
  <2>2. Translate(x, SubSeq(rest, 0 + 1, j)) = SubSeq(t, 0 + 1, j)
    <3>1. 0 <= j /\ j <= Len(rest) /\ rest \in Seq(Byte) /\ 0 \in Nat
      BY <1>3, <1>17
    <3> HIDE DEF rest
    <3> QED
      BY <3>1, TranslatePiece, Zenon
  <2>3. SubSeq(rest, 0 + 1, j) = SubSeq(p, from + 1, m)
    <3> HIDE DEF rest
    <3> QED
      BY <1>15, <1>17, <2>1, Zenon
  <2>4. SubSeq(t, 0 + 1, j) = SubSeq(t, 1, j)
    OBVIOUS
  <2> HIDE DEF rest, t
  <2> QED
    BY <2>2, <2>3, <2>4, Zenon
<1>6. j <= Len(t)
  BY <1>4, <1>17
<1> HIDE DEF rest, t
<1>7. /\ whole \in Seq(Byte) /\ Len(whole) = Len(base) + Len(t)
      /\ base \o SubSeq(t, 1, j) = all
      /\ Len(all) = most
  <2>1. most = Len(base) + j
    BY <1>16
  <2> HIDE DEF most
  <2>2. /\ base \o t \in Seq(Byte) /\ Len(base \o t) = Len(base) + Len(t)
        /\ Len(base \o SubSeq(t, 1, j)) = Len(base) + j
        /\ base \o SubSeq(t, 1, j) = SubSeq(base \o t, 1, Len(base) + j)
    BY <1>4, <1>6, FrontAndPiece
  <2> QED
    BY <2>1, <2>2, Zenon
<1> HIDE DEF whole
<1>8. most \in Nat /\ most <= Len(whole)
  BY <1>1, <1>4, <1>6, <1>7, <1>16
<1>9. out \o data = all
  BY <1>2, <1>5, <1>7
<1>10. /\ Len(out \o w) = Len(out) + n
       /\ out \o w = SubSeq(out \o data, 1, Len(out) + n)
       /\ Len(out \o data) = Len(out) + Len(data)
  BY <1>0, <1>1, FrontAndPiece
<1>11. Len(w) = n
  <2>1. Len(SubSeq(data, 0 + 1, n)) = n - 0
    BY <1>0, <1>1, Pieces
  <2> QED
    BY <2>1
<1>12. Len(out) + n \in Nat /\ Len(out) + n <= most
  <2>1. Len(out) + Len(data) = most
    BY <1>7, <1>9, <1>10
  <2> HIDE DEF most
  <2> QED
    BY <1>0, <1>1, <2>1
<1> HIDE DEF all, most
<1>13. SubSeq(all, 1, Len(out) + n) = SubSeq(whole, 1, Len(out) + n)
  <2>1. SubSeq(SubSeq(whole, 0 + 1, most), 1, Len(out) + n)
          = SubSeq(whole, 0 + 1, 0 + (Len(out) + n))
    BY <1>7, <1>8, <1>12, PieceOfPiece
  <2>2. PICK k \in Nat : k = Len(out) + n
    BY <1>12
  <2> HIDE DEF out
  <2>3. 0 + k = k /\ 0 + 1 = 1
    OBVIOUS
  <2> QED
    BY <2>1, <2>2, <2>3 DEF all
<1>14. /\ Len(out \o w) = Len(out) + Len(w)
       /\ Len(out \o w) <= most /\ most <= Len(whole)
       /\ out \o w = SubSeq(whole, 1, Len(out \o w))
  BY <1>8, <1>9, <1>10, <1>11, <1>12, <1>13
<1> HIDE DEF w
<1> QED
  BY <1>14, OtherSide DEF Promised, Due, whole, t, rest, out, p, most, m, w, data

\* What a handler writes are the first bytes of the queue of the side it takes
\* the event for; that side is open and has room for them.
LEMMA WrittenByQueue ==
    ASSUME NEW c \in SlotType, c.flag, NEW e, e.tag \in Side,
           c.fd[e.tag] \/ (e.tag = Svr /\ c.status[Svr] = "CLOSE")
    PROVE  LET x == e.tag
               w == WrittenBy(c, e)
           IN  /\ w \in Seq(Byte)
               /\ \E n \in Nat : /\ n <= Len(c.data[Other(x)])
                                 /\ n <= c.sock[x].room
                                 /\ w = SubSeq(c.data[Other(x)], 1, n)
                                 /\ Len(w) = n
               /\ w # <<>> => c.fd[x] /\ ~c.sock[x].rst
<1> DEFINE x == e.tag
           w == WrittenBy(c, e)
           q == c.data[Other(x)]
<1>1. /\ q \in Seq(Byte) /\ c.sock[x] \in SocketType
      /\ Writes(c, x) \in Nat /\ Writes(c, x) <= Len(q)
      /\ Writes(c, x) <= c.sock[x].room
  BY WritesBounds
<1>2. w \in Seq(Byte)
  BY WrittenByRelay
<1>3. /\ w = <<>> \/ w = SubSeq(q, 1, Writes(c, x))
      /\ w # <<>> => ~c.sock[x].rst
      /\ w # <<>> => c.status[x] # "CLOSE"
  BY DEF WrittenBy, Writes, AtMost
<1>4. c.sock[x].room \in Nat /\ Len(q) \in Nat
  BY <1>1, SessionAssumption, LenProperties DEF BuffersOK, SocketType
<1>5. \E n \in Nat : /\ n <= Len(q) /\ n <= c.sock[x].room
                     /\ w = SubSeq(q, 1, n) /\ Len(w) = n
  <2>1. CASE w = <<>>
    <3>1. SubSeq(q, 1, 0) = <<>> /\ Len(<<>>) = 0 /\ 0 \in Nat
      BY SubSeqEmpty, EmptySeq
    <3> QED
      BY <1>4, <2>1, <3>1
  <2>2. CASE w = SubSeq(q, 1, Writes(c, x))
    <3>1. Len(SubSeq(q, 0 + 1, Writes(c, x))) = Writes(c, x) - 0
      BY <1>1, Pieces
    <3> HIDE DEF w, q
    <3>2. Len(w) = Writes(c, x)
      BY <1>1, <2>2, <3>1
    <3> QED
      BY <1>1, <2>2, <3>2
  <2> QED
    BY <1>3, <2>1, <2>2
<1> HIDE DEF w
<1> QED
  BY <1>2, <1>3, <1>5 DEF w

\* What an event does to its session, seen from outside.
EventSeen(e) ==
    LET c == conn[e.slot]
        d == conn'[e.slot]
        w == WrittenBy(c, e)
    IN  /\ e.slot \in Slot /\ e.tag \in Side /\ c.flag
        /\ conn' = [conn EXCEPT ![e.slot] = d]
        /\ w \in Seq(Byte)
        /\ w # <<>> => c.fd[e.tag] /\ ~c.sock[e.tag].rst
        /\ Len(w) <= c.sock[e.tag].room
        /\ Handled(c, d, GivesOnly(e.tag, w))

\* It is seen of a handler that does what Handled says.
LEMMA HandlerSeen ==
    ASSUME Inv, Discipline, NEW e \in batch, conn[e.slot].flag,
           NEW d, HandleEvent(e, d),
           Handled(conn[e.slot], d, GivesOnly(e.tag, WrittenBy(conn[e.slot], e)))
    PROVE  EventSeen(e)
<1> DEFINE c == conn[e.slot]
           w == WrittenBy(c, e)
<1>1. /\ e.slot \in Slot /\ SlotOK(c) /\ e.tag \in Side
      /\ c.fd[e.tag] \/ (e.tag = Svr /\ c.status[Svr] = "CLOSE")
  BY EventSide
<1>2. conn' = [conn EXCEPT ![e.slot] = d] /\ conn \in [Slot -> SlotType]
  BY DEF HandleEvent, Inv, TypeOK
<1>3. conn'[e.slot] = d
  BY <1>1, <1>2
<1>4. c \in SlotType /\ c.flag
  BY <1>1 DEF SlotOK
<1>5. Handled(c, d, GivesOnly(e.tag, w))
  OBVIOUS
<1> HIDE DEF c
<1>6. /\ w \in Seq(Byte)
      /\ \E n \in Nat : n <= c.sock[e.tag].room /\ Len(w) = n
      /\ w # <<>> => c.fd[e.tag] /\ ~c.sock[e.tag].rst
  BY <1>1, <1>4, WrittenByQueue
<1> HIDE DEF w
<1>7. Len(w) <= c.sock[e.tag].room
  BY <1>6
<1> QED
  BY <1>1, <1>2, <1>3, <1>4, <1>5, <1>6, <1>7 DEF EventSeen, c, w

=============================================================================
