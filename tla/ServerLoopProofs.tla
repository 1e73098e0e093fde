-------------------------- MODULE ServerLoopProofs --------------------------
(***************************************************************************)
(* LDProxy_server, for every number of slots, every size of buffers and of *)
(* the header cache, all traffic, with or without failing calls and        *)
(* resets: the types are right and nothing leaks, although the stages of a *)
(* request give the session up in many places. The header cache has room,  *)
(* no host is contacted before the header is accepted, host and client get *)
(* what is meant for them, and every slot implements ProxySession.         *)
(***************************************************************************)
EXTENDS ServerLoop, EventLoopProofs

\* The result of a stage: a slot in order, still in use unless it failed.
StageOK(r) ==
    /\ SlotOK(r.slot)
    /\ r.ret = 0 => r.slot.flag

\* Reading into the header cache keeps the slot in order,
LEMMA OnParseHeaderOK ==
    ASSUME NEW c, SlotOK(c), c.flag, NEW events
    PROVE  /\ SlotOK(OnParseHeader(c, events).slot)
           /\ OnParseHeader(c, events).ret # -1 => OnParseHeader(c, events).slot.flag
<1> DEFINE k == c.sock[Cli]
           len == Len(k.rx)
           space == HeadMax - Len(c.head)
           n == IF len <= space THEN len ELSE space
           piece == SubSeq(k.rx, 1, n)
           rest == SubSeq(k.rx, n + 1, len)
           cached == [c EXCEPT
                       !.head = @ \o Translate(Cli, piece),
                       !.taken[Cli] = @ + n,
                       !.sock[Cli].rx = rest]
           ended == [c EXCEPT !.status[Cli] = "CLOSE"]
<1>1. Cli \in Side /\ c \in SlotType
  BY DEF Side, SlotOK
<1>2. /\ k \in SocketType /\ k.rx \in Seq(Byte) /\ c.head \in Seq(Byte)
      /\ c.taken[Cli] \in Nat
  BY <1>1 DEF SlotType, SocketType
<1>3. len \in Nat /\ space \in Int
  BY <1>2, LenProperties, HeadAssumption DEF HeadOK
<1>4. SlotOK(ended) /\ ended.flag
  BY <1>1 DEF SlotOK, SlotType, Status, SlotHoldsWhatItOwns
<1>5. ASSUME n > 0
      PROVE  SlotOK(cached) /\ cached.flag
  <2>1. n \in Nat /\ n <= len
    BY <1>3, <1>5
  <2>2. piece \in Seq(Byte) /\ rest \in Seq(Byte)
    BY <1>2, <2>1, Piece
  <2> HIDE DEF n, piece, rest
  <2>3. c.head \o Translate(Cli, piece) \in Seq(Byte)
    BY <1>1, <1>2, <2>2, TranslateType, ConcatProperties
  <2>4. c.taken[Cli] + n \in Nat
    BY <1>2, <2>1
  <2>5. cached \in SlotType
    BY <1>1, <1>2, <2>2, <2>3, <2>4 DEF SlotType, SocketType
  <2>6. /\ cached.flag
        /\ \A y \in Side : /\ cached.fd[y] <=> c.fd[y]
                           /\ cached.sock[y].st = c.sock[y].st
                           /\ cached.reg[y].on <=> c.reg[y].on
    BY <1>1, <1>2 DEF SlotType, SocketType
  <2> QED
    BY <2>5, <2>6, SameOwnership
<1>6. \/ n > 0 /\ OnParseHeader(c, events).slot = cached
      \/ OnParseHeader(c, events) = Return(-1, FreeSession(c))
      \/ OnParseHeader(c, events).slot \in {c, ended}
  BY SMTT(30) DEF OnParseHeader, Return, ServerSessionErr, OnSessionErr
<1> HIDE DEF n, cached, ended
<1> QED
  BY <1>4, <1>5, <1>6, FreeSessionOK, SMTT(30) DEF Return

\* so does its caller, which may free the session once more,
LEMMA ParseHeadOK ==
    ASSUME NEW c, SlotOK(c), c.flag, NEW events
    PROVE  StageOK(ParseHead(c, events))
<1> DEFINE p == OnParseHeader(c, events)
           passed == [p.slot EXCEPT !.status[Cli] = "PROCESS_HEAD"]
<1>1. SlotOK(p.slot) /\ (p.ret # -1 => p.slot.flag)
  BY OnParseHeaderOK
<1> HIDE DEF p
<1>2. p.ret = 0 => SlotOK(passed) /\ passed.flag
  <2>1. Cli \in Side /\ "PROCESS_HEAD" \in Status
    BY DEF Side, Status
  <2>2. p.ret = 0 => p.slot.flag
    BY <1>1
  <2> QED
    BY <1>1, <2>1, <2>2, StatusOK
<1>3. \/ p.ret = 0 /\ ParseHead(c, events) = Return(0, passed)
      \/ ParseHead(c, events) = Return(-1, FreeSession(p.slot))
      \/ p.ret # -1 /\ ParseHead(c, events) = Return(0, p.slot)
  <2>1. CASE p.ret = 0
    BY <2>1 DEF ParseHead, p
  <2>2. CASE p.ret = -1
    BY <2>2 DEF ParseHead, p, ServerSessionErr, OnSessionErr
  <2>3. CASE p.ret # 0 /\ p.ret # -1
    BY <2>3 DEF ParseHead, p
  <2> QED
    BY <2>1, <2>2, <2>3
<1> HIDE DEF passed
<1> QED
  BY <1>1, <1>2, <1>3, FreeSessionOK DEF Return, StageOK

\* so does the processing of the header,
LEMMA ProcessHeadOK ==
    ASSUME NEW c, SlotOK(c), c.flag, NEW mem \in BOOLEAN
    PROVE  StageOK(ProcessHead(c, mem))
<1> DEFINE answer == c.data[Svr] \o Translate(Svr, Established)
           pass == c.data[Cli] \o c.head
           answered == [[c EXCEPT !.data[Svr] = answer]
                          EXCEPT !.status[Cli] = "BUILD_SVR"]
           passed == [[c EXCEPT !.data[Cli] = pass]
                          EXCEPT !.status[Cli] = "BUILD_SVR"]
<1>1. Cli \in Side /\ Svr \in Side /\ c \in SlotType
  BY DEF Side, SlotOK
<1>2. c.head \in Seq(Byte) /\ \A x \in Side : c.data[x] \in Seq(Byte)
  BY <1>1 DEF SlotType
<1>3. answer \in Seq(Byte) /\ pass \in Seq(Byte)
  BY <1>1, <1>2, HeadAssumption, TranslateType, ConcatProperties DEF HeadOK
<1> HIDE DEF answer, pass
<1>4. SlotOK(answered) /\ answered.flag
  BY <1>1, <1>3 DEF SlotOK, SlotType, Status, SlotHoldsWhatItOwns
<1>5. SlotOK(passed) /\ passed.flag
  BY <1>1, <1>3 DEF SlotOK, SlotType, Status, SlotHoldsWhatItOwns
<1>6. ProcessHead(c, mem) \in
        {Return(-1, FreeSession(FreeSession(c))), Return(0, answered),
         Return(0, passed)}
  <2>1. CASE ~mem
    BY <2>1 DEF ProcessHead, OnProcessHeader, Return, ServerSessionErr,
                OnSessionErr
  <2>2. CASE mem /\ c.req.connect
    BY <2>2 DEF ProcessHead, OnProcessHeader, Return, answer
  <2>3. CASE mem /\ ~c.req.connect
    BY <2>3 DEF ProcessHead, OnProcessHeader, Return, pass
  <2> QED
    BY <2>1, <2>2, <2>3
<1> HIDE DEF answered, passed
<1> QED
  BY <1>4, <1>5, <1>6, FreeSessionOK DEF Return, StageOK

\* The slot with other strings is the slot in all else.
Holding(c, k) == [c EXCEPT !.strings = k]

LEMMA HoldingSame ==
    ASSUME NEW c, SlotOK(c), NEW k \in SUBSET HostString
    PROVE  LET d == Holding(c, k) IN
           /\ SlotOK(d) /\ d.flag = c.flag /\ d.event_fd = c.event_fd
           /\ d.status = c.status /\ d.fd = c.fd /\ d.data = c.data
           /\ d.head = c.head /\ d.h = c.h /\ d.req = c.req
           /\ d.taken = c.taken /\ d.sock = c.sock /\ d.reg = c.reg
           /\ d.strings = k /\ d.gave = c.gave
<1> DEFINE d == Holding(c, k)
<1>1. /\ d \in SlotType /\ d.flag = c.flag /\ d.event_fd = c.event_fd
      /\ d.status = c.status /\ d.fd = c.fd /\ d.data = c.data
      /\ d.head = c.head /\ d.h = c.h /\ d.req = c.req
      /\ d.taken = c.taken /\ d.sock = c.sock /\ d.reg = c.reg
      /\ d.strings = k /\ d.gave = c.gave
  BY DEF Holding, SlotOK, SlotType
<1> HIDE DEF d
<1>2. SlotHoldsWhatItOwns(d)
  BY <1>1 DEF SlotOK, SlotHoldsWhatItOwns
<1> QED
  BY <1>1, <1>2 DEF d, SlotOK

\* How building a connection may end at all.
BuildEnds == {"done", "inprogress", "nosocket", "error"}

\* Building the connection to the host is what the client's build_svr does, in
\* a slot that has some of the strings.
LEMMA BuildHostBuilds ==
    ASSUME NEW c, NEW outcome
    PROVE  \E k \in SUBSET HostString, o \in BuildEnds :
             /\ BuildHost(c, outcome) = BuildSvr(Holding(c, k), o)
             /\ o \notin {"nosocket", "error"} => c.req.host
<1> DEFINE made == HostStrings(c.req, outcome)
           k == made \ Freed(made, outcome)
           o == IF \/ outcome = "nosocket"
                   \/ c.req.host /\ outcome \in {"done", "inprogress"}
                THEN outcome ELSE "error"
<1>1. k \in SUBSET HostString
  BY DEF HostStrings, HostString
<1>2. BuildHost(c, outcome) = BuildSvr(Holding(c, k), o)
  BY DEF BuildHost, Holding
<1>3. o \in BuildEnds /\ (o \notin {"nosocket", "error"} => c.req.host)
  BY DEF BuildEnds
<1> HIDE DEF k, o
<1> QED
  BY <1>1, <1>2, <1>3

\* It too keeps the slot in order.
LEMMA BuildHostOK ==
    ASSUME NEW c, SlotOK(c), c.flag, NEW outcome
    PROVE  StageOK(BuildHost(c, outcome))
<1>1. ASSUME NEW d, SlotOK(d), d.flag, NEW o
      PROVE  StageOK(BuildSvr(d, o))
  <2>1. Connected(d, o).flag
    BY <1>1, ConnectedOK
  <2> QED
    BY <1>1, <2>1, BuildSvrOK DEF StageOK, Return
<1>2. PICK k \in SUBSET HostString, o \in BuildEnds :
        BuildHost(c, outcome) = BuildSvr(Holding(c, k), o)
  BY BuildHostBuilds
<1>3. SlotOK(Holding(c, k)) /\ Holding(c, k).flag
  BY HoldingSame
<1> QED
  BY <1>1, <1>2, <1>3

\* A whole event of the client keeps its slot in order.
LEMMA CliEventOK ==
    ASSUME NEW c, SlotOK(c), c.flag, NEW events, NEW outcome,
           NEW headmem \in BOOLEAN, NEW mem \in BOOLEAN
    PROVE  SlotOK(CliEvent(c, events, outcome, headmem, mem))
<1> DEFINE a == [c EXCEPT !.event_fd = Cli,
                          !.status[Cli] = IF @ = "INIT" THEN "PARSE_HEAD" ELSE @]
           parse(d) == ParseHead(d, Effective(events))
           process(d) == ProcessHead(d, headmem)
           build(d) == BuildHost(d, outcome)
           relay(d) == OnDataRelay(d, Cli, Effective(events), mem)
           parsed == Stage(Return(0, a), "PARSE_HEAD", parse)
           processed == Stage(parsed, "PROCESS_HEAD", process)
           built == Stage(processed, "BUILD_SVR", build)
           relayed == Stage(built, "DATA_RELAY", relay)
<1>1. Cli \in Side
  BY DEF Side
<1>2. SlotOK(a) /\ a.flag
  BY <1>1 DEF SlotOK, SlotType, Status, SlotHoldsWhatItOwns
<1> HIDE DEF a
<1>3. StageOK(parsed)
  BY <1>2, ParseHeadOK DEF StageOK, Return, Stage
<1> HIDE DEF parsed
<1>4. StageOK(processed)
  BY <1>3, ProcessHeadOK DEF StageOK, Stage
<1> HIDE DEF processed
<1>5. StageOK(built)
  BY <1>4, BuildHostOK DEF StageOK, Stage
<1> HIDE DEF built
<1>6. SlotOK(relayed.slot)
  BY <1>1, <1>5, OnDataRelayOK DEF StageOK, Stage
<1> HIDE DEF relayed
<1>7. CliEvent(c, events, outcome, headmem, mem) = Finish(relayed, Cli)
  BY DEF CliEvent, ServerFinish, ServerDataRelay, a, parsed, processed, built,
         relayed
<1> QED
  BY <1>6, <1>7, FinishOK

\* The client's handler keeps the invariant,
LEMMA HandleCliEventOK ==
    ASSUME Inv, NEW e, HandleCliEvent(e)
    PROVE  Inv'
<1>1. PICK headmem \in MallocOutcomes, mem \in MallocOutcomes,
           outcome \in HostOutcomes :
        HandleEvent(e, CliEvent(conn[e.slot], e.events, outcome, headmem, mem))
  BY DEF HandleCliEvent
<1>2. mem \in BOOLEAN /\ headmem \in BOOLEAN
  BY DEF MallocOutcomes
<1>3. e \in batch /\ e.slot \in Slot /\ conn[e.slot].flag
  BY DEF HandleCliEvent, Inv, TypeOK, EventType
<1>4. SlotOK(CliEvent(conn[e.slot], e.events, outcome, headmem, mem))
  BY <1>2, <1>3, InvSlots, CliEventOK
<1> QED
  BY <1>1, <1>3, <1>4, HandleEventOK

\* a slot just handed out is in order,
LEMMA InitServerSessionFresh ==
    ASSUME NEW q \in Requests
    PROVE  Fresh(InitServerSession(q))
BY InitSessionFresh, ZenonT(30) DEF InitServerSession, Fresh, SlotType

\* and every step keeps the invariant.
LEMMA StepOK ==
    ASSUME Inv, [Next]_vars
    PROVE  Inv'
<1>1. CASE AgentStep
  BY <1>1, AgentStepOK
<1>2. CASE Accept
  BY <1>2, AgentAcceptsOK, InitServerSessionFresh DEF Accept
<1>3. CASE EpollWait \/ WaitInterrupted
  BY <1>3, EpollWaitOK
<1>4. ASSUME NEW e \in batch,
             SkipEvent(e) \/ HandleSvrEvent(e) \/ HandleCliEvent(e)
      PROVE  Inv'
  BY <1>4, SkipEventOK, HandleSvrEventOK, HandleCliEventOK
<1>5. CASE TimeoutStep
  BY <1>5, TimeoutStepOK
<1>6. CASE PeerStep
  BY <1>6, PeerStepOK
<1>7. CASE UNCHANGED vars
  BY <1>7, StutterOK
<1> QED
  BY <1>1, <1>2, <1>3, <1>4, <1>5, <1>6, <1>7
     DEF Next, HandleAgentEvent, HandleConnectionsEvent, HandleSessionTimeout,
         Dispatch

\* Every slot of the server's pool is always in order: typed, and owning
\* exactly what its flag, descriptors and header say.
THEOREM Invariant == Spec => []Inv
BY InitOK, StepOK, PTL DEF Spec

\* The state of the server's loop and of every slot always has its type.
THEOREM ServerTypeCorrect == Spec => []TypeOK
BY Invariant, PTL DEF Inv

-----------------------------------------------------------------------------
(* The strings made of the Host field.                                      *)

\* From slot c to slot d nothing is made or lost, and nothing comes to life.
Undisturbed(c, d) ==
    /\ d.strings = c.strings /\ d.req = c.req
    /\ d.flag => c.flag
    /\ d.fd[Svr] => c.fd[Svr]

\* What a slot may have lost of them, and what it still has.
HostText(c) ==
    /\ ~({"domain", "strport"} \subseteq c.strings)
    /\ c.strings # {} => c.req.host /\ (c.req.port \/ ~c.flag)
    /\ c.flag => c.strings \subseteq {"temp"}
    /\ c.fd[Svr] => c.strings = IF c.req.port THEN {"temp"} ELSE {}

LEMMA UndisturbedText ==
    ASSUME NEW c, NEW d, HostText(c), Undisturbed(c, d)
    PROVE  HostText(d)
BY DEF HostText, Undisturbed

LEMMA UndisturbedTwice ==
    ASSUME NEW c, NEW d, NEW e, Undisturbed(c, d), Undisturbed(d, e)
    PROVE  Undisturbed(c, e)
BY DEF Undisturbed

\* Freeing a session frees none of them: they are not the session's any more.
LEMMA FreeSessionText ==
    ASSUME NEW c \in SlotType
    PROVE  Undisturbed(c, FreeSession(c))
<1> DEFINE freed == [c EXCEPT !.data = [x \in Side |-> <<>>],
                              !.taken = [x \in Side |-> 0]]
           shut1 == IF c.fd[Cli] THEN CloseFd(freed, Cli) ELSE freed
           shut2 == IF c.fd[Svr] THEN CloseFd(shut1, Svr) ELSE shut1
           last == [shut2 EXCEPT !.h = FALSE, !.head = <<>>, !.flag = FALSE]
<1>1. Cli \in Side /\ Svr \in Side /\ <<>> \in Seq(Byte)
  BY EmptySeq DEF Side
<1>2. freed \in SlotType /\ Undisturbed(c, freed)
  BY <1>1 DEF SlotType, Undisturbed
<1>3. ASSUME NEW d \in SlotType, NEW x \in Side
      PROVE  CloseFd(d, x) \in SlotType /\ Undisturbed(d, CloseFd(d, x))
  <2>1. CloseFd(d, x).strings = d.strings
    BY <1>3 DEF CloseFd, SlotType
  <2> QED
    BY <1>1, <1>3, <2>1, CloseFdProperties DEF Undisturbed
<1> HIDE DEF freed
<1>4. shut1 \in SlotType /\ Undisturbed(c, shut1)
  BY <1>1, <1>2, <1>3, UndisturbedTwice
<1> HIDE DEF shut1
<1>5. shut2 \in SlotType /\ Undisturbed(c, shut2)
  BY <1>1, <1>3, <1>4, UndisturbedTwice
<1> HIDE DEF shut2
<1>6. Undisturbed(c, last)
  BY <1>1, <1>5 DEF SlotType, Undisturbed
<1>7. FreeSession(c) = c \/ FreeSession(c) = last
  BY DEF FreeSession, freed, shut1, shut2
<1>8. Undisturbed(c, c)
  BY DEF Undisturbed
<1> HIDE DEF last
<1> QED
  BY <1>6, <1>7, <1>8

\* Nor does the tail of an event touch them,
LEMMA FinishText ==
    ASSUME NEW r, SlotOK(r.slot), NEW x
    PROVE  Undisturbed(r.slot, Finish(r, x))
<1> DEFINE c == r.slot
<1>1. c \in SlotType /\ Undisturbed(c, c) /\ <<>> \in Seq(Byte)
      /\ Cli \in Side /\ Svr \in Side
  BY EmptySeq DEF SlotOK, Undisturbed, Side
<1>2. ASSUME NEW d \in SlotType, NEW y \in Side, NEW events, NEW tag
      PROVE  Undisturbed(d, EpollMod(d, y, events, tag))
  BY <1>2 DEF EpollMod, EpollAdd, SlotType, Undisturbed
<1>3. ASSUME NEW y \in Side
      PROVE  Undisturbed(c, CloseSide(c, y))
  <2> DEFINE o == Other(y)
             emptied == [c EXCEPT !.data[o] = <<>>]
             shut == IF c.fd[y] THEN CloseFd(emptied, y) ELSE c
  <2>1. o \in Side
    BY <1>3, OtherSide
  <2>2. emptied \in SlotType /\ Undisturbed(c, emptied)
    BY <1>1, <2>1 DEF SlotType, Undisturbed
  <2> HIDE DEF emptied
  <2>3. /\ CloseFd(emptied, y) \in SlotType
        /\ Undisturbed(emptied, CloseFd(emptied, y))
    <3>1. CloseFd(emptied, y).strings = emptied.strings
      BY <2>2 DEF CloseFd, SlotType
    <3> QED
      BY <1>1, <1>3, <2>2, <3>1, CloseFdProperties DEF Undisturbed
  <2>4. shut \in SlotType /\ Undisturbed(c, shut)
    BY <1>1, <2>2, <2>3, UndisturbedTwice
  <2>5. CloseSide(c, y) \in {EpollMod(shut, o, {EPOLLOUT}, Svr), FreeSession(shut)}
    BY DEF CloseSide, emptied
  <2> HIDE DEF shut
  <2> QED
    BY <1>2, <2>1, <2>4, <2>5, FreeSessionText, UndisturbedTwice
<1>4. Undisturbed(c, EpollSessionMod(c))
  <2> DEFINE m1 == IF c.fd[Cli] THEN EpollMod(c, Cli, Interest(c, Cli), Cli)
                   ELSE c
  <2>1. CASE ~c.flag
    BY <1>1, <2>1 DEF EpollSessionMod
  <2>2. CASE c.flag
    <3>1. EpollSessionMod(c).fd = c.fd /\ EpollSessionMod(c).req = c.req
      BY <2>2, EpollSessionModKeeps
    <3>2. m1.strings = c.strings
      BY <1>1 DEF EpollMod, EpollAdd, SlotType
    <3>3. EpollSessionMod(c).strings = m1.strings
      <4>1. m1 \in SlotType
        BY <1>1 DEF EpollMod, EpollAdd, SlotType, RegistrationType, Interest
      <4> HIDE DEF m1
      <4>2. EpollMod(m1, Svr, Interest(c, Svr), Svr).strings = m1.strings
        BY <4>1 DEF EpollMod, EpollAdd, SlotType
      <4> QED
        BY <2>2, <4>2 DEF EpollSessionMod, m1
    <3> QED
      BY <2>2, <3>1, <3>2, <3>3 DEF Undisturbed
  <2> QED
    BY <2>1, <2>2
<1>5. Finish(r, x) \in {c, EpollSessionMod(c)} \cup {CloseSide(c, y) : y \in Side}
  BY DEF Finish, OnSessionClose
<1> QED
  BY <1>1, <1>3, <1>4, <1>5

\* nor the relay,
LEMMA OnDataRelayText ==
    ASSUME NEW c, SlotOK(c), c.flag, NEW x \in Side, NEW events,
           NEW mem \in BOOLEAN
    PROVE  Undisturbed(c, OnDataRelay(c, x, events, mem).slot)
<1> DEFINE written == Written(c, x)
           w == IF EPOLLOUT \in events THEN WriteSide(c, x) ELSE Return(0, c)
           m == w.slot
<1>1. c \in SlotType /\ Undisturbed(c, c)
  BY DEF SlotOK, Undisturbed
<1>2. SlotOK(written) /\ Undisturbed(c, written)
  BY <1>1, WrittenOK DEF Written, SlotType, Undisturbed
<1>3. WriteSide(c, x) \in {Return(-1, FreeSession(c)), Return(0, written),
                           Return(0, FreeSession(written))}
  BY DEF WriteSide, Written, Writes, OnSessionErr
<1> HIDE DEF written
<1>4. Undisturbed(c, FreeSession(c)) /\ Undisturbed(c, FreeSession(written))
  BY <1>1, <1>2, FreeSessionText, UndisturbedTwice DEF SlotOK
<1>5. SlotOK(m) /\ Undisturbed(c, m)
  <2>1. w \in {Return(-1, FreeSession(c)), Return(0, written),
               Return(0, FreeSession(written)), Return(0, c)}
    BY <1>3
  <2>2. m \in {FreeSession(c), written, FreeSession(written), c}
    BY <2>1 DEF Return
  <2> QED
    BY <1>1, <1>2, <1>4, <2>2, FreeSessionOK
<1>6. OnDataRelay(c, x, events, mem).slot \in {m, ReadSide(m, x, mem).slot}
  BY DEF OnDataRelay
<1> HIDE DEF m
<1>7. Undisturbed(m, ReadSide(m, x, mem).slot)
  <2>1. m \in SlotType
    BY <1>5 DEF SlotOK
  <2>2. /\ Undisturbed(m, m) /\ Undisturbed(m, Filled(m, x))
        /\ Undisturbed(m, Ended(m, x)) /\ Undisturbed(m, FreeSession(m))
    BY <2>1, FreeSessionText DEF Filled, Ended, SlotType, Undisturbed
  <2> QED
    BY <2>2, ReadSideCases DEF Return
<1> QED
  BY <1>5, <1>6, <1>7, UndisturbedTwice

\* so that an event of the host leaves them alone;
LEMMA SvrEventText ==
    ASSUME NEW c, SlotOK(c), c.flag, NEW events, NEW mem \in BOOLEAN
    PROVE  Undisturbed(c, SvrEvent(c, events, mem))
<1> DEFINE a == [c EXCEPT !.event_fd = Svr]
           up == [a EXCEPT !.status[Svr] = IF @ = "INIT" THEN "DATA_RELAY" ELSE @]
           r == OnDataRelay(up, Svr, Effective(events), mem)
<1>1. Svr \in Side /\ c \in SlotType
  BY DEF Side, SlotOK
<1>2. SlotOK(a) /\ Undisturbed(c, a)
  BY <1>1 DEF SlotOK, SlotType, SlotHoldsWhatItOwns, Undisturbed
<1>3. SlotOK(up) /\ up.flag /\ Undisturbed(c, up)
  BY <1>1 DEF SlotOK, SlotType, Status, SlotHoldsWhatItOwns, Undisturbed
<1>4. SvrEvent(c, events, mem) \in
        {FreeSession(a), Finish(r, Svr), Finish(Return(0, up), Svr)}
  BY DEF SvrEvent, OnSessionErr
<1> HIDE DEF a, up
<1>5. Undisturbed(c, FreeSession(a))
  BY <1>2, FreeSessionText, UndisturbedTwice DEF SlotOK
<1>6. Undisturbed(c, Finish(r, Svr))
  <2>1. SlotOK(r.slot) /\ Undisturbed(c, r.slot)
    BY <1>1, <1>3, OnDataRelayOK, OnDataRelayText, UndisturbedTwice
  <2> HIDE DEF r
  <2> QED
    BY <2>1, FinishText, UndisturbedTwice
<1>7. Undisturbed(c, Finish(Return(0, up), Svr))
  <2>1. Return(0, up).slot = up
    BY DEF Return
  <2> QED
    BY <1>3, <2>1, FinishText, UndisturbedTwice
<1> QED
  BY <1>4, <1>5, <1>6, <1>7

\* nor do the stages before the connection to the host.
LEMMA ParseHeadText ==
    ASSUME NEW c, SlotOK(c), c.flag, NEW events
    PROVE  Undisturbed(c, ParseHead(c, events).slot)
<1> DEFINE p == OnParseHeader(c, events)
           k == c.sock[Cli]
           len == Len(k.rx)
           space == HeadMax - Len(c.head)
           n == IF len <= space THEN len ELSE space
           cached == [c EXCEPT
                       !.head = @ \o Translate(Cli, SubSeq(k.rx, 1, n)),
                       !.taken[Cli] = @ + n,
                       !.sock[Cli].rx = SubSeq(k.rx, n + 1, len)]
           ended == [c EXCEPT !.status[Cli] = "CLOSE"]
           parsed == [p.slot EXCEPT !.status[Cli] = "PROCESS_HEAD"]
<1>1. c \in SlotType
  BY DEF SlotOK
<1>2. /\ Undisturbed(c, c) /\ Undisturbed(c, ended)
      /\ Undisturbed(c, cached)
  BY <1>1 DEF SlotType, Undisturbed
<1>3. \/ n > 0 /\ p.slot = cached
      \/ p = Return(-1, FreeSession(c))
      \/ p.slot \in {c, ended}
  BY SMTT(30) DEF OnParseHeader, Return, ServerSessionErr, OnSessionErr
<1>4. SlotOK(p.slot)
  BY OnParseHeaderOK
<1> HIDE DEF cached, ended
<1>5. Undisturbed(c, p.slot)
  BY <1>1, <1>2, <1>3, FreeSessionText DEF Return
<1>6. ParseHead(c, events).slot \in {p.slot, parsed, FreeSession(p.slot)}
  BY DEF ParseHead, Return, ServerSessionErr, OnSessionErr
<1> HIDE DEF p
<1>7. /\ Undisturbed(p.slot, p.slot) /\ Undisturbed(p.slot, parsed)
      /\ Undisturbed(p.slot, FreeSession(p.slot))
  BY <1>4, FreeSessionText DEF SlotOK, SlotType, Undisturbed
<1> HIDE DEF parsed
<1> QED
  BY <1>5, <1>6, <1>7, UndisturbedTwice

LEMMA ProcessHeadText ==
    ASSUME NEW c, SlotOK(c), c.flag, NEW mem \in BOOLEAN
    PROVE  Undisturbed(c, ProcessHead(c, mem).slot)
<1> DEFINE queued(data) == [[c EXCEPT !.data = data]
                              EXCEPT !.status[Cli] = "BUILD_SVR"]
           freed == FreeSession(c)
           answer == [c.data EXCEPT ![Svr] = @ \o Translate(Svr, Established)]
           pass == [c.data EXCEPT ![Cli] = @ \o c.head]
<1>1. c \in SlotType
  BY DEF SlotOK
<1>2. \A data : Undisturbed(c, queued(data))
  BY <1>1 DEF SlotType, Undisturbed
<1>3. SlotOK(freed) /\ Undisturbed(c, freed)
  BY <1>1, FreeSessionOK, FreeSessionText
<1>4. Undisturbed(c, FreeSession(freed))
  BY <1>3, FreeSessionText, UndisturbedTwice DEF SlotOK
<1>5. ProcessHead(c, mem).slot \in {FreeSession(freed), queued(answer), queued(pass)}
  <2>1. CASE ~mem
    BY <2>1 DEF ProcessHead, OnProcessHeader, Return, ServerSessionErr,
                OnSessionErr
  <2>2. CASE mem /\ c.req.connect
    BY <1>1, <2>2 DEF ProcessHead, OnProcessHeader, Return, SlotType
  <2>3. CASE mem /\ ~c.req.connect
    BY <1>1, <2>3 DEF ProcessHead, OnProcessHeader, Return, SlotType
  <2> QED
    BY <2>1, <2>2, <2>3
<1> HIDE DEF queued
<1> QED
  BY <1>2, <1>4, <1>5

\* The connection to the host makes the strings and frees what it frees.
LEMMA BuildHostText ==
    ASSUME NEW c, SlotOK(c), c.flag, NEW outcome
    PROVE  HostText(BuildHost(c, outcome).slot)
<1> DEFINE made == HostStrings(c.req, outcome)
           k == made \ Freed(made, outcome)
           o == IF \/ outcome = "nosocket"
                   \/ c.req.host /\ outcome \in {"done", "inprogress"}
                THEN outcome ELSE "error"
           d == Holding(c, k)
           new == NewSocket(IF o = "done" THEN "est" ELSE "syn")
           opened == [d EXCEPT !.fd[Svr] = TRUE, !.sock[Svr] = new,
                               !.gave[Svr] = <<>>]
           r == BuildSvr(d, o)
<1>1. /\ k \in SUBSET HostString
      /\ ~({"domain", "strport"} \subseteq k)
      /\ k # {} => c.req.host
      /\ outcome \in {"done", "inprogress"} /\ c.req.host =>
           k = IF c.req.port THEN {"temp"} ELSE {}
  BY DEF HostStrings, HostString, Freed
<1>2. o \notin {"nosocket", "error"} =>
        outcome \in {"done", "inprogress"} /\ c.req.host
  OBVIOUS
<1>3. BuildHost(c, outcome) = r
  BY DEF BuildHost, Holding
<1> HIDE DEF k, o
<1>4. SlotOK(d) /\ d.flag /\ d.strings = k /\ d.req = c.req
  BY <1>1, HoldingSame
<1> HIDE DEF d
<1>5. /\ SlotOK(r.slot)
      /\ \/ r.ret = -1 /\ ~r.slot.flag
         \/ r = Return(0, Connected(d, o)) /\ o \notin {"nosocket", "error"}
  BY <1>4, BuildSvrOK
<1>6. r.slot.strings = k /\ r.slot.req = c.req
  <2>1. d \in SlotType /\ Svr \in Side
    BY <1>4 DEF SlotOK, Side
  <2>2. opened \in SlotType /\ opened.strings = k /\ opened.req = c.req
    <3>1. new \in SocketType
      BY NewSocketType
    <3> HIDE DEF new
    <3> QED
      BY <1>4, <2>1, <3>1, EmptySeq DEF SlotType
  <2> HIDE DEF opened
  <2>3. Connected(d, o).strings = k /\ Connected(d, o).req = c.req
    BY <1>4, <2>1 DEF Connected, SlotType
  <2>4. /\ FreeSession(d).strings = k /\ FreeSession(d).req = c.req
        /\ FreeSession(opened).strings = k /\ FreeSession(opened).req = c.req
    BY <1>4, <2>1, <2>2, FreeSessionText DEF Undisturbed
  <2>5. r.slot \in {FreeSession(d), FreeSession(opened), Connected(d, o)}
    <3>1. CASE o = "nosocket"
      BY <3>1 DEF BuildSvr, OnSessionErr, Return
    <3>2. CASE o = "error"
      BY <3>2 DEF BuildSvr, OnSessionErr, Return, opened
    <3>3. CASE o \notin {"nosocket", "error"}
      BY <3>3 DEF BuildSvr, EpollAdd, Connected, Return
    <3> QED
      BY <3>1, <3>2, <3>3
  <2> QED
    BY <2>3, <2>4, <2>5
<1> HIDE DEF r
<1>7. ~r.slot.flag => ~r.slot.fd[Svr]
  BY <1>5 DEF SlotOK, SlotHoldsWhatItOwns, Side
<1>8. r.slot.flag => k = IF c.req.port THEN {"temp"} ELSE {}
  BY <1>1, <1>2, <1>5
<1>9. HostText(r.slot)
  BY <1>1, <1>6, <1>7, <1>8 DEF HostText
<1> QED
  BY <1>3, <1>9

\* An event of the client keeps account of them,
LEMMA CliEventText ==
    ASSUME NEW c, SlotOK(c), c.flag, HostText(c), NEW events, NEW outcome,
           NEW headmem \in BOOLEAN, NEW mem \in BOOLEAN
    PROVE  HostText(CliEvent(c, events, outcome, headmem, mem))
<1> DEFINE a == [c EXCEPT !.event_fd = Cli,
                          !.status[Cli] = IF @ = "INIT" THEN "PARSE_HEAD" ELSE @]
           parse(d) == ParseHead(d, Effective(events))
           process(d) == ProcessHead(d, headmem)
           build(d) == BuildHost(d, outcome)
           relay(d) == OnDataRelay(d, Cli, Effective(events), mem)
           parsed == Stage(Return(0, a), "PARSE_HEAD", parse)
           processed == Stage(parsed, "PROCESS_HEAD", process)
           built == Stage(processed, "BUILD_SVR", build)
           relayed == Stage(built, "DATA_RELAY", relay)
<1>1. Cli \in Side
  BY DEF Side
<1>2. SlotOK(a) /\ a.flag /\ HostText(a)
  BY <1>1 DEF SlotOK, SlotType, Status, SlotHoldsWhatItOwns, HostText
<1> HIDE DEF a
<1>3. StageOK(parsed) /\ HostText(parsed.slot)
  <2>1. StageOK(ParseHead(a, Effective(events)))
        /\ HostText(ParseHead(a, Effective(events)).slot)
    BY <1>2, ParseHeadOK, ParseHeadText, UndisturbedText
  <2>2. StageOK(Return(0, a)) /\ HostText(Return(0, a).slot)
    BY <1>2 DEF StageOK, Return
  <2> QED
    BY <2>1, <2>2 DEF Stage, Return
<1> HIDE DEF parsed
<1>4. StageOK(processed) /\ HostText(processed.slot)
  BY <1>3, ProcessHeadOK, ProcessHeadText, UndisturbedText DEF StageOK, Stage
<1> HIDE DEF processed
<1>5. StageOK(built) /\ HostText(built.slot)
  BY <1>4, BuildHostOK, BuildHostText DEF StageOK, Stage
<1> HIDE DEF built
<1>6. SlotOK(relayed.slot) /\ HostText(relayed.slot)
  BY <1>1, <1>5, OnDataRelayOK, OnDataRelayText, UndisturbedText
     DEF StageOK, Stage
<1> HIDE DEF relayed
<1>7. CliEvent(c, events, outcome, headmem, mem) = Finish(relayed, Cli)
  BY DEF CliEvent, ServerFinish, ServerDataRelay, a, parsed, processed, built,
         relayed
<1> QED
  BY <1>6, <1>7, FinishText, UndisturbedText

\* and so does every step.
LEMMA TextStep ==
    ASSUME Inv, \A s \in Slot : HostText(conn[s]), [Next]_vars
    PROVE  \A s \in Slot : HostText(conn[s])'
<1>0. /\ conn \in [Slot -> SlotType]
      /\ \A s \in Slot : SlotOK(conn[s])
  BY InvSlots DEF Inv, TypeOK
<1>1. CASE AgentStep \/ EpollWait \/ WaitInterrupted \/ UNCHANGED vars
           \/ \E e \in batch : SkipEvent(e)
  <2>1. conn' = conn
    BY <1>1 DEF AgentStep, AgentInterrupted, AgentNoSession, AgentRefuses,
                EpollWait, WaitInterrupted, SkipEvent, vars
  <2> QED
    BY <2>1
<1>2. ASSUME NEW d \in Elapsed, NEW q \in Requests, NEW registered \in BOOLEAN,
             AgentAccepts(d, InitServerSession(q), registered)
      PROVE  \A s \in Slot : HostText(conn[s])'
  <2> DEFINE fresh == InitServerSession(q)
             opened == [fresh EXCEPT !.fd[Cli] = TRUE, !.sock[Cli] = NewSocket("est")]
  <2>1. /\ opened \in SlotType /\ opened.strings = {} /\ ~opened.fd[Svr]
    <3>1. NewSocket("est") \in SocketType
      BY NewSocketType
    <3>2. /\ fresh \in SlotType /\ fresh.strings = {}
          /\ fresh.fd = [x \in Side |-> FALSE]
      BY InitServerSessionFresh, Zenon
         DEF Fresh, InitServerSession, InitSession, EmptySlot
    <3> HIDE DEF fresh
    <3> QED
      BY <3>1, <3>2 DEF SlotType, Side, Cli, Svr
  <2> HIDE DEF opened
  <2>2. HostText(opened)
    BY <2>1 DEF HostText
  <2>3. HostText(EpollAdd(opened, Cli, {EPOLLIN}, Cli))
    BY <2>1 DEF EpollAdd, SlotType, HostText
  <2>4. HostText(FreeSession(opened))
    BY <2>1, <2>2, FreeSessionText, UndisturbedText
  <2>5. conn' = [conn EXCEPT ![FirstFree] =
                   IF registered THEN EpollAdd(opened, Cli, {EPOLLIN}, Cli)
                   ELSE FreeSession(opened)]
    BY <1>2 DEF AgentAccepts, Accepted, opened
  <2> QED
    BY <1>0, <2>3, <2>4, <2>5
<1>3. ASSUME NEW e \in batch, HandleSvrEvent(e) \/ HandleCliEvent(e)
      PROVE  \A s \in Slot : HostText(conn[s])'
  <2> DEFINE c == conn[e.slot]
  <2>1. c.flag /\ e.slot \in Slot /\ SlotOK(c) /\ HostText(c)
    BY <1>0, <1>3 DEF HandleSvrEvent, HandleCliEvent, Inv, TypeOK, EventType
  <2>2. ASSUME NEW d, HostText(d), HandleEvent(e, d)
        PROVE  \A s \in Slot : HostText(conn[s])'
    BY <1>0, <2>1, <2>2 DEF HandleEvent
  <2>3. CASE HandleSvrEvent(e)
    <3>1. PICK mem \in MallocOutcomes : HandleEvent(e, SvrEvent(c, e.events, mem))
      BY <2>3 DEF HandleSvrEvent
    <3>2. mem \in BOOLEAN
      BY DEF MallocOutcomes
    <3> HIDE DEF c
    <3>3. HostText(SvrEvent(c, e.events, mem))
      BY <2>1, <3>2, SvrEventText, UndisturbedText
    <3> QED
      BY <2>2, <3>1, <3>3
  <2>4. CASE HandleCliEvent(e)
    <3>1. PICK headmem \in MallocOutcomes, mem \in MallocOutcomes,
               outcome \in HostOutcomes :
            HandleEvent(e, CliEvent(c, e.events, outcome, headmem, mem))
      BY <2>4 DEF HandleCliEvent
    <3>2. mem \in BOOLEAN /\ headmem \in BOOLEAN
      BY DEF MallocOutcomes
    <3> HIDE DEF c
    <3>3. HostText(CliEvent(c, e.events, outcome, headmem, mem))
      BY <2>1, <3>2, CliEventText
    <3> QED
      BY <2>2, <3>1, <3>3
  <2> QED
    BY <1>3, <2>3, <2>4
<1>4. CASE TimeoutStep
  <2>1. \A s \in Slot : HostText(FreeSession(conn[s]))
    BY <1>0, FreeSessionText, UndisturbedText
  <2>2. ASSUME NEW walked, Walk(walked)
        PROVE  \A s \in Slot : HostText(conn[s])'
    BY <2>1, <2>2 DEF Walk, Reaped
  <2> QED
    BY <1>4, <2>2 DEF TimeoutStep, TimeoutNotDue, TimeoutWalk, TimeoutSweep
<1>5. CASE PeerStep
  <2> SUFFICES ASSUME NEW s \in Slot
               PROVE  HostText(conn'[s])
    OBVIOUS
  <2>1. Undisturbed(conn[s], conn'[s])
    BY <1>5, PeerKeeps DEF Undisturbed
  <2> QED
    BY <2>1, UndisturbedText
<1> QED
  BY <1>1, <1>2, <1>3, <1>4, <1>5
     DEF Next, HandleAgentEvent, HandleConnectionsEvent, HandleSessionTimeout,
         Dispatch, Accept

\* In the server too no descriptor, registration, packet or parsed header
\* outlives its session, although on_parse_header and its caller may both free
\* it.  Of the strings made of the Host field, which are no part of a session,
\* those are lost that the code never frees and no others: the copy of the whole
\* field, the name that is not resolved, the port without a name.
THEOREM ServerNothingLeaks == Spec => []OnlyHostStringsLeak
<1> DEFINE Text == \A s \in Slot : HostText(conn[s])
<1>1. Init => Text
  <2>1. \A q : HostText(EmptySlot(q))
    BY DEF EmptySlot, HostText, Side
  <2> QED
    BY <2>1 DEF Init
<1>2. Inv /\ Text /\ [Next]_vars => Text'
  BY TextStep
<1>3. Inv /\ Text => OnlyHostStringsLeak
  BY InvSlots DEF OnlyHostStringsLeak, HostText, SlotOK
<1> QED
  BY <1>1, <1>2, <1>3, Invariant, PTL DEF Spec

-----------------------------------------------------------------------------
\* No step within a batch touches a free slot.
LEMMA BatchStepUntouched ==
    ASSUME Inv, [Next]_vars, pc = "dispatch"
    PROVE  Untouched
<1>1. ASSUME NEW e \in batch,
             SkipEvent(e) \/ HandleSvrEvent(e) \/ HandleCliEvent(e)
      PROVE  Untouched
  BY <1>1, HandleEventUntouched
     DEF SkipEvent, HandleSvrEvent, HandleCliEvent, Untouched
<1>2. CASE PeerStep
  BY <1>2, PeerUntouched
<1>3. CASE UNCHANGED vars
  BY <1>3 DEF vars, Untouched
<1>4. ~AgentStep /\ ~Accept /\ ~EpollWait /\ ~WaitInterrupted /\ ~TimeoutStep
  BY DEF AgentStep, AgentInterrupted, AgentNoSession, AgentRefuses, Accept,
         AgentAccepts, EpollWait, WaitInterrupted, TimeoutStep, TimeoutNotDue,
         TimeoutWalk, TimeoutSweep
<1> QED
  BY <1>1, <1>2, <1>3, <1>4
     DEF Next, HandleAgentEvent, HandleConnectionsEvent, HandleSessionTimeout,
         Dispatch

\* A session that a stage of its request gave up stays given up, whatever else
\* the batch holds for it.
THEOREM ServerFreedStaysFreed == Spec => FreedSlotUntouched
<1>1. Inv /\ [Next]_vars =>
        [pc = "dispatch" =>
           \A s \in Slot : ~conn[s].flag => conn'[s] = conn[s]]_vars
  BY BatchStepUntouched DEF Untouched
<1> QED
  BY <1>1, Invariant, PTL DEF Spec, FreedSlotUntouched

-----------------------------------------------------------------------------
(* One event of the client: the stages, what they leave of the discipline   *)
(* and what they do with the bytes.                                         *)

\* The header is still being collected: all that was read of the client is in
\* the cache, deciphered, and nothing is queued or given to anyone.
Collecting(c) ==
    /\ ~c.fd[Svr] /\ c.status[Svr] = "INIT" /\ c.taken[Svr] = 0
    /\ c.head = Translate(Cli, SubSeq(PeerBytes(c, Cli), 0 + 1, c.taken[Cli]))
    /\ Through(c, Svr) = <<>> /\ c.data[Cli] = <<>>

\* What goes to side x's partner before anything that is read from x after
\* the first Skipped(c, x) bytes.
Preface(c, x) ==
    IF x = Svr /\ c.req.connect THEN Translate(Svr, Established) ELSE <<>>
Skipped(c, x) == IF x = Cli /\ c.req.connect THEN Len(c.head) ELSE 0

Judged(c) == c.req.parses /\ HeaderComplete(c) /\ Len(c.head) <= c.taken[Cli]

\* The header is processed and the host is not yet contacted.
Processed(c) ==
    /\ Judged(c)
    /\ ~c.fd[Svr] /\ c.status[Svr] = "INIT" /\ c.taken[Svr] = 0
    /\ c.data[Cli] = Translate(Cli,
         SubSeq(PeerBytes(c, Cli), Skipped(c, Cli) + 1, c.taken[Cli]))
    /\ Through(c, Svr) = Preface(c, Svr)

\* The host is, or was, connected.
Relays(c) ==
    /\ Judged(c) /\ c.req.host
    /\ \A x \in Side : Carried(c, x, Preface(c, x), Skipped(c, x))

\* A session within the stages of an event.
Progress(c) ==
    /\ \A x \in Side : Counted(c, x)
    /\ \/ /\ c.status[Cli] = "PARSE_HEAD" /\ Collecting(c)
          /\ Len(c.head) < HeadMax
       \/ c.status[Cli] = "PROCESS_HEAD" /\ Collecting(c) /\ Judged(c)
       \/ c.status[Cli] = "BUILD_SVR" /\ Processed(c)
       \/ c.status[Cli] = "DATA_RELAY" /\ Relays(c)
       \/ c.status[Cli] = "CLOSE" /\ ~c.fd[Svr] /\ c.data[Cli] = <<>>

\* The result of a stage.
Passes(r) ==
    /\ SlotOK(r.slot)
    /\ r.ret = 0 \/ r.ret < 0
    /\ r.slot.flag <=> r.ret = 0
    /\ r.ret = 0 => Midway(r.slot, Cli) /\ Progress(r.slot)

\* One read() into the cache.
Caches(c) ==
    LET len == Len(c.sock[Cli].rx)
        space == HeadMax - Len(c.head)
    IN  IF len <= space THEN len ELSE space
Cached(c) ==
    [c EXCEPT
        !.head = @ \o Translate(Cli, SubSeq(c.sock[Cli].rx, 1, Caches(c))),
        !.taken[Cli] = @ + Caches(c),
        !.sock[Cli].rx = SubSeq(c.sock[Cli].rx, Caches(c) + 1,
                                 Len(c.sock[Cli].rx))]

\* What on_parse_header may return.
LEMMA OnParseHeaderCases ==
    ASSUME NEW c, NEW events
    PROVE  LET p == OnParseHeader(c, events) IN
           \/ /\ Caches(c) > 0 /\ HeaderComplete(Cached(c)) /\ c.req.parses
              /\ p = Return(0, Cached(c))
           \/ Caches(c) > 0 /\ p = Return(-1, Cached(c))
           \/ /\ Caches(c) > 0 /\ Len(Cached(c).head) # HeadMax
              /\ p = Return(-2, Cached(c))
           \/ p = Return(-1, FreeSession(c))
           \/ p = Return(-2, Ended(c, Cli))
           \/ p = Return(-2, c)
<1> DEFINE p == OnParseHeader(c, events)
           k == c.sock[Cli]
           n == Caches(c)
           d == Cached(c)
<1>1. p = CASE EPOLLIN \notin events -> Return(-2, c)
            [] EPOLLIN \in events /\ n > 0 ->
                 IF HeaderComplete(d)
                 THEN Return(IF c.req.parses THEN 0 ELSE -1, d)
                 ELSE Return(IF Len(d.head) = HeadMax THEN -1 ELSE -2, d)
            [] EPOLLIN \in events /\ n = 0 /\ Len(k.rx) = 0 /\ k.rst ->
                 Return(-1, FreeSession(c))
            [] EPOLLIN \in events /\ n = 0 /\ ~(Len(k.rx) = 0 /\ k.rst)
               /\ (HeadMax - Len(c.head) = 0 \/ k.fin) ->
                 Return(-2, Ended(c, Cli))
            [] OTHER -> Return(-2, c)
  BY DEF OnParseHeader, Caches, Cached, Ended, ServerSessionErr, OnSessionErr
<1> HIDE DEF p, d, n
<1>2. CASE EPOLLIN \notin events
  BY <1>1, <1>2 DEF p
<1>3. CASE EPOLLIN \in events /\ n > 0
  <2>1. p = IF HeaderComplete(d)
            THEN Return(IF c.req.parses THEN 0 ELSE -1, d)
            ELSE Return(IF Len(d.head) = HeadMax THEN -1 ELSE -2, d)
    BY <1>1, <1>3
  <2> QED
    BY <1>3, <2>1 DEF p, d, n
<1>4. CASE EPOLLIN \in events /\ ~(n > 0)
  <2>1. p \in {Return(-1, FreeSession(c)), Return(-2, Ended(c, Cli)),
               Return(-2, c)}
    BY <1>1, <1>4
  <2> QED
    BY <2>1 DEF p
<1> QED
  BY <1>2, <1>3, <1>4 DEF p

\* One read() into the cache goes on collecting.
LEMMA CachedOK ==
    ASSUME NEW c, SlotOK(c), c.flag, c.fd[Cli], Collecting(c),
           Counted(c, Cli), Caches(c) > 0
    PROVE  LET d == Cached(c) IN
           /\ SlotOK(d) /\ d.flag /\ d.fd = c.fd /\ d.status = c.status
           /\ d.event_fd = c.event_fd /\ d.req = c.req
           /\ \A x \in Side : Counted(d, x)
           /\ Collecting(d) /\ Len(d.head) <= HeadMax
           /\ Len(d.head) = d.taken[Cli]
<1> DEFINE k == c.sock[Cli]
           rx == k.rx
           n == Caches(c)
           p == PeerBytes(c, Cli)
           i == c.taken[Cli]
           got == SubSeq(rx, 1, n)
           rest == SubSeq(rx, n + 1, Len(rx))
           before == SubSeq(p, 0 + 1, i)
           after == SubSeq(p, 0 + 1, i + n)
           grown == c.head \o Translate(Cli, got)
           d == Cached(c)
<1>1. /\ Cli \in Side /\ Svr \in Side /\ Cli # Svr /\ c \in SlotType
      /\ Other(Svr) = Cli
  BY DEF Side, Cli, Svr, SlotOK, Other
<1>2. /\ k \in SocketType /\ rx \in Seq(Byte) /\ c.head \in Seq(Byte)
      /\ i \in Nat /\ k.sent \in Nat /\ p \in Seq(Byte)
  BY <1>1, ThroughType DEF SlotType
<1>3. /\ Len(rx) \in Nat /\ Len(c.head) \in Nat /\ Len(p) \in Nat
      /\ HeadMax \in Nat
  BY <1>2, LenProperties, HeadAssumption DEF HeadOK
<1>4. n \in Nat /\ n <= Len(rx) /\ n <= HeadMax - Len(c.head)
  <2>1. n > 0 /\ n = IF Len(rx) <= HeadMax - Len(c.head) THEN Len(rx)
                     ELSE HeadMax - Len(c.head)
    BY DEF Caches
  <2> DEFINE a == Len(rx)
             b == HeadMax - Len(c.head)
  <2>2. a \in Nat /\ b \in Int
    BY <1>3
  <2>3. n > 0 /\ n = IF a <= b THEN a ELSE b
    BY <2>1
  <2> HIDE DEF n, a, b
  <2>4. n \in Nat /\ n <= a /\ n <= b
    BY ONLY <2>2, <2>3
  <2> QED
    BY <2>4 DEF a, b
<1>5. /\ i <= k.sent /\ k.sent <= Len(p)
      /\ rx = SubSeq(p, i + 1, k.sent)
  BY DEF Counted
<1>6. got \in Seq(Byte) /\ rest \in Seq(Byte) /\ Len(got) = n
  <2>1. got \in Seq(Byte) /\ rest \in Seq(Byte)
    BY <1>2, <1>4, Piece
  <2>2. SubSeq(rx, 0 + 1, n) \in Seq(Byte) /\ Len(SubSeq(rx, 0 + 1, n)) = n - 0
    BY <1>2, <1>4, Pieces
  <2> QED
    BY <1>4, <2>1, <2>2
<1>7. /\ got = SubSeq(p, i + 1, i + n)
      /\ rest = SubSeq(p, i + n + 1, k.sent)
  <2> DEFINE b == k.sent
             q == SubSeq(p, i + 1, b)
  <2>1. Len(rx) = b - i
    BY <1>2, <1>5, Pieces
  <2>2. n <= b - i
    BY <1>4, <2>1
  <2>3. /\ SubSeq(q, 1, n) = SubSeq(p, i + 1, i + n)
        /\ SubSeq(q, n + 1, Len(q)) = SubSeq(p, i + n + 1, b)
    <3>1. /\ i \in Nat /\ b \in Nat /\ n \in Nat /\ p \in Seq(Byte)
          /\ i <= b /\ b <= Len(p) /\ n <= b - i
      BY <1>2, <1>4, <1>5, <2>2
    <3> HIDE DEF i, b, n, p
    <3> QED
      BY <3>1, PieceOfPiece
  <2> QED
    BY <1>5, <2>3
<1>8. i + n \in Nat /\ i + n <= k.sent /\ i + n <= Len(p)
  <2>1. Len(rx) = k.sent - i
    BY <1>2, <1>5, Pieces
  <2> HIDE DEF n, i
  <2> QED
    BY <1>2, <1>3, <1>4, <1>5, <2>1
<1>9. grown = Translate(Cli, after) /\ grown \in Seq(Byte)
      /\ Len(grown) = i + n /\ Len(grown) <= HeadMax
  <2>1. 0 \in Nat /\ 0 <= i /\ i <= Len(p)
    BY <1>2, <1>3, <1>5
  <2>2. before \in Seq(Byte) /\ Len(before) = i - 0
    BY <1>2, <2>1, Pieces
  <2>3. after \in Seq(Byte) /\ Len(after) = (i + n) - 0
    BY <1>2, <1>8, <2>1, Pieces
  <2>4. before \o got = after
    <3>1. i <= i + n
      BY <1>2, <1>4
    <3>2. SubSeq(p, 0 + 1, i) \o SubSeq(p, i + 1, i + n) = SubSeq(p, 0 + 1, i + n)
      <4>1. p \in Seq(Byte) /\ i \in Nat /\ i + n \in Nat
        BY <1>2, <1>8
      <4> DEFINE j == i + n
      <4>2. j \in Nat /\ i <= j /\ j <= Len(p)
        BY <1>8, <3>1
      <4> HIDE DEF i, j, p
      <4>3. SubSeq(p, 0 + 1, i) \o SubSeq(p, i + 1, j) = SubSeq(p, 0 + 1, j)
        BY <2>1, <4>1, <4>2, PiecesJoin
      <4> QED
        BY <4>3 DEF j
    <3> QED
      BY <1>7, <3>2
  <2>5. c.head = Translate(Cli, before)
    BY DEF Collecting
  <2> HIDE DEF before, got, after
  <2>6. /\ Translate(Cli, before \o got)
             = Translate(Cli, before) \o Translate(Cli, got)
        /\ Translate(Cli, after) \in Seq(Byte)
        /\ Len(Translate(Cli, after)) = Len(after)
        /\ Len(Translate(Cli, before)) = Len(before)
    BY <1>1, <1>6, <2>2, <2>3, TranslateConcat, TranslateType, ZenonT(30)
  <2>7. grown = Translate(Cli, after)
    BY <2>4, <2>5, <2>6, SMTT(30)
  <2>8. Len(grown) = i + n /\ Len(c.head) = i
    BY <1>2, <1>8, <2>2, <2>3, <2>5, <2>6, <2>7
  <2>9. i + n <= HeadMax
    BY <1>2, <1>3, <1>4, <2>8
  <2> QED
    BY <2>6, <2>7, <2>8, <2>9
<1>10. d = [c EXCEPT !.head = grown, !.taken[Cli] = @ + n,
                     !.sock[Cli].rx = rest]
  BY DEF Cached
<1> HIDE DEF n, got, rest, grown, d, after, before
<1>11. /\ d.flag /\ d.fd = c.fd /\ d.status = c.status
       /\ d.event_fd = c.event_fd /\ d.req = c.req /\ d.data = c.data
       /\ d.reg = c.reg /\ d.head = grown
       /\ d.taken[Cli] = i + n /\ d.taken[Svr] = c.taken[Svr]
       /\ d.sock[Svr] = c.sock[Svr]
  BY <1>1, <1>10 DEF SlotType
<1>12. /\ d.sock[Cli].out = k.out /\ d.sock[Cli].rx = rest
       /\ d.sock[Cli].sent = k.sent /\ d.sock[Cli].st = k.st
  BY <1>1, <1>2, <1>10 DEF SlotType, SocketType
<1>13. d \in SlotType
  <2>1. c.taken[Cli] + n \in Nat
    BY <1>8
  <2> QED
    BY <1>1, <1>2, <1>6, <1>9, <1>10, <2>1 DEF SlotType, SocketType
<1>14. SlotOK(d)
  <2>1. \A y \in Side : /\ d.fd[y] <=> c.fd[y]
                        /\ d.sock[y].st = c.sock[y].st
                        /\ d.reg[y].on <=> c.reg[y].on
    BY <1>1, <1>11, <1>12 DEF Side
  <2> QED
    BY <1>11, <1>13, <2>1, SameOwnership
<1>15. \A x \in Side : PeerBytes(d, x) = PeerBytes(c, x)
  BY <1>11 DEF PeerBytes
<1>16. Counted(d, Cli)
  BY <1>1, <1>5, <1>7, <1>8, <1>11, <1>12, <1>15 DEF Counted
<1>17. Counted(d, Svr)
  <2>1. /\ c.taken[Svr] = 0 /\ ~d.fd[Svr] /\ PeerBytes(d, Svr) \in Seq(Byte)
    BY <1>1, <1>11, <1>13, ThroughType DEF Collecting
  <2>2. Len(PeerBytes(d, Svr)) \in Nat
    BY <2>1, LenProperties
  <2> QED
    BY <1>11, <2>1, <2>2 DEF Counted
<1>18. Collecting(d)
  <2>1. Through(d, Svr) = Through(c, Svr)
    BY <1>1, <1>11, <1>12 DEF Through
  <2>2. d.head = Translate(Cli, SubSeq(PeerBytes(d, Cli), 0 + 1, d.taken[Cli]))
    BY <1>1, <1>9, <1>11, <1>15 DEF after
  <2> QED
    BY <1>11, <2>1, <2>2 DEF Collecting
<1> QED
  BY <1>9, <1>11, <1>14, <1>16, <1>17, <1>18 DEF d, Side

\* All that was read is in the cache.
LEMMA HeadIsTaken ==
    ASSUME NEW c \in SlotType, Collecting(c), Counted(c, Cli)
    PROVE  Len(c.head) = c.taken[Cli]
<1> DEFINE p == PeerBytes(c, Cli)
           i == c.taken[Cli]
           all == SubSeq(p, 0 + 1, i)
<1>1. Cli \in Side
  BY DEF Side
<1>2. p \in Seq(Byte) /\ i \in Nat /\ i <= Len(p) /\ 0 \in Nat /\ 0 <= i
  BY <1>1, ThroughType DEF Counted
<1>3. all \in Seq(Byte) /\ Len(all) = i - 0
  BY <1>2, Pieces
<1>4. c.head = Translate(Cli, all)
  BY DEF Collecting
<1> HIDE DEF all
<1>5. Len(c.head) = Len(all)
  BY <1>1, <1>3, <1>4, TranslateType
<1> QED
  BY <1>2, <1>3, <1>5

\* Before the host is contacted the client's status may move on freely.
LEMMA StatusMoves ==
    ASSUME NEW c, SlotOK(c), c.flag, Midway(c, Cli), c.status[Svr] = "INIT",
           ~c.fd[Svr], NEW new \in Status
    PROVE  LET d == [c EXCEPT !.status[Cli] = new] IN
           /\ SlotOK(d) /\ d.flag /\ Midway(d, Cli) /\ d.status[Cli] = new
           /\ d.fd = c.fd /\ d.head = c.head /\ d.data = c.data
           /\ \A x \in Side : Counted(c, x) => Counted(d, x)
           /\ Collecting(c) => Collecting(d)
           /\ Judged(c) => Judged(d)
           /\ Processed(c) => Processed(d)
<1> DEFINE d == [c EXCEPT !.status[Cli] = new]
<1>1. Cli \in Side /\ Svr \in Side /\ Cli # Svr /\ Other(Cli) = Svr /\ c \in SlotType
  BY DEF Side, Cli, Svr, Other, SlotOK
<1>2. SlotOK(d) /\ d.flag
  BY <1>1, StatusOK
<1>3. /\ d.fd = c.fd /\ d.head = c.head /\ d.data = c.data /\ d.req = c.req
      /\ d.taken = c.taken /\ d.sock = c.sock /\ d.event_fd = c.event_fd
      /\ d.status[Cli] = new /\ d.status[Svr] = c.status[Svr]
  BY <1>1 DEF SlotType
<1> HIDE DEF d
<1>4. Midway(d, Cli)
  BY <1>1, <1>3 DEF Midway, Begun
<1>5. \A x : PeerBytes(d, x) = PeerBytes(c, x) /\ Through(d, x) = Through(c, x)
  BY <1>3 DEF PeerBytes, Through
<1>6. \A x \in Side : Counted(c, x) => Counted(d, x)
  BY <1>3, <1>5 DEF Counted
<1>7. Collecting(c) => Collecting(d)
  BY <1>3, <1>5 DEF Collecting
<1>8. Judged(c) => Judged(d)
  BY <1>3 DEF Judged, HeaderComplete
<1>9. Processed(c) => Processed(d)
  <2>1. Skipped(d, Cli) = Skipped(c, Cli) /\ Preface(d, Svr) = Preface(c, Svr)
    BY <1>3 DEF Skipped, Preface
  <2> QED
    BY <1>3, <1>5, <1>8, <2>1 DEF Processed
<1> QED
  BY <1>2, <1>3, <1>4, <1>6, <1>7, <1>8, <1>9 DEF d

\* The first stage passes the session on, soundly, or frees it,
LEMMA ParseHeadPasses ==
    ASSUME NEW c, SlotOK(c), c.flag, c.status[Cli] = "PARSE_HEAD",
           Midway(c, Cli), Progress(c), NEW events
    PROVE  Passes(ParseHead(c, events))
<1> DEFINE p == OnParseHeader(c, events)
           r == ParseHead(c, events)
           d == Cached(c)
           next == [d EXCEPT !.status[Cli] = "PROCESS_HEAD"]
           ended == [c EXCEPT !.status[Cli] = "CLOSE"]
<1>1. /\ Cli \in Side /\ c.fd[Cli] /\ \A x \in Side : Counted(c, x)
      /\ Collecting(c) /\ Len(c.head) < HeadMax
      /\ c.status[Svr] = "INIT" /\ ~c.fd[Svr] /\ Other(Cli) = Svr
  BY DEF Side, Progress, Midway, Collecting, Other
<1>2. Caches(c) > 0 =>
        /\ SlotOK(d) /\ d.flag /\ d.fd = c.fd /\ d.status = c.status
        /\ d.event_fd = c.event_fd /\ d.req = c.req
        /\ \A x \in Side : Counted(d, x)
        /\ Collecting(d) /\ Len(d.head) <= HeadMax
        /\ Len(d.head) = d.taken[Cli]
  BY <1>1, CachedOK
<1> HIDE DEF d
<1>3. Caches(c) > 0 => Midway(d, Cli)
  BY <1>1, <1>2 DEF Midway, Begun, Collecting
<1>4. /\ p.ret = 0 => r = Return(0, [p.slot EXCEPT !.status[Cli] = "PROCESS_HEAD"])
      /\ p.ret = -1 => r = Return(-1, FreeSession(p.slot))
      /\ p.ret = -2 => r = Return(0, p.slot)
  BY DEF ParseHead, ServerSessionErr, OnSessionErr
<1>5. \/ /\ Caches(c) > 0 /\ HeaderComplete(d) /\ c.req.parses
         /\ p = Return(0, d)
      \/ Caches(c) > 0 /\ p = Return(-1, d)
      \/ /\ Caches(c) > 0 /\ Len(d.head) # HeadMax
         /\ p = Return(-2, d)
      \/ p = Return(-1, FreeSession(c))
      \/ p = Return(-2, Ended(c, Cli))
      \/ p = Return(-2, c)
  BY OnParseHeaderCases DEF d
<1> HIDE DEF p, r
<1>6. CASE Caches(c) > 0 /\ HeaderComplete(d) /\ c.req.parses /\ p = Return(0, d)
  <2>1. r = Return(0, next)
    BY <1>4, <1>6 DEF Return
  <2>2. Judged(d)
    <3>1. d.taken[Cli] \in Nat
      BY <1>1, <1>2, <1>6 DEF SlotOK, SlotType
    <3>2. Len(d.head) <= d.taken[Cli]
      BY <1>2, <1>6, <3>1
    <3> QED
      BY <1>2, <1>6, <3>2 DEF Judged
  <2>3. /\ SlotOK(next) /\ next.flag /\ Midway(next, Cli)
        /\ next.status[Cli] = "PROCESS_HEAD"
        /\ \A x \in Side : Counted(next, x)
        /\ Collecting(next) /\ Judged(next)
    <3>1. "PROCESS_HEAD" \in Status /\ d.status[Svr] = "INIT" /\ ~d.fd[Svr]
      BY <1>1, <1>2, <1>6 DEF Status
    <3> QED
      BY <1>2, <1>3, <1>6, <2>2, <3>1, StatusMoves
  <2> HIDE DEF next
  <2>4. Progress(next)
    BY <2>3 DEF Progress
  <2> QED
    BY <2>1, <2>3, <2>4 DEF Passes, Return, r
<1>7. CASE p.ret = -1 /\ SlotOK(p.slot)
  <2>1. r = Return(-1, FreeSession(p.slot))
    BY <1>4, <1>7
  <2>2. SlotOK(FreeSession(p.slot)) /\ ~FreeSession(p.slot).flag
    BY <1>7, FreeSessionOK
  <2> QED
    BY <2>1, <2>2 DEF Passes, Return, r
<1>8. CASE Caches(c) > 0 /\ Len(d.head) # HeadMax /\ p = Return(-2, d)
  <2>1. r = Return(0, d)
    BY <1>4, <1>8 DEF Return
  <2>2. Len(d.head) < HeadMax
    <3>1. Len(d.head) \in Nat /\ HeadMax \in Nat
      BY <1>2, <1>8, LenProperties, HeadAssumption DEF HeadOK, SlotOK, SlotType
    <3> QED
      BY <1>2, <1>8, <3>1
  <2>3. d.status[Cli] = "PARSE_HEAD"
    BY <1>2, <1>8
  <2>4. Progress(d)
    BY <1>2, <1>8, <2>2, <2>3 DEF Progress
  <2> QED
    BY <1>2, <1>3, <1>8, <2>1, <2>4 DEF Passes, Return, r
<1>9. CASE p = Return(-2, Ended(c, Cli))
  <2>1. r = Return(0, ended)
    BY <1>4, <1>9 DEF Return, Ended
  <2>2. /\ SlotOK(ended) /\ ended.flag /\ Midway(ended, Cli)
        /\ ended.status[Cli] = "CLOSE" /\ ended.fd = c.fd
        /\ ended.data = c.data /\ \A x \in Side : Counted(ended, x)
    <3>1. "CLOSE" \in Status
      BY DEF Status
    <3> QED
      BY <1>1, <3>1, StatusMoves
  <2> HIDE DEF ended
  <2>3. Progress(ended)
    BY <1>1, <2>2 DEF Progress, Collecting
  <2> QED
    BY <2>1, <2>2, <2>3 DEF Passes, Return, r
<1>10. CASE p = Return(-2, c)
  BY <1>4, <1>10 DEF Passes, Return, r
<1> QED
  <2>1. SlotOK(FreeSession(c))
    BY FreeSessionOK
  <2> QED
    BY <1>2, <1>5, <1>6, <1>7, <1>8, <1>9, <1>10, <2>1 DEF Return, r, d

\* and so does the second.
LEMMA ProcessHeadPasses ==
    ASSUME NEW c, SlotOK(c), c.flag, c.status[Cli] = "PROCESS_HEAD",
           Midway(c, Cli), Progress(c), NEW mem \in BOOLEAN
    PROVE  Passes(ProcessHead(c, mem))
<1> DEFINE r == ProcessHead(c, mem)
           answer == c.data[Svr] \o Translate(Svr, Established)
           pass == c.data[Cli] \o c.head
           answered == [c EXCEPT !.data[Svr] = answer]
           passed == [c EXCEPT !.data[Cli] = pass]
           queued == IF c.req.connect THEN answered ELSE passed
           next == [queued EXCEPT !.status[Cli] = "BUILD_SVR"]
<1>1. /\ Cli \in Side /\ Svr \in Side /\ Cli # Svr
      /\ Other(Svr) = Cli /\ Other(Cli) = Svr /\ c \in SlotType
  BY DEF Side, Cli, Svr, Other, SlotOK
<1>2. /\ \A x \in Side : Counted(c, x)
      /\ Collecting(c) /\ Judged(c) /\ c.fd[Cli]
      /\ c.status[Svr] = "INIT" /\ ~c.fd[Svr]
  BY DEF Progress, Midway, Collecting
<1>3. /\ c.head \in Seq(Byte) /\ \A x \in Side : c.data[x] \in Seq(Byte)
      /\ c.taken[Cli] \in Nat /\ c.sock[Cli].out \in Seq(Byte)
  BY <1>1, ThroughType DEF SlotType
<1>4. /\ answer \in Seq(Byte) /\ pass \in Seq(Byte)
      /\ Translate(Svr, Established) \in Seq(Byte)
  BY <1>1, <1>3, HeadAssumption, TranslateType, ConcatProperties DEF HeadOK
<1>5. pass = c.head
  BY <1>2, <1>3, ConcatEmptySeq DEF Collecting
<1>6. c.sock[Cli].out \o answer = Translate(Svr, Established)
  <2>1. (c.sock[Cli].out \o c.data[Svr]) \o Translate(Svr, Established)
          = c.sock[Cli].out \o answer
    <3> DEFINE a == c.sock[Cli].out
               b == c.data[Svr]
               e == Translate(Svr, Established)
    <3>1. a \in Seq(Byte) /\ b \in Seq(Byte) /\ e \in Seq(Byte)
      BY <1>1, <1>3, <1>4
    <3> HIDE DEF a, b, e
    <3>2. (a \o b) \o e = a \o (b \o e)
      BY ONLY <3>1, Regroup
    <3> QED
      BY <3>2 DEF a, b, e
  <2>2. c.sock[Cli].out \o c.data[Svr] = <<>>
    <3>1. Through(c, Svr) = c.sock[Cli].out \o c.data[Svr]
      BY <1>1 DEF Through
    <3> QED
      BY <1>2, <3>1 DEF Collecting
  <2> QED
    BY <1>4, <2>1, <2>2, ConcatEmptySeq
<1> HIDE DEF answer, pass
<1>7. /\ queued.flag /\ queued.event_fd = c.event_fd /\ queued.fd = c.fd
      /\ queued.status = c.status /\ queued.head = c.head
      /\ queued.req = c.req /\ queued.taken = c.taken
      /\ queued.sock = c.sock
      /\ queued.data[Svr] = IF c.req.connect THEN answer ELSE c.data[Svr]
      /\ queued.data[Cli] = IF c.req.connect THEN c.data[Cli] ELSE pass
  BY <1>1 DEF SlotType
<1>8. SlotOK(queued)
  <2>1. SlotOK(answered)
    BY <1>1, <1>4 DEF SlotOK, SlotType, SlotHoldsWhatItOwns
  <2>2. SlotOK(passed)
    BY <1>1, <1>4 DEF SlotOK, SlotType, SlotHoldsWhatItOwns
  <2> QED
    BY <2>1, <2>2
<1>9. r \in {Return(-1, FreeSession(FreeSession(c))), Return(0, next)}
  <2>1. CASE ~mem
    BY <2>1 DEF ProcessHead, OnProcessHeader, Return, ServerSessionErr,
                OnSessionErr
  <2>2. CASE mem /\ c.req.connect
    BY <2>2 DEF ProcessHead, OnProcessHeader, Return, answer
  <2>3. CASE mem /\ ~c.req.connect
    BY <2>3 DEF ProcessHead, OnProcessHeader, Return, pass
  <2> QED
    BY <2>1, <2>2, <2>3
<1> HIDE DEF queued, r
<1>10. \A x : PeerBytes(queued, x) = PeerBytes(c, x)
  BY <1>7 DEF PeerBytes
<1>11. \A x \in Side : Counted(queued, x)
  BY <1>2, <1>7, <1>10 DEF Counted
<1>12. Midway(queued, Cli)
  BY <1>1, <1>2, <1>7 DEF Midway, Begun
<1>13. Judged(queued)
  BY <1>2, <1>7 DEF Judged, HeaderComplete
<1>14. Processed(queued)
  <2>1. Through(queued, Svr) = Preface(queued, Svr)
    <3>1. Through(queued, Svr) = c.sock[Cli].out \o queued.data[Svr]
      BY <1>1, <1>7 DEF Through
    <3>2. Through(c, Svr) = c.sock[Cli].out \o c.data[Svr]
      BY <1>1 DEF Through
    <3> QED
      BY <1>2, <1>6, <1>7, <3>1, <3>2 DEF Preface, Collecting
  <2>2. c.head = Translate(Cli, SubSeq(PeerBytes(c, Cli), 0 + 1, c.taken[Cli]))
        /\ c.data[Cli] = <<>>
    BY <1>2 DEF Collecting
  <2>3. queued.data[Cli] = Translate(Cli,
          SubSeq(PeerBytes(queued, Cli), Skipped(queued, Cli) + 1,
                 queued.taken[Cli]))
    <3>1. CASE ~c.req.connect
      BY <1>5, <1>7, <1>10, <2>2, <3>1 DEF Skipped
    <3>2. CASE c.req.connect
      <4>1. Len(c.head) = c.taken[Cli]
        BY <1>1, <1>2, HeadIsTaken
      <4>2. /\ c.taken[Cli] + 1 \in Int /\ c.taken[Cli] \in Int
            /\ c.taken[Cli] < c.taken[Cli] + 1
        BY <1>3
      <4>3. SubSeq(PeerBytes(c, Cli), c.taken[Cli] + 1, c.taken[Cli]) = <<>>
        BY <4>2, SubSeqEmpty
      <4>4. Skipped(queued, Cli) = c.taken[Cli]
        BY <1>7, <3>2, <4>1 DEF Skipped
      <4>5. queued.data[Cli] = <<>> /\ queued.taken[Cli] = c.taken[Cli]
        BY <1>7, <2>2, <3>2
      <4>6. SubSeq(PeerBytes(queued, Cli), Skipped(queued, Cli) + 1,
                   queued.taken[Cli]) = <<>>
        BY <1>10, <4>3, <4>4, <4>5
      <4> QED
        BY <4>5, <4>6, TranslateNothing
    <3> QED
      BY <3>1, <3>2
  <2> QED
    BY <1>2, <1>7, <1>13, <2>1, <2>3 DEF Processed, Collecting
<1>15. /\ SlotOK(next) /\ next.flag /\ Midway(next, Cli)
       /\ next.status[Cli] = "BUILD_SVR"
       /\ \A x \in Side : Counted(next, x)
       /\ Processed(next)
  <2>1. "BUILD_SVR" \in Status /\ queued.status[Svr] = "INIT" /\ ~queued.fd[Svr]
        /\ queued.flag
    BY <1>2, <1>7 DEF Status
  <2> QED
    BY <1>8, <1>11, <1>12, <1>14, <2>1, StatusMoves
<1> HIDE DEF next
<1>16. Progress(next)
  BY <1>15 DEF Progress
<1>17. SlotOK(FreeSession(FreeSession(c))) /\ ~FreeSession(FreeSession(c)).flag
  BY FreeSessionOK
<1> QED
  BY <1>9, <1>15, <1>16, <1>17 DEF Passes, Return, r

\* Where a stage that succeeds leads.
LEMMA ProcessHeadMoves ==
    ASSUME NEW c, SlotOK(c), c.flag, NEW mem \in BOOLEAN,
           ProcessHead(c, mem).ret = 0
    PROVE  ProcessHead(c, mem).slot.status[Cli] = "BUILD_SVR"
<1> DEFINE p == OnProcessHeader(c, mem)
           next == [p.slot EXCEPT !.status[Cli] = "BUILD_SVR"]
<1>1. p.ret = 0 /\ ProcessHead(c, mem) = Return(0, next)
  BY DEF ProcessHead, Return
<1>2. \E data : p.slot = [c EXCEPT !.data = data]
  <2>1. c \in SlotType
    BY DEF SlotOK
  <2>2. CASE mem /\ c.req.connect
    BY <2>1, <2>2 DEF OnProcessHeader, Return, SlotType
  <2>3. CASE mem /\ ~c.req.connect
    BY <2>1, <2>3 DEF OnProcessHeader, Return, SlotType
  <2>4. mem
    BY <1>1 DEF OnProcessHeader, Return
  <2> QED
    BY <2>2, <2>3, <2>4
<1>3. c \in SlotType /\ Cli \in Side
  BY DEF SlotOK, Side
<1> HIDE DEF p
<1>4. next.status[Cli] = "BUILD_SVR"
  BY <1>2, <1>3 DEF SlotType
<1> HIDE DEF next
<1> QED
  BY <1>1, <1>4 DEF Return

\* The third stage, if it succeeds, leads to the relay.
LEMMA BuildHostMoves ==
    ASSUME NEW c, SlotOK(c), c.flag, NEW outcome,
           BuildHost(c, outcome).ret = 0
    PROVE  BuildHost(c, outcome).slot.status[Cli] = "DATA_RELAY"
<1>1. PICK k \in SUBSET HostString, o \in BuildEnds :
        BuildHost(c, outcome) = BuildSvr(Holding(c, k), o)
  BY BuildHostBuilds
<1> DEFINE d == Holding(c, k)
<1>2. SlotOK(d) /\ d.flag
  BY HoldingSame
<1> HIDE DEF d
<1>3. Connected(d, o).status[Cli] = "DATA_RELAY"
  BY <1>2 DEF Connected, SlotOK, SlotType, Side, Cli, Svr
<1>4. BuildSvr(d, o) = Return(0, Connected(d, o))
  BY <1>1, <1>2, BuildSvrOK DEF Return, d
<1> QED
  BY <1>1, <1>3, <1>4 DEF Return, d

\* A side that closes when the other one is not open takes the session along.
LEMMA LastSideFrees ==
    ASSUME NEW c, SlotOK(c), c.flag, NEW x \in Side, c.fd[x], ~c.fd[Other(x)]
    PROVE  ~CloseSide(c, x).flag
<1> DEFINE o == Other(x)
           emptied == [c EXCEPT !.data[o] = <<>>]
           shut == CloseFd(emptied, x)
<1>1. o \in Side /\ o # x /\ c \in SlotType
  BY OtherSide DEF SlotOK
<1>2. <<>> \in Seq(Byte)
  BY EmptySeq
<1>3. emptied \in SlotType /\ emptied.fd = c.fd
  BY <1>1, <1>2 DEF SlotType
<1>4. CloseSide(c, x) = IF shut.fd[o] /\ shut.data[x] # <<>>
                        THEN EpollMod(shut, o, {EPOLLOUT}, Svr)
                        ELSE FreeSession(shut)
  BY DEF CloseSide
<1> HIDE DEF emptied
<1>5. ~shut.fd[o]
  BY <1>1, <1>3, CloseFdProperties
<1> HIDE DEF shut
<1>6. CloseSide(c, x) = FreeSession(shut)
  BY <1>4, <1>5
<1>7. SlotOK(CloseSide(c, x))
  BY CloseSideOK
<1> QED
  BY <1>6, <1>7 DEF SlotOK, FreeSession, SlotType

\* The types of what goes first and of what is skipped.
LEMMA PrefaceType ==
    ASSUME NEW c \in SlotType, NEW x \in Side
    PROVE  Preface(c, x) \in Seq(Byte) /\ Skipped(c, x) \in Nat
<1>1. /\ <<>> \in Seq(Byte) /\ Svr \in Side
      /\ Translate(Svr, Established) \in Seq(Byte)
  BY EmptySeq, HeadAssumption, TranslateType DEF HeadOK, Side
<1>2. c.head \in Seq(Byte)
  BY DEF SlotType
<1>3. Len(c.head) \in Nat
  BY <1>2, LenProperties
<1> QED
  BY <1>1, <1>3 DEF Preface, Skipped

\* The connection to a host, if it is made, passes the session on, soundly.
LEMMA BuildSvrPasses ==
    ASSUME NEW c, SlotOK(c), c.flag, c.status[Cli] = "BUILD_SVR",
           Midway(c, Cli), Progress(c),
           NEW o, o \notin {"nosocket", "error"} => c.req.host
    PROVE  Passes(BuildSvr(c, o))
<1> DEFINE r == BuildSvr(c, o)
           t == Connected(c, o)
<1>1. /\ Cli \in Side /\ Svr \in Side /\ Cli # Svr
      /\ Other(Svr) = Cli /\ Other(Cli) = Svr /\ c \in SlotType
      /\ \A x \in Side : x = Cli \/ x = Svr
  BY DEF Side, Cli, Svr, Other, SlotOK
<1>2. /\ \A x \in Side : Counted(c, x)
      /\ Processed(c) /\ c.fd[Cli] /\ c.event_fd = Cli
      /\ c.status[Svr] = "INIT" /\ c.taken[Svr] = 0
  BY DEF Progress, Midway, Processed
<1>5. /\ SlotOK(r.slot)
      /\ \/ r.ret = -1 /\ ~r.slot.flag
         \/ r = Return(0, t) /\ c.req.host
  BY BuildSvrOK
<1>6. r.slot.flag => Midway(r.slot, Cli)
  BY <1>2, BuildSvrMidway
<1> HIDE DEF r
<1>7. CASE r.ret = -1 /\ ~r.slot.flag
  BY <1>5, <1>7 DEF Passes, r
<1>8. CASE r = Return(0, t) /\ c.req.host
  <2>1. /\ SlotOK(t) /\ t.flag /\ t.status[Cli] = "DATA_RELAY"
        /\ t.taken = c.taken /\ t.req = c.req /\ t.head = c.head
        /\ t.fd = [c.fd EXCEPT ![Svr] = TRUE]
    BY ConnectedOK
  <2>2. /\ \A x \in Side : Counted(t, x)
        /\ Through(t, Cli) = c.data[Cli]
        /\ Through(t, Svr) = Through(c, Svr)
    BY <1>1, <1>2, ConnectedCounted
  <2> HIDE DEF t
  <2>3. t \in SlotType
    BY <2>1 DEF SlotOK
  <2>4. \A x \in Side : /\ Preface(t, x) = Preface(c, x)
                        /\ Skipped(t, x) = Skipped(c, x)
                        /\ PeerBytes(t, x) = PeerBytes(c, x)
    BY <2>1 DEF Preface, Skipped, PeerBytes
  <2>5. Judged(t)
    BY <1>2, <2>1 DEF Processed, Judged, HeaderComplete
  <2>6. Carried(t, Svr, Preface(t, Svr), Skipped(t, Svr))
    <3>1. Preface(t, Svr) \in Seq(Byte) /\ Through(t, Svr) = Preface(t, Svr)
      BY <1>1, <1>2, <2>2, <2>3, <2>4, PrefaceType DEF Processed
    <3>2. Skipped(t, Svr) = t.taken[Svr]
      BY <1>1, <1>2, <2>1 DEF Skipped
    <3> QED
      BY <1>1, <2>3, <3>1, <3>2, CarriedBase
  <2>7. Carried(t, Cli, Preface(t, Cli), Skipped(t, Cli))
    <3> DEFINE much == Translate(Cli, SubSeq(PeerBytes(t, Cli),
                          Skipped(t, Cli) + 1, t.taken[Cli]))
    <3>1. c.data[Cli] = much
      BY <1>1, <1>2, <2>1, <2>4 DEF Processed
    <3>2. c.data[Cli] \in Seq(Byte)
      BY <1>1, ThroughType
    <3>3. Preface(t, Cli) = <<>>
      BY <1>1 DEF Preface
    <3>4. Through(t, Cli) = <<>> \o much
      <4> HIDE DEF much
      <4> QED
        BY <2>2, <3>1, <3>2, ConcatEmptySeq
    <3> QED
      BY <3>3, <3>4 DEF Carried
  <2>8. Relays(t)
    BY <1>1, <1>8, <2>1, <2>5, <2>6, <2>7 DEF Relays
  <2>9. Progress(t)
    BY <2>1, <2>2, <2>8 DEF Progress
  <2> QED
    BY <1>6, <1>8, <2>1, <2>9 DEF Passes, Return, r
<1> QED
  BY <1>5, <1>7, <1>8

\* The strings make no difference to what the stages have come to.
LEMMA HoldingProgress ==
    ASSUME NEW c, SlotOK(c), Midway(c, Cli), Progress(c),
           NEW k \in SUBSET HostString
    PROVE  Midway(Holding(c, k), Cli) /\ Progress(Holding(c, k))
<1> DEFINE d == Holding(c, k)
<1>1. /\ d.flag = c.flag /\ d.event_fd = c.event_fd
      /\ d.status = c.status /\ d.fd = c.fd /\ d.data = c.data
      /\ d.head = c.head /\ d.req = c.req
      /\ d.taken = c.taken /\ d.sock = c.sock
  BY HoldingSame
<1> HIDE DEF d
<1>2. Midway(d, Cli)
  BY <1>1 DEF Midway, Begun
<1>3. \A x : /\ PeerBytes(d, x) = PeerBytes(c, x) /\ Through(d, x) = Through(c, x)
             /\ Preface(d, x) = Preface(c, x) /\ Skipped(d, x) = Skipped(c, x)
  BY <1>1 DEF PeerBytes, Through, Preface, Skipped
<1>4. \A x \in Side : Counted(d, x)
  BY <1>1, <1>3 DEF Progress, Counted
<1>5. Judged(c) => Judged(d)
  BY <1>1 DEF Judged, HeaderComplete
<1>6. Collecting(c) => Collecting(d)
  BY <1>1, <1>3 DEF Collecting
<1>7. Processed(c) => Processed(d)
  BY <1>1, <1>3, <1>5 DEF Processed
<1>8. Relays(c) => Relays(d)
  <2>1. \A x \in Side : Carried(c, x, Preface(c, x), Skipped(c, x))
                          => Carried(d, x, Preface(d, x), Skipped(d, x))
    BY <1>1, <1>3 DEF Carried
  <2> QED
    BY <1>1, <1>5, <2>1 DEF Relays
<1>9. Progress(d)
  BY <1>1, <1>4, <1>5, <1>6, <1>7, <1>8 DEF Progress
<1> QED
  BY <1>2, <1>9 DEF d

\* The third stage passes the session on, soundly, or frees it.
LEMMA BuildHostPasses ==
    ASSUME NEW c, SlotOK(c), c.flag, c.status[Cli] = "BUILD_SVR",
           Midway(c, Cli), Progress(c), NEW outcome
    PROVE  Passes(BuildHost(c, outcome))
<1>1. PICK k \in SUBSET HostString, o \in BuildEnds :
        /\ BuildHost(c, outcome) = BuildSvr(Holding(c, k), o)
        /\ o \notin {"nosocket", "error"} => c.req.host
  BY BuildHostBuilds
<1> DEFINE d == Holding(c, k)
<1>2. /\ SlotOK(d) /\ d.flag /\ d.status[Cli] = "BUILD_SVR"
      /\ d.req = c.req
  BY HoldingSame
<1>3. Midway(d, Cli) /\ Progress(d)
  BY HoldingProgress
<1> HIDE DEF d
<1>4. Passes(BuildSvr(d, o))
  BY <1>1, <1>2, <1>3, BuildSvrPasses
<1> QED
  BY <1>1, <1>4 DEF d

-----------------------------------------------------------------------------
(* Between the events.                                                      *)

\* What the server's slot carries.
Streams(c) ==
    c.flag =>
        /\ \A x \in Side : Counted(c, x)
        /\ \/ /\ c.status[Cli] \in {"INIT", "PARSE_HEAD"}
              /\ Collecting(c) /\ Len(c.head) < HeadMax
           \/ c.status[Cli] \in {"DATA_RELAY", "CLOSE"} /\ Relays(c)

\* A session that relays and lets bytes flow goes on relaying.
LEMMA RelaysOn ==
    ASSUME NEW c \in SlotType, NEW d \in SlotType, c.flag, Relays(c),
           c.status[Cli] \in {"DATA_RELAY", "CLOSE"}, Flows(c, d)
    PROVE  Streams(d)
<1> SUFFICES ASSUME d.flag
             PROVE  Streams(d)
  BY DEF Streams
<1>1. /\ d.status[Cli] \in {"DATA_RELAY", "CLOSE"}
      /\ d.req = c.req /\ d.head = c.head
      /\ \A x \in Side : Counted(d, x) /\ c.taken[x] <= d.taken[x]
  BY DEF Flows, FlowsSide
<1>2. \A x \in Side : Preface(d, x) = Preface(c, x) /\ Skipped(d, x) = Skipped(c, x)
  BY <1>1 DEF Preface, Skipped
<1>3. \A x \in Side : /\ Preface(c, x) \in Seq(Byte) /\ Skipped(c, x) \in Nat
                      /\ c.taken[x] \in Nat /\ d.taken[x] \in Nat
  BY PrefaceType, ThroughType
<1>4. \A x \in Side : Skipped(c, x) <= c.taken[x]
  BY <1>3 DEF Relays, Judged, Skipped
<1>5. ASSUME NEW x \in Side
      PROVE  Carried(d, x, Preface(d, x), Skipped(d, x))
  BY <1>2, <1>3, <1>4, CarriedOn DEF Relays
<1>6. Judged(d)
  <2>1. Len(c.head) <= c.taken[Cli] /\ Cli \in Side
    BY DEF Relays, Judged, Side
  <2>2. c.head \in Seq(Byte)
    BY DEF SlotType
  <2>3. Len(c.head) \in Nat
    BY <2>2, LenProperties
  <2>4. Len(c.head) <= d.taken[Cli]
    BY <1>1, <1>3, <2>1, <2>3
  <2> QED
    BY <1>1, <2>4 DEF Relays, Judged, HeaderComplete
<1> QED
  BY <1>1, <1>5, <1>6 DEF Streams, Relays

\* What the stages before the relay leave of the history.
LEMMA StatusKept ==
    ASSUME NEW c, SlotOK(c), c.flag, Kept(c), NEW new, new # "DATA_RELAY"
    PROVE  Kept([c EXCEPT !.status[Cli] = new])
<1> DEFINE d == [c EXCEPT !.status[Cli] = new]
<1>1. /\ d.flag /\ d.fd = c.fd /\ d.sock = c.sock /\ d.status[Cli] = new
      /\ d.gave = c.gave
  BY DEF SlotOK, SlotType, Side
<1> HIDE DEF d
<1> QED
  BY <1>1 DEF Kept, d

\* The history is kept by the first stage,
LEMMA ParseHeadKept ==
    ASSUME NEW c, SlotOK(c), c.flag, c.fd[Cli], Collecting(c),
           c.status[Cli] = "PARSE_HEAD",
           \A x \in Side : Counted(c, x), Kept(c), NEW events
    PROVE  Kept(ParseHead(c, events).slot)
<1> DEFINE p == OnParseHeader(c, events)
           r == ParseHead(c, events)
           d == Cached(c)
<1>1. ASSUME NEW b, SlotOK(b), Kept(b)
      PROVE  Kept(FreeSession(b))
  BY <1>1, FreeSessionKept DEF SlotOK, Kept
<1>2. ASSUME Caches(c) > 0
      PROVE  SlotOK(d) /\ d.flag /\ Kept(d)
  <2>1. Cli \in Side
    BY DEF Side
  <2>2. SlotOK(d) /\ d.flag /\ d.fd = c.fd /\ d.status = c.status
    BY <1>2, <2>1, CachedOK
  <2>3. d.gave = c.gave /\ \A y \in Side : d.sock[y].out = c.sock[y].out
    BY DEF Cached, SlotOK, SlotType, SocketType
  <2> HIDE DEF d
  <2> QED
    BY <2>2, <2>3 DEF Kept
<1>3. SlotOK(FreeSession(c)) /\ Kept(FreeSession(c))
  BY <1>1, FreeSessionOK
<1>4. /\ p.ret = 0 => r = Return(0, [p.slot EXCEPT !.status[Cli] = "PROCESS_HEAD"])
      /\ p.ret = -1 => r = Return(-1, FreeSession(p.slot))
      /\ p.ret = -2 => r = Return(0, p.slot)
  BY DEF ParseHead, ServerSessionErr, OnSessionErr
<1>5. \/ Caches(c) > 0 /\ (p = Return(0, d) \/ p = Return(-1, d) \/ p = Return(-2, d))
      \/ p = Return(-1, FreeSession(c))
      \/ p = Return(-2, Ended(c, Cli))
      \/ p = Return(-2, c)
  BY OnParseHeaderCases DEF d
<1>6. Kept(Ended(c, Cli))
  BY StatusKept DEF Ended
<1>7. Caches(c) > 0 => Kept([d EXCEPT !.status[Cli] = "PROCESS_HEAD"])
  BY <1>2, StatusKept
<1> HIDE DEF p, r, d
<1>8. CASE Caches(c) > 0 /\ p = Return(0, d)
  BY <1>4, <1>7, <1>8 DEF Return, r
<1>9. CASE Caches(c) > 0 /\ p = Return(-1, d)
  BY <1>1, <1>2, <1>4, <1>9 DEF Return, r
<1>10. CASE Caches(c) > 0 /\ p = Return(-2, d)
  BY <1>2, <1>4, <1>10 DEF Return, r
<1>11. CASE p = Return(-1, FreeSession(c))
  BY <1>1, <1>3, <1>4, <1>11 DEF Return, r
<1>12. CASE p = Return(-2, Ended(c, Cli)) \/ p = Return(-2, c)
  BY <1>4, <1>6, <1>12 DEF Return, r
<1> QED
  BY <1>5, <1>8, <1>9, <1>10, <1>11, <1>12

\* and by the second.
LEMMA ProcessHeadKept ==
    ASSUME NEW c, SlotOK(c), c.flag, Kept(c), NEW mem \in BOOLEAN
    PROVE  Kept(ProcessHead(c, mem).slot)
<1> DEFINE answered == [c EXCEPT !.data[Svr] = @ \o Translate(Svr, Established)]
           passed == [c EXCEPT !.data[Cli] = @ \o c.head]
           next(d) == [d EXCEPT !.status[Cli] = "BUILD_SVR"]
<1>1. ASSUME NEW data
      PROVE  Kept(next([c EXCEPT !.data = data]))
  <2> DEFINE e == next([c EXCEPT !.data = data])
  <2>1. /\ e.flag /\ e.fd = c.fd /\ e.sock = c.sock /\ e.gave = c.gave
        /\ e.status[Cli] = "BUILD_SVR"
    BY DEF SlotOK, SlotType, Side
  <2> HIDE DEF e
  <2> QED
    BY <2>1 DEF Kept, e
<1>2. Kept(next(answered)) /\ Kept(next(passed))
  <2>1. /\ answered = [c EXCEPT !.data = [c.data EXCEPT
                         ![Svr] = c.data[Svr] \o Translate(Svr, Established)]]
        /\ passed = [c EXCEPT !.data = [c.data EXCEPT
                         ![Cli] = c.data[Cli] \o c.head]]
    BY DEF SlotOK, SlotType
  <2> HIDE DEF answered, passed, next
  <2> QED
    BY <1>1, <2>1
<1>3. Kept(FreeSession(FreeSession(c)))
  <2>1. ASSUME NEW b, SlotOK(b), Kept(b)
        PROVE  Kept(FreeSession(b))
    BY <2>1, FreeSessionKept DEF SlotOK, Kept
  <2> QED
    BY <2>1, FreeSessionOK
<1> HIDE DEF next
<1>4. ProcessHead(c, mem).slot \in
        {FreeSession(FreeSession(c)), next(answered), next(passed)}
  <2>1. CASE ~mem
    BY <2>1 DEF ProcessHead, OnProcessHeader, Return, ServerSessionErr,
                OnSessionErr
  <2>2. CASE mem /\ c.req.connect
    BY <2>2 DEF ProcessHead, OnProcessHeader, Return, next
  <2>3. CASE mem /\ ~c.req.connect
    BY <2>3 DEF ProcessHead, OnProcessHeader, Return, next
  <2> QED
    BY <2>1, <2>2, <2>3
<1> QED
  BY <1>2, <1>3, <1>4

\* So it is by the third.
LEMMA BuildHostKept ==
    ASSUME NEW c, SlotOK(c), c.flag, Kept(c), Midway(c, Cli), NEW outcome
    PROVE  Kept(BuildHost(c, outcome).slot)
<1>1. PICK k \in SUBSET HostString, o \in BuildEnds :
        BuildHost(c, outcome) = BuildSvr(Holding(c, k), o)
  BY BuildHostBuilds
<1> DEFINE d == Holding(c, k)
<1>2. /\ SlotOK(d) /\ d.flag /\ d.fd = c.fd /\ d.sock = c.sock
      /\ d.status = c.status /\ d.taken = c.taken /\ d.gave = c.gave
  BY HoldingSame
<1> HIDE DEF d
<1>3. Kept(d) /\ d.fd[Cli]
  BY <1>2 DEF Kept, Midway
<1> QED
  BY <1>1, <1>2, <1>3, BuildSvrKept DEF d

\* The slot as the client's event finds it, and after the stages that come
\* before the relay.
Entered(c) ==
    [c EXCEPT !.event_fd = Cli,
              !.status[Cli] = IF @ = "INIT" THEN "PARSE_HEAD" ELSE @]
Built(c, events, outcome, headmem) ==
    LET parse(s) == ParseHead(s, Effective(events))
        process(s) == ProcessHead(s, headmem)
        build(s) == BuildHost(s, outcome)
        parsed == Stage(Return(0, Entered(c)), "PARSE_HEAD", parse)
        processed == Stage(parsed, "PROCESS_HEAD", process)
    IN  Stage(processed, "BUILD_SVR", build)

\* The session as the stages find it.
LEMMA EnteredPasses ==
    ASSUME NEW c, SlotOK(c), c.flag, Settled(c), Streams(c), c.fd[Cli]
    PROVE  LET a == Entered(c) IN
           /\ SlotOK(a) /\ a.flag /\ a.event_fd = Cli /\ a.fd = c.fd
           /\ a.data = c.data /\ a.sock = c.sock /\ a.head = c.head
           /\ a.req = c.req /\ a.taken = c.taken /\ a.status[Svr] = c.status[Svr]
           /\ a.status[Cli] = IF c.status[Cli] = "INIT" THEN "PARSE_HEAD"
                              ELSE c.status[Cli]
           /\ Kept(c) => Kept(a)
           /\ Midway(a, Cli) /\ Progress(a)
<1> DEFINE a == Entered(c)
<1>1. /\ Cli \in Side /\ Svr \in Side /\ Cli # Svr
      /\ Other(Svr) = Cli /\ Other(Cli) = Svr /\ c \in SlotType
      /\ \A x \in Side : x = Cli \/ x = Svr
  BY DEF Side, Cli, Svr, Other, SlotOK
<1>3. c.status[Cli] # "CLOSE"
  BY <1>1 DEF Settled, Flushes
<1>4. /\ Kept(c) => Kept(a)
      /\ SlotOK(a) /\ a.flag /\ a.event_fd = Cli /\ a.fd = c.fd
      /\ a.data = c.data /\ a.sock = c.sock /\ a.head = c.head
      /\ a.req = c.req /\ a.taken = c.taken /\ a.status[Svr] = c.status[Svr]
      /\ a.status[Cli] = IF c.status[Cli] = "INIT" THEN "PARSE_HEAD"
                         ELSE c.status[Cli]
  <2>1. SlotOK(a)
    BY <1>1 DEF SlotOK, SlotType, Status, SlotHoldsWhatItOwns, Entered
  <2>2. /\ a.flag /\ a.event_fd = Cli /\ a.fd = c.fd /\ a.gave = c.gave
        /\ a.data = c.data /\ a.sock = c.sock /\ a.head = c.head
        /\ a.req = c.req /\ a.taken = c.taken /\ a.status[Svr] = c.status[Svr]
        /\ a.status[Cli] = IF c.status[Cli] = "INIT" THEN "PARSE_HEAD"
                           ELSE c.status[Cli]
    BY <1>1 DEF SlotType, Entered
  <2> HIDE DEF a
  <2>3. \A x \in Side : a.status[x] = "CLOSE" <=> c.status[x] = "CLOSE"
    BY <1>1, <2>2
  <2>4. Kept(c) => Kept(a)
    BY <2>2, <2>3 DEF Kept
  <2> QED
    BY <2>1, <2>2, <2>4
<1> HIDE DEF a
<1>5. Midway(a, Cli)
  <2>1. Begun(a)
    BY <1>4 DEF Settled, Begun
  <2>2. a.status[Svr] = "CLOSE" => ~a.fd[Svr] /\ a.data[Svr] # <<>>
    BY <1>1, <1>4 DEF Settled, Flushes
  <2> QED
    BY <1>1, <1>4, <2>1, <2>2 DEF Midway
<1>6. Progress(a)
  <2>1. \A x : PeerBytes(a, x) = PeerBytes(c, x) /\ Through(a, x) = Through(c, x)
    BY <1>4 DEF PeerBytes, Through
  <2>2. \A x \in Side : Counted(a, x)
    BY <1>4, <2>1 DEF Streams, Counted
  <2>3. Collecting(c) => Collecting(a)
    BY <1>4, <2>1 DEF Collecting
  <2>4. Relays(c) => Relays(a)
    <3>1. Judged(c) => Judged(a)
      BY <1>4 DEF Judged, HeaderComplete
    <3>2. \A x \in Side : /\ Preface(a, x) = Preface(c, x)
                          /\ Skipped(a, x) = Skipped(c, x)
      BY <1>4 DEF Preface, Skipped
    <3>3. \A x \in Side : Carried(c, x, Preface(c, x), Skipped(c, x))
                            => Carried(a, x, Preface(a, x), Skipped(a, x))
      BY <1>4, <2>1, <3>2 DEF Carried
    <3> QED
      BY <1>4, <3>1, <3>3 DEF Relays
  <2> QED
    BY <1>3, <1>4, <2>2, <2>3, <2>4 DEF Streams, Progress
<1> QED
  BY <1>4, <1>5, <1>6 DEF a

\* The three stages in a row.
LEMMA StagesPass ==
    ASSUME NEW c, SlotOK(c), c.flag, Settled(c), Streams(c), c.fd[Cli],
           NEW events, NEW outcome, NEW headmem \in BOOLEAN
    PROVE  LET b == Built(c, events, outcome, headmem) IN
           /\ Passes(b)
           /\ b.ret = 0 =>
                b.slot.status[Cli] \in {"PARSE_HEAD", "DATA_RELAY", "CLOSE"}
           /\ Spares(c, b.slot, Cli)
           /\ c.status[Cli] = "DATA_RELAY" =>
                b = Return(0, Entered(c)) /\ Flows(c, b.slot)
           /\ Kept(c) => Kept(b.slot)
<1> DEFINE a == [c EXCEPT !.event_fd = Cli,
                          !.status[Cli] = IF @ = "INIT" THEN "PARSE_HEAD" ELSE @]
           parse(s) == ParseHead(s, Effective(events))
           process(s) == ProcessHead(s, headmem)
           build(s) == BuildHost(s, outcome)
           parsed == Stage(Return(0, a), "PARSE_HEAD", parse)
           processed == Stage(parsed, "PROCESS_HEAD", process)
           built == Stage(processed, "BUILD_SVR", build)
<1>1. /\ Cli \in Side /\ Svr \in Side /\ Cli # Svr
      /\ Other(Svr) = Cli /\ Other(Cli) = Svr /\ c \in SlotType
      /\ \A x \in Side : x = Cli \/ x = Svr
  BY DEF Side, Cli, Svr, Other, SlotOK
<1>2. built = Built(c, events, outcome, headmem)
  BY DEF Built, Entered
<1>3. c.status[Cli] # "CLOSE"
  BY <1>1 DEF Settled, Flushes
<1>4. /\ a = Entered(c) /\ (Kept(c) => Kept(a))
      /\ SlotOK(a) /\ a.flag /\ a.event_fd = Cli /\ a.fd = c.fd
      /\ a.data = c.data /\ a.sock = c.sock /\ a.head = c.head
      /\ a.req = c.req /\ a.taken = c.taken /\ a.status[Svr] = c.status[Svr]
      /\ a.status[Cli] = IF c.status[Cli] = "INIT" THEN "PARSE_HEAD"
                         ELSE c.status[Cli]
      /\ Midway(a, Cli) /\ Progress(a)
  <2>1. a = Entered(c)
    BY DEF Entered
  <2> QED
    BY <2>1, EnteredPasses
<1> HIDE DEF a
<1>5. Midway(a, Cli)
  BY <1>4
<1>6. Progress(a)
  BY <1>4
<1>7. Passes(Return(0, a))
  BY <1>4, <1>5, <1>6 DEF Passes, Return
<1>8. /\ Passes(parsed)
      /\ parsed.ret = 0 => parsed.slot.status[Cli] # "INIT"
      /\ Kept(c) => Kept(parsed.slot)
  <2>1. CASE a.status[Cli] = "PARSE_HEAD"
    <3>1. parsed = ParseHead(a, Effective(events))
      BY <2>1 DEF Stage, Return
    <3>2. Collecting(a) /\ \A x \in Side : Counted(a, x)
      BY <1>6, <2>1 DEF Progress
    <3>3. Kept(c) => Kept(parsed.slot)
      BY <1>4, <2>1, <3>1, <3>2, ParseHeadKept
    <3>4. Passes(parsed)
      BY <1>4, <1>5, <1>6, <2>1, <3>1, ParseHeadPasses
    <3> HIDE DEF parsed
    <3>5. parsed.ret = 0 => parsed.slot.status[Cli] # "INIT"
      BY <3>4 DEF Passes, Progress
    <3> QED
      BY <3>3, <3>4, <3>5
  <2>2. CASE a.status[Cli] # "PARSE_HEAD"
    BY <1>4, <1>6, <1>7, <2>2 DEF Stage, Return, Progress
  <2> QED
    BY <2>1, <2>2
<1> HIDE DEF parsed
<1>9. /\ Passes(processed)
      /\ processed.ret = 0 => processed.slot.status[Cli] # "PROCESS_HEAD"
      /\ Kept(c) => Kept(processed.slot)
  <2>1. CASE parsed.ret = 0 /\ parsed.slot.status[Cli] = "PROCESS_HEAD"
    <3>1. processed = ProcessHead(parsed.slot, headmem)
      BY <2>1 DEF Stage
    <3>2. Passes(processed)
      BY <1>8, <2>1, <3>1, ProcessHeadPasses DEF Passes
    <3>3. processed.ret = 0 => processed.slot.status[Cli] = "BUILD_SVR"
      BY <1>8, <2>1, <3>1, ProcessHeadMoves DEF Passes
    <3>4. Kept(c) => Kept(processed.slot)
      BY <1>8, <2>1, <3>1, ProcessHeadKept DEF Passes
    <3> QED
      BY <3>2, <3>3, <3>4
  <2>2. CASE ~(parsed.ret = 0 /\ parsed.slot.status[Cli] = "PROCESS_HEAD")
    BY <1>8, <2>2 DEF Stage
  <2> QED
    BY <2>1, <2>2
<1> HIDE DEF processed
<1>10. /\ Passes(built)
       /\ built.ret = 0 =>
            built.slot.status[Cli] \in {"PARSE_HEAD", "DATA_RELAY", "CLOSE"}
       /\ Kept(c) => Kept(built.slot)
  <2>1. CASE processed.ret = 0 /\ processed.slot.status[Cli] = "BUILD_SVR"
    <3>1. built = BuildHost(processed.slot, outcome)
      BY <2>1 DEF Stage
    <3>2. Passes(built)
      BY <1>9, <2>1, <3>1, BuildHostPasses DEF Passes
    <3>3. built.ret = 0 => built.slot.status[Cli] = "DATA_RELAY"
      BY <1>9, <2>1, <3>1, BuildHostMoves DEF Passes
    <3>4. Kept(c) => Kept(built.slot)
      BY <1>9, <2>1, <3>1, BuildHostKept DEF Passes
    <3> QED
      BY <3>2, <3>3, <3>4
  <2>2. CASE ~(processed.ret = 0 /\ processed.slot.status[Cli] = "BUILD_SVR")
    <3>1. built = processed
      BY <2>2 DEF Stage
    <3> QED
      BY <1>9, <2>2, <3>1 DEF Passes, Progress
  <2> QED
    BY <2>1, <2>2
<1>11. c.status[Cli] = "DATA_RELAY" => built = Return(0, a)
  BY <1>4 DEF built, processed, parsed, Stage, Return
<1>12. Spares(c, built.slot, Cli)
  <2>1. c.status[Cli] # "DATA_RELAY" => ~c.fd[Svr]
    BY <1>3 DEF Settled, Begun
  <2> QED
    BY <1>1, <1>4, <1>11, <2>1 DEF Spares, Return
<1>13. c.status[Cli] = "DATA_RELAY" => Flows(c, a)
  BY <1>1, <1>4, SameFlow DEF Streams, SlotOK
<1> HIDE DEF built
<1> QED
  BY <1>2, <1>4, <1>10, <1>11, <1>12, <1>13 DEF Return

\* A whole event of the client.
LEMMA CliEventKeeps ==
    ASSUME NEW c, SlotOK(c), c.flag, Settled(c), Streams(c), c.fd[Cli],
           NEW events, NEW outcome, NEW headmem \in BOOLEAN, NEW mem \in BOOLEAN
    PROVE  LET d == CliEvent(c, events, outcome, headmem, mem) IN
           /\ Settled(d) /\ Streams(d) /\ Spares(c, d, Cli)
           /\ c.status[Cli] = "DATA_RELAY" => Flows(c, d)
           /\ Kept(c) => Kept(d)
<1> DEFINE built == Built(c, events, outcome, headmem)
           m == built.slot
           relay(s) == OnDataRelay(s, Cli, Effective(events), mem)
           relayed == Stage(built, "DATA_RELAY", relay)
           d == Finish(relayed, Cli)
<1>1. /\ Cli \in Side /\ Svr \in Side /\ Cli # Svr
      /\ Other(Svr) = Cli /\ Other(Cli) = Svr /\ c \in SlotType
  BY DEF Side, Cli, Svr, Other, SlotOK
<1>2. CliEvent(c, events, outcome, headmem, mem) = d
  BY DEF CliEvent, Built, Entered, ServerFinish, ServerDataRelay
<1>3. /\ Passes(built)
      /\ built.ret = 0 =>
           m.status[Cli] \in {"PARSE_HEAD", "DATA_RELAY", "CLOSE"}
  BY StagesPass
<1>4. Spares(c, m, Cli)
  BY StagesPass
<1>5. /\ c.status[Cli] = "DATA_RELAY" =>
           built.ret = 0 /\ m.status[Cli] = "DATA_RELAY" /\ Flows(c, m)
      /\ Kept(c) => Kept(m)
  <2>1. Entered(c).status[Cli] = "DATA_RELAY" \/ c.status[Cli] # "DATA_RELAY"
    BY <1>1 DEF Entered, SlotType
  <2> QED
    BY <2>1, StagesPass DEF Return
<1> HIDE DEF built
<1>6. CASE built.ret < 0
  <2>1. relayed = built /\ d = m
    BY <1>6 DEF Stage, Finish
  <2>2. ~m.flag /\ c.status[Cli] # "DATA_RELAY"
    BY <1>3, <1>6, <1>5 DEF Passes
  <2> QED
    BY <1>2, <1>5, <2>1, <2>2 DEF Settled, Streams, Spares
<1>7. CASE built.ret = 0 /\ m.status[Cli] = "DATA_RELAY"
  <2> DEFINE r == OnDataRelay(m, Cli, Effective(events), mem)
             f == Finish(r, Cli)
  <2>1. d = f
    BY <1>7 DEF Stage
  <2>2. /\ SlotOK(m) /\ m.flag /\ Midway(m, Cli) /\ Relays(m) /\ m.fd[Cli]
        /\ \A x \in Side : Counted(m, x)
    BY <1>3, <1>7 DEF Passes, Progress, Midway
  <2> HIDE DEF m
  <2>3. Settled(f) /\ Spares(m, f, Cli)
    BY <1>1, <2>2, RelaySettles
  <2>4. Flows(m, f)
    BY <1>1, <2>2, RelayFlows
  <2>5. SlotOK(f)
    BY <1>1, <2>2, OnDataRelayOK, FinishOK
  <2> HIDE DEF f
  <2>6. Streams(f)
    BY <1>7, <2>2, <2>4, <2>5, RelaysOn DEF SlotOK
  <2>7. Spares(c, f, Cli)
    BY <1>4, <2>2, <2>3 DEF Spares
  <2>8. c.status[Cli] = "DATA_RELAY" => Flows(c, f)
    BY <1>1, <1>5, <2>2, <2>4, <2>5, FlowsTransitive DEF SlotOK
  <2>9. Kept(c) => Kept(f)
    <3>1. SlotOK(r.slot)
      BY <1>1, <2>2, OnDataRelayOK
    <3>2. Kept(m) => Kept(r.slot)
      BY <1>1, <2>2, OnDataRelayKept
    <3> HIDE DEF r
    <3> QED
      BY <1>1, <1>5, <3>1, <3>2, FinishKept DEF f
  <2> QED
    BY <1>2, <2>1, <2>3, <2>6, <2>7, <2>8, <2>9
<1>8. CASE built.ret = 0 /\ m.status[Cli] = "CLOSE"
  <2>1. d = CloseSide(m, Cli)
    BY <1>1, <1>3, <1>8 DEF Stage, Finish, OnSessionClose, Passes, Midway
  <2>2. /\ SlotOK(m) /\ m.flag /\ m.fd[Cli] /\ ~m.fd[Svr]
    BY <1>3, <1>8 DEF Passes, Progress, Midway
  <2> HIDE DEF m
  <2>3. ~CloseSide(m, Cli).flag
    BY <1>1, <2>2, LastSideFrees
  <2>4. Kept(c) => Kept(CloseSide(m, Cli))
    BY <1>1, <1>8, <1>5, <2>2, CloseSideKept DEF m
  <2> QED
    BY <1>2, <2>1, <2>3, <2>4 DEF Settled, Streams, Spares, Flows
<1>9. CASE built.ret = 0 /\ m.status[Cli] = "PARSE_HEAD"
  <2> DEFINE f == EpollSessionMod(m)
  <2>1. relayed = built /\ d = f
    BY <1>9 DEF Stage, Finish
  <2>2. /\ SlotOK(m) /\ m.flag /\ Midway(m, Cli) /\ Collecting(m)
        /\ Len(m.head) < HeadMax /\ \A x \in Side : Counted(m, x)
    BY <1>3, <1>9 DEF Passes, Progress
  <2>3. Settled(d) /\ Spares(m, d, Cli)
    BY <1>1, <1>3, <1>9, <2>1, FinishSettles DEF Passes
  <2> HIDE DEF m
  <2>4. /\ f.req = m.req /\ f.head = m.head /\ f.taken = m.taken
        /\ f.status = m.status /\ f.fd = m.fd
        /\ f.sock = m.sock /\ f.data = m.data /\ f.gave = m.gave
    BY <2>2, EpollSessionModKeeps
  <2> HIDE DEF f
  <2>5. \A x : PeerBytes(f, x) = PeerBytes(m, x) /\ Through(f, x) = Through(m, x)
    BY <2>4 DEF PeerBytes, Through
  <2>6. \A x \in Side : Counted(f, x)
    BY <2>2, <2>4, <2>5 DEF Counted
  <2>7. Collecting(f)
    BY <2>2, <2>4, <2>5 DEF Collecting
  <2>8. Streams(f)
    BY <1>9, <2>2, <2>4, <2>6, <2>7 DEF Streams
  <2>9. Spares(c, d, Cli)
    BY <1>4, <2>2, <2>3 DEF Spares
  <2>10. c.status[Cli] # "DATA_RELAY"
    BY <1>9, <1>5 DEF m
  <2>11. Kept(c) => Kept(f)
    <3>1. f.flag
      BY <2>2, EpollSessionModFlag DEF f
    <3>2. Kept(m) => Kept(f)
      BY <2>2, <2>4, <3>1 DEF Kept
    <3> QED
      BY <1>5, <3>2 DEF m
  <2> QED
    BY <1>2, <2>1, <2>3, <2>8, <2>9, <2>10, <2>11 DEF f
<1> QED
  BY <1>3, <1>6, <1>7, <1>8, <1>9 DEF Passes

-----------------------------------------------------------------------------
(* The loop: the discipline and the streams, one inductive invariant.       *)

Order == Discipline /\ \A s \in Slot : Streams(conn[s])

\* Either handler keeps the order,
LEMMA OrderHandles ==
    ASSUME Inv, Order, NEW e \in batch, HandleSvrEvent(e) \/ HandleCliEvent(e)
    PROVE  Order'
<1> DEFINE c == conn[e.slot]
<1>1. c.flag
  BY DEF HandleSvrEvent, HandleCliEvent
<1>2. /\ e.slot \in Slot /\ SlotOK(c) /\ Settled(c) /\ Streams(c)
      /\ c.fd[e.tag] \/ (e.tag = Svr /\ c.status[Svr] = "CLOSE")
  BY <1>1, EventSide DEF Order
<1>3. conn \in [Slot -> SlotType]
  BY DEF Inv, TypeOK
<1>4. ASSUME NEW d, Settled(d), Spares(c, d, e.tag), Streams(d), HandleEvent(e, d)
      PROVE  Order'
  <2>1. Discipline'
    BY <1>1, <1>4, DisciplineHandle DEF Order
  <2>2. \A s \in Slot : Streams(conn'[s])
    BY <1>2, <1>3, <1>4 DEF HandleEvent, Order
  <2> QED
    BY <2>1, <2>2 DEF Order
<1>5. CASE HandleSvrEvent(e)
  <2>1. PICK mem \in MallocOutcomes : HandleEvent(e, SvrEvent(c, e.events, mem))
    BY <1>5 DEF HandleSvrEvent
  <2>2. mem \in BOOLEAN /\ e.tag = Svr
    BY <1>5 DEF MallocOutcomes, HandleSvrEvent
  <2> HIDE DEF c
  <2>3. c.fd[Svr] \/ c.status[Svr] = "CLOSE"
    BY <1>2, <2>2
  <2>4. c.status[Cli] \in {"DATA_RELAY", "CLOSE"}
    BY <1>1, <1>2, <2>3 DEF Settled, Begun
  <2>5. Relays(c) /\ \A x \in Side : Counted(c, x)
    BY <1>1, <1>2, <2>4 DEF Streams
  <2> DEFINE d == SvrEvent(c, e.events, mem)
  <2>6. Flows(c, d) /\ SlotOK(d)
    BY <1>1, <1>2, <2>2, <2>3, <2>5, SvrEventFlows, SvrEventOK
  <2>7. Settled(d) /\ Spares(c, d, Svr)
    BY <1>1, <1>2, <2>2, <2>3, SvrEventSettles
  <2> HIDE DEF d
  <2>8. Streams(d)
    BY <1>1, <1>2, <2>4, <2>5, <2>6, RelaysOn DEF SlotOK
  <2> QED
    BY <1>4, <2>1, <2>2, <2>7, <2>8 DEF d
<1>6. CASE HandleCliEvent(e)
  <2>1. PICK headmem \in MallocOutcomes, mem \in MallocOutcomes,
             outcome \in HostOutcomes :
          HandleEvent(e, CliEvent(c, e.events, outcome, headmem, mem))
    BY <1>6 DEF HandleCliEvent
  <2>2. mem \in BOOLEAN /\ headmem \in BOOLEAN /\ e.tag = Cli /\ Cli # Svr
    BY <1>6 DEF MallocOutcomes, HandleCliEvent, Cli, Svr
  <2> HIDE DEF c
  <2>3. c.fd[Cli]
    BY <1>2, <2>2
  <2> DEFINE d == CliEvent(c, e.events, outcome, headmem, mem)
  <2>4. Settled(d) /\ Streams(d) /\ Spares(c, d, Cli)
    BY <1>1, <1>2, <2>2, <2>3, CliEventKeeps
  <2> HIDE DEF d
  <2> QED
    BY <1>4, <2>1, <2>2, <2>4 DEF d
<1> QED
  BY <1>5, <1>6

\* so does the acceptance of a client,
LEMMA OrderAccepts ==
    ASSUME Inv, Order, NEW d \in Elapsed, NEW q \in Requests,
           NEW registered \in BOOLEAN,
           AgentAccepts(d, InitServerSession(q), registered)
    PROVE  Order'
<1> DEFINE fresh == InitServerSession(q)
           taken == Accepted(fresh)
           refused == FreeSession([fresh EXCEPT !.fd[Cli] = TRUE,
                                                !.sock[Cli] = NewSocket("est")])
<1>1. /\ Cli \in Side /\ Svr \in Side /\ Cli # Svr
      /\ Other(Cli) = Svr /\ Other(Svr) = Cli
  BY DEF Side, Cli, Svr, Other
<1>2. /\ Fresh(fresh) /\ fresh.data = [x \in Side |-> <<>>]
      /\ fresh.taken = [x \in Side |-> 0] /\ fresh.head = <<>>
      /\ fresh.status = [x \in Side |-> "INIT"]
  BY InitServerSessionFresh DEF InitServerSession, InitSession, EmptySlot
<1>3. Discipline'
  BY <1>2, DisciplineAccepts DEF Order
<1> HIDE DEF fresh
<1>4. Streams(refused)
  BY <1>2, RefusedFreed DEF Streams
<1>5. Streams(taken)
  <2>1. /\ taken.fd[Cli] /\ ~taken.fd[Svr] /\ taken.status = fresh.status
        /\ taken.head = fresh.head
        /\ taken.sock[Cli].out = <<>> /\ taken.data = fresh.data
        /\ taken.taken = fresh.taken
        /\ \A x \in Side : Counted(taken, x)
    BY <1>2, AcceptedCounted
  <2> HIDE DEF taken
  <2>2. <<>> \o <<>> = <<>>
    BY EmptySeq, ConcatEmptySeq
  <2>3. Through(taken, Svr) = <<>>
    BY <1>1, <1>2, <2>1, <2>2 DEF Through
  <2>4. SubSeq(PeerBytes(taken, Cli), 0 + 1, taken.taken[Cli]) = <<>>
    <3>1. taken.taken[Cli] = 0
      BY <1>1, <1>2, <2>1
    <3>2. SubSeq(PeerBytes(taken, Cli), 0 + 1, 0) = <<>>
      BY SubSeqEmpty
    <3> QED
      BY <3>1, <3>2
  <2>5. Collecting(taken)
    BY <1>1, <1>2, <2>1, <2>3, <2>4, TranslateNothing, ZenonT(30) DEF Collecting
  <2>6. Len(taken.head) < HeadMax
    BY <1>2, <2>1, HeadAssumption, EmptySeq, SMTT(30) DEF HeadOK
  <2> QED
    BY <1>1, <1>2, <2>1, <2>5, <2>6 DEF Streams
<1>6. conn' = [conn EXCEPT ![FirstFree] = IF registered THEN taken ELSE refused]
  BY DEF AgentAccepts, fresh
<1> HIDE DEF taken, refused
<1>7. conn \in [Slot -> SlotType]
  BY DEF Inv, TypeOK
<1> QED
  BY <1>3, <1>4, <1>5, <1>6, <1>7 DEF Order

\* so do the peers,
LEMMA OrderPeer ==
    ASSUME Inv, Order, PeerStep
    PROVE  Order'
<1>1. Discipline'
  BY DisciplinePeer DEF Order
<1>2. ASSUME NEW s \in Slot, conn'[s].flag
      PROVE  Streams(conn'[s])
  <2> DEFINE c == conn[s]
             d == conn'[s]
  <2>1. /\ c.flag /\ d.flag /\ d.fd = c.fd /\ d.status = c.status
        /\ d.data = c.data /\ d.taken = c.taken /\ d.head = c.head
        /\ d.req = c.req
    BY <1>2, PeerKeeps
  <2>2. Streams(c)
    BY DEF Order
  <2>3. \A x \in Side : /\ Counted(d, x)
                        /\ Through(d, x) = Through(c, x)
                        /\ PeerBytes(d, x) = PeerBytes(c, x)
    BY <2>1, <2>2, PeerCounts DEF Streams
  <2>4. Cli \in Side /\ Svr \in Side
    BY DEF Side
  <2> HIDE DEF c, d
  <2>5. Collecting(c) => Collecting(d)
    BY <2>1, <2>3, <2>4 DEF Collecting
  <2>6. Relays(c) => Relays(d)
    <3>1. Judged(c) => Judged(d)
      BY <2>1 DEF Judged, HeaderComplete
    <3>2. \A x \in Side : /\ Preface(d, x) = Preface(c, x)
                          /\ Skipped(d, x) = Skipped(c, x)
      BY <2>1 DEF Preface, Skipped
    <3>3. \A x \in Side : Carried(c, x, Preface(c, x), Skipped(c, x))
                            => Carried(d, x, Preface(d, x), Skipped(d, x))
      BY <2>1, <2>3, <3>2 DEF Carried
    <3> QED
      BY <2>1, <3>1, <3>3 DEF Relays
  <2>7. Streams(d)
    BY <2>1, <2>2, <2>3, <2>5, <2>6 DEF Streams
  <2> QED
    BY <2>7 DEF d
<1>3. \A s \in Slot : Streams(conn'[s])
  BY <1>2 DEF Streams
<1> QED
  BY <1>1, <1>3 DEF Order

\* so does every step,
LEMMA OrderStep ==
    ASSUME Inv, Order, [Next]_vars
    PROVE  Order'
<1>1. conn' = conn => ((\A s \in Slot : Streams(conn[s]))')
  BY DEF Order
<1>2. CASE AgentStep \/ WaitInterrupted \/ UNCHANGED vars
  <2>1. conn' = conn
    BY <1>2 DEF AgentStep, AgentInterrupted, AgentNoSession, AgentRefuses,
                WaitInterrupted, vars
  <2>2. Discipline'
    BY <1>2, DisciplineAgent DEF Order
  <2> QED
    BY <1>1, <2>1, <2>2 DEF Order
<1>3. CASE Accept
  BY <1>3, OrderAccepts DEF Accept
<1>4. CASE EpollWait
  <2>1. conn' = conn /\ Discipline'
    BY <1>4, DisciplineWait DEF EpollWait, Order
  <2> QED
    BY <1>1, <2>1 DEF Order
<1>5. ASSUME NEW e \in batch, SkipEvent(e)
      PROVE  Order'
  <2>1. conn' = conn /\ Discipline'
    BY <1>5, DisciplineSkip DEF SkipEvent, Order
  <2> QED
    BY <1>1, <2>1 DEF Order
<1>6. ASSUME NEW e \in batch, HandleSvrEvent(e) \/ HandleCliEvent(e)
      PROVE  Order'
  BY <1>6, OrderHandles
<1>7. CASE TimeoutStep
  <2>1. Discipline'
    BY <1>7, DisciplineTimeout DEF Order
  <2>2. ASSUME NEW walked, Walk(walked)
        PROVE  \A s \in Slot : Streams(conn'[s])
    <3>1. \A s \in Slot : ~FreeSession(conn[s]).flag
      BY InvSlots, FreeSessionOK
    <3> QED
      BY <2>2, <3>1 DEF Walk, Reaped, Order, Streams
  <2>3. TimeoutNotDue => conn' = conn
    BY DEF TimeoutNotDue
  <2> QED
    BY <1>1, <1>7, <2>1, <2>2, <2>3
       DEF TimeoutStep, TimeoutWalk, TimeoutSweep, Order
<1>8. CASE PeerStep
  BY <1>8, OrderPeer
<1> QED
  BY <1>2, <1>3, <1>4, <1>5, <1>6, <1>7, <1>8
     DEF Next, HandleAgentEvent, HandleConnectionsEvent, HandleSessionTimeout,
         Dispatch

\* and the loop starts in it.
LEMMA OrderInit == Init => Order
<1> SUFFICES ASSUME Init PROVE Order
  OBVIOUS
<1>1. \A s \in Slot : ~conn[s].flag
  BY DEF Init, EmptySlot
<1> QED
  BY <1>1, DisciplineInit DEF Order, Streams

\* Between two events every session of the server is settled, and its bytes
\* are in the header cache or on their way, in order.
THEOREM Orderly == Spec => []Order
<1>1. Inv /\ Order /\ [Next]_vars => Order'
  BY OrderStep
<1> QED
  BY <1>1, OrderInit, Invariant, PTL DEF Spec

\* While the header is collected nothing is meant for anyone.
LEMMA CollectingMeans ==
    ASSUME NEW c \in SlotType, c.flag, Streams(c), ~HeaderDone(c), NEW x \in Side
    PROVE  /\ Collecting(c) /\ c.status[Cli] \in {"INIT", "PARSE_HEAD"}
           /\ Meant(c, x) = <<>>
           /\ c.fd[Other(x)] => Through(c, x) = Meant(c, x)
<1>1. /\ Cli \in Side /\ Svr \in Side /\ Cli # Svr
      /\ Other(Cli) = Svr /\ Other(Svr) = Cli
      /\ \A y \in Side : y = Cli \/ y = Svr
  BY DEF Side, Cli, Svr, Other
<1>2. Collecting(c) /\ c.status[Cli] \in {"INIT", "PARSE_HEAD"}
  BY DEF Streams, HeaderDone
<1>3. Taken(c, Svr) = <<>>
  <2>1. c.taken[Svr] = 0
    BY <1>2 DEF Collecting
  <2>2. SubSeq(PeerBytes(c, Svr), 1, 0) = <<>>
    BY SubSeqEmpty
  <2> QED
    BY <2>1, <2>2 DEF Taken
<1>4. Meant(c, Svr) = <<>>
  <2>1. MeantForClient(c) = Translate(Svr, <<>> \o <<>>)
    BY <1>3 DEF MeantForClient
  <2>2. <<>> \o <<>> = <<>>
    BY EmptySeq, ConcatEmptySeq
  <2> QED
    BY <1>1, <2>1, <2>2, TranslateNothing DEF Meant
<1>5. Meant(c, Cli) = <<>>
  BY DEF Meant, MeantForHost
<1>6. ~c.fd[Svr] /\ Through(c, Svr) = <<>>
  BY <1>2 DEF Collecting
<1> QED
  BY <1>1, <1>2, <1>4, <1>5, <1>6

\* What is meant for a side's partner once the header is processed.
LEMMA RelaysMeans ==
    ASSUME NEW c \in SlotType, c.flag, Streams(c), HeaderDone(c), NEW x \in Side
    PROVE  /\ Relays(c) /\ Preface(c, x) \in Seq(Byte)
           /\ Skipped(c, x) \in Nat /\ Skipped(c, x) <= c.taken[x]
           /\ Meant(c, x) = Preface(c, x) \o Translate(x,
                SubSeq(PeerBytes(c, x), Skipped(c, x) + 1, c.taken[x]))
<1> DEFINE p == PeerBytes(c, x)
           k == Skipped(c, x)
           got == SubSeq(p, k + 1, c.taken[x])
<1>1. /\ Cli \in Side /\ Svr \in Side /\ Cli # Svr
      /\ \A y \in Side : y = Cli \/ y = Svr
  BY DEF Side, Cli, Svr
<1>2. Relays(c) /\ \A y \in Side : Counted(c, y)
  BY DEF Streams, HeaderDone
<1>3. Preface(c, x) \in Seq(Byte) /\ k \in Nat
  BY PrefaceType
<1>4. p \in Seq(Byte) /\ c.taken[x] \in Nat /\ c.taken[x] <= Len(p)
  BY <1>2, ThroughType DEF Counted
<1>5. k <= c.taken[x]
  BY <1>1, <1>2, <1>4 DEF Relays, Judged, Skipped
<1>6. got \in Seq(Byte) /\ Translate(x, got) \in Seq(Byte)
  <2>1. got \in Seq(Byte)
    BY <1>3, <1>4, <1>5, Pieces
  <2> QED
    BY <2>1, TranslateType
<1>7. CASE x = Cli
  <2>1. Meant(c, Cli) = Translate(Cli, got)
    BY <1>7 DEF Meant, MeantForHost, Skipped
  <2>2. Preface(c, Cli) = <<>>
    BY <1>1 DEF Preface
  <2> HIDE DEF got
  <2> QED
    BY <1>2, <1>3, <1>5, <1>6, <1>7, <2>1, <2>2, ConcatEmptySeq DEF got
<1>8. CASE x = Svr
  <2> DEFINE answer == IF c.req.connect THEN Established ELSE <<>>
  <2>1. got = Taken(c, Svr)
    <3>1. Skipped(c, Svr) = 0
      BY <1>1 DEF Skipped
    <3> QED
      BY <1>8, <3>1 DEF Taken
  <2>2. answer \in Seq(Byte)
    BY HeadAssumption, EmptySeq DEF HeadOK
  <2>3. Preface(c, Svr) = Translate(Svr, answer)
    BY TranslateNothing DEF Preface
  <2>4. Meant(c, Svr) = Translate(Svr, answer \o got)
    BY <1>1, <2>1 DEF Meant, MeantForClient
  <2> HIDE DEF answer, got
  <2>5. Meant(c, Svr) = Translate(Svr, answer) \o Translate(Svr, got)
    BY <1>1, <1>6, <2>2, <2>4, TranslateConcat
  <2> QED
    BY <1>2, <1>3, <1>5, <1>8, <2>3, <2>5 DEF got
<1> QED
  BY <1>1, <1>7, <1>8

\* What goes through is what is meant.
LEMMA ThroughIsMeant ==
    ASSUME NEW c \in SlotType, c.flag, Streams(c), NEW x \in Side
    PROVE  /\ Meant(c, x) \in Seq(Byte)
           /\ c.fd[Other(x)] => Through(c, x) = Meant(c, x)
<1>1. CASE ~HeaderDone(c)
  BY <1>1, CollectingMeans, EmptySeq
<1>2. CASE HeaderDone(c)
  <2> DEFINE got == SubSeq(PeerBytes(c, x), Skipped(c, x) + 1, c.taken[x])
  <2>1. /\ Relays(c) /\ Preface(c, x) \in Seq(Byte)
        /\ Skipped(c, x) \in Nat /\ Skipped(c, x) <= c.taken[x]
        /\ Meant(c, x) = Preface(c, x) \o Translate(x, got)
    BY <1>2, RelaysMeans
  <2>2. c.fd[Other(x)] => Through(c, x) = Preface(c, x) \o Translate(x, got)
    BY <2>1 DEF Relays, Carried
  <2>3. got \in Seq(Byte)
    BY <2>1, ThroughType, Pieces DEF Streams, Counted
  <2> HIDE DEF got
  <2>4. Translate(x, got) \in Seq(Byte)
    BY <2>3, TranslateType
  <2> QED
    BY <2>1, <2>2, <2>4, ConcatProperties
<1> QED
  BY <1>1, <1>2

\* What is carried is what is meant.
LEMMA OrderIntegrity == ASSUME Inv, Order PROVE StreamIntegrity
<1> SUFFICES ASSUME NEW s \in Slot, conn[s].flag
             PROVE  /\ \A x \in Side : conn[s].fd[Other(x)] =>
                         Through(conn[s], x) = Meant(conn[s], x)
                    /\ ~HeaderDone(conn[s]) =>
                         conn[s].head = Translate(Cli, Taken(conn[s], Cli))
  BY DEF StreamIntegrity, Through
<1>1. conn[s] \in SlotType /\ Streams(conn[s]) /\ Cli \in Side
  BY InvSlots DEF Order, SlotOK, Side
<1>2. ~HeaderDone(conn[s]) => Collecting(conn[s])
  BY <1>1, CollectingMeans
<1> QED
  BY <1>1, <1>2, ThroughIsMeant DEF Collecting, Taken

\* In the server, too, a session with a closed side lives to flush and for
\* nothing else.
THEOREM ServerClosedFlushes == Spec => []ClosedOnlyToFlush
BY Invariant, Orderly, DisciplineImplies, PTL DEF Order

\* The server, too, waits for EPOLLOUT exactly while there is something to
\* write, also while the answer to CONNECT is under way.
THEOREM ServerArmedRight == Spec => []ArmedForWhatIsPending
BY Invariant, Orderly, DisciplineImplies, PTL DEF Order

\* However the request is cut up, host and client are given exactly what is
\* meant for them: for every size of the cache, of the buffers and of the pool.
THEOREM ServerStreamIntact == Spec => []StreamIntegrity
BY Invariant, Orderly, OrderIntegrity, PTL

\* A session that is still collecting its header always has room for more of
\* it, so that a read() of 0 bytes is never asked for.
THEOREM HeadHasRoom == Spec => []HeadCacheHasRoom
<1>1. Order => HeadCacheHasRoom
  BY DEF Order, Streams, HeaderDone, HeadCacheHasRoom
<1> QED
  BY <1>1, Orderly, PTL

\* No host is contacted but for a complete header that was accepted and names
\* it, whichever way the stages are entered.
THEOREM HostAfterHeader == Spec => []HostOnlyAfterHeader
<1>1. ASSUME Inv, Order
      PROVE  HostOnlyAfterHeader
  <2> SUFFICES ASSUME NEW s \in Slot, conn[s].fd[Svr]
               PROVE  /\ conn[s].req.parses /\ conn[s].req.host
                      /\ HeaderComplete(conn[s])
    BY DEF HostOnlyAfterHeader
  <2>1. conn[s].flag
    BY <1>1, InvSlots DEF SlotOK, SlotHoldsWhatItOwns, Side
  <2> QED
    BY <1>1, <2>1 DEF Order, Streams, Collecting, Relays, Judged
<1> QED
  BY <1>1, Invariant, Orderly, PTL

-----------------------------------------------------------------------------
(* The server's slots as abstract sessions.                                 *)

AllKept == \A s \in Slot : Kept(conn[s])

\* The histories are empty at the start,
LEMMA KeptInit == Init => AllKept
<1> SUFFICES ASSUME Init, NEW s \in Slot PROVE Kept(conn[s])
  BY DEF AllKept
<1> QED
  BY DEF Init, EmptySlot, Kept, NoSocket

\* and in a slot just handed out,
LEMMA InitServerSessionKept ==
    ASSUME NEW q \in Requests
    PROVE  LET c == InitServerSession(q) IN
           /\ Fresh(c) /\ c.data = [x \in Side |-> <<>>]
           /\ c.taken = [x \in Side |-> 0]
           /\ c.status = [x \in Side |-> "INIT"]
           /\ \A x \in Side : c.sock[x].out = <<>> /\ c.gave[x] = <<>>
BY InitServerSessionFresh DEF InitServerSession, InitSession, EmptySlot, NoSocket

\* and no step leaves one behind.
LEMMA KeptStep ==
    ASSUME Inv, Order, AllKept, [Next]_vars
    PROVE  AllKept'
<1>0. conn \in [Slot -> SlotType]
  BY DEF Inv, TypeOK
<1>1. CASE AgentStep \/ EpollWait \/ WaitInterrupted \/ UNCHANGED vars
           \/ \E e \in batch : SkipEvent(e)
  <2>1. conn' = conn
    BY <1>1 DEF AgentStep, AgentInterrupted, AgentNoSession, AgentRefuses,
                EpollWait, WaitInterrupted, SkipEvent, vars
  <2> QED
    BY <2>1 DEF AllKept
<1>2. ASSUME NEW d \in Elapsed, NEW q \in Requests, NEW registered \in BOOLEAN,
             AgentAccepts(d, InitServerSession(q), registered)
      PROVE  AllKept'
  <2> DEFINE fresh == InitServerSession(q)
             taken == Accepted(fresh)
             refused == FreeSession([fresh EXCEPT !.fd[Cli] = TRUE,
                                                  !.sock[Cli] = NewSocket("est")])
  <2>1. Kept(taken) /\ Kept(refused)
    BY InitServerSessionKept, AcceptedKept
  <2>2. conn' = [conn EXCEPT ![FirstFree] = IF registered THEN taken ELSE refused]
    BY <1>2 DEF AgentAccepts
  <2> HIDE DEF taken, refused
  <2> QED
    BY <1>0, <2>1, <2>2 DEF AllKept
<1>3. ASSUME NEW e \in batch, HandleSvrEvent(e) \/ HandleCliEvent(e)
      PROVE  AllKept'
  <2> DEFINE c == conn[e.slot]
  <2>1. /\ c.flag /\ e.slot \in Slot /\ SlotOK(c) /\ Kept(c)
        /\ Settled(c) /\ Streams(c)
        /\ (c.fd[e.tag] \/ (e.tag = Svr /\ c.status[Svr] = "CLOSE"))
    BY <1>3, EventSide DEF HandleSvrEvent, HandleCliEvent, AllKept, Order
  <2>2. ASSUME NEW d, Kept(d), HandleEvent(e, d)
        PROVE  AllKept'
    BY <1>0, <2>1, <2>2 DEF HandleEvent, AllKept
  <2>3. CASE HandleSvrEvent(e)
    <3>1. PICK mem \in MallocOutcomes : HandleEvent(e, SvrEvent(c, e.events, mem))
      BY <2>3 DEF HandleSvrEvent
    <3>2. mem \in BOOLEAN /\ e.tag = Svr
      BY <2>3 DEF MallocOutcomes, HandleSvrEvent
    <3> HIDE DEF c
    <3>3. Kept(SvrEvent(c, e.events, mem))
      BY <2>1, <3>2, SvrEventKept
    <3> QED
      BY <2>2, <3>1, <3>3
  <2>4. CASE HandleCliEvent(e)
    <3>1. PICK headmem \in MallocOutcomes, mem \in MallocOutcomes,
               outcome \in HostOutcomes :
            HandleEvent(e, CliEvent(c, e.events, outcome, headmem, mem))
      BY <2>4 DEF HandleCliEvent
    <3>2. mem \in BOOLEAN /\ headmem \in BOOLEAN /\ e.tag = Cli /\ Cli # Svr
      BY <2>4 DEF MallocOutcomes, HandleCliEvent, Cli, Svr
    <3> HIDE DEF c
    <3>3. Kept(CliEvent(c, e.events, outcome, headmem, mem))
      BY <2>1, <3>2, CliEventKeeps
    <3> QED
      BY <2>2, <3>1, <3>3
  <2> QED
    BY <1>3, <2>3, <2>4
<1>4. CASE TimeoutStep
  <2>1. ASSUME NEW walked, Walk(walked)
        PROVE  AllKept'
    <3>1. \A s \in Slot : Kept(FreeSession(conn[s]))
      BY <1>0, FreeSessionKept DEF AllKept, Kept
    <3> QED
      BY <2>1, <3>1 DEF Walk, Reaped, AllKept
  <2>2. conn' = conn => AllKept'
    BY DEF AllKept
  <2> QED
    BY <1>4, <2>1, <2>2 DEF TimeoutStep, TimeoutNotDue, TimeoutWalk, TimeoutSweep
<1>5. CASE PeerStep
  <2> SUFFICES ASSUME NEW s \in Slot
               PROVE  Kept(conn'[s])
    BY DEF AllKept
  <2>1. /\ conn'[s].flag = conn[s].flag /\ conn'[s].fd = conn[s].fd
        /\ conn'[s].status = conn[s].status /\ conn'[s].taken = conn[s].taken
        /\ conn'[s].gave = conn[s].gave
    BY <1>5, PeerKeeps
  <2>2. \A x \in Side : conn'[s].sock[x].out = conn[s].sock[x].out
    BY <1>5, PeerKeepsOut
  <2>3. Kept(conn[s])
    BY DEF AllKept
  <2> QED
    BY <2>1, <2>2, <2>3 DEF Kept
<1> QED
  BY <1>1, <1>2, <1>3, <1>4, <1>5
     DEF Next, HandleAgentEvent, HandleConnectionsEvent, HandleSessionTimeout,
         Dispatch, Accept

\* A free slot of the server has no history, and a session that relays has
\* both its descriptors.
THEOREM HistoryKept == Spec => []AllKept
<1>1. Inv /\ Order /\ AllKept /\ [Next]_vars => AllKept'
  BY KeptStep
<1> QED
  BY <1>1, KeptInit, Invariant, Orderly, PTL DEF Spec

\* What is meant only grows while bytes flow.
LEMMA MeantGrows ==
    ASSUME NEW c \in SlotType, c.flag, Streams(c), HeaderDone(c),
           NEW d \in SlotType, d.flag, Streams(d), Flows(c, d), NEW x \in Side
    PROVE  /\ StartOf(Meant(c, x), Meant(d, x))
           /\ ~c.fd[x] => Meant(d, x) = Meant(c, x)
<1> DEFINE p == PeerBytes(c, x)
           i == c.taken[x]
           j == d.taken[x]
           k == Skipped(c, x)
           first == Preface(c, x)
           s1 == SubSeq(p, k + 1, i)
           s2 == SubSeq(p, i + 1, j)
<1>1. PeerBytes(d, x) = p /\ i <= j /\ (~c.fd[x] => j = i)
  BY DEF Flows, FlowsSide, PeerBytes
<1>2. p \in Seq(Byte) /\ i \in Nat /\ j \in Nat
  BY ThroughType
<1>3. j <= Len(p) /\ Len(p) \in Nat
  BY <1>1, <1>2, LenProperties DEF Streams, Counted
<1>4. HeaderDone(d) /\ Preface(d, x) = first /\ Skipped(d, x) = k
  BY DEF Flows, HeaderDone, Preface, Skipped
<1>5. /\ first \in Seq(Byte) /\ k \in Nat /\ k <= i
      /\ Meant(c, x) = first \o Translate(x, s1)
      /\ Meant(d, x) = first \o Translate(x, SubSeq(p, k + 1, j))
  BY <1>1, <1>4, RelaysMeans
<1> HIDE DEF p, i, j, k, first
<1>6. /\ s1 \in Seq(Byte) /\ s2 \in Seq(Byte)
      /\ s1 \o s2 = SubSeq(p, k + 1, j)
  <2>1. i <= Len(p)
    BY <1>1, <1>2, <1>3
  <2>2. s1 \in Seq(Byte) /\ s2 \in Seq(Byte)
    BY <1>1, <1>2, <1>3, <1>5, <2>1, Pieces
  <2>3. s1 \o s2 = SubSeq(p, k + 1, j)
    BY <1>1, <1>2, <1>3, <1>5, <2>1, PiecesJoin
  <2> QED
    BY <2>2, <2>3
<1>7. j = i => Meant(d, x) = Meant(c, x)
  BY <1>5
<1> HIDE DEF s1, s2
<1> DEFINE t1 == Translate(x, s1)
           t2 == Translate(x, s2)
<1>8. /\ t1 \in Seq(Byte) /\ t2 \in Seq(Byte)
      /\ Meant(c, x) = first \o t1 /\ Meant(d, x) = first \o (t1 \o t2)
  <2>1. t1 \in Seq(Byte) /\ t2 \in Seq(Byte)
    BY <1>6, TranslateType
  <2>2. Translate(x, s1 \o s2) = t1 \o t2
    BY <1>6, TranslateConcat
  <2>3. Meant(d, x) = first \o Translate(x, s1 \o s2)
    BY <1>5, <1>6
  <2> QED
    BY <1>5, <2>1, <2>2, <2>3
<1> HIDE DEF t1, t2
<1>9. (first \o t1) \o t2 = first \o (t1 \o t2)
  BY <1>5, <1>8, Regroup
<1>10. first \o t1 \in Seq(Byte)
  BY <1>5, <1>8, ConcatProperties
<1>11. StartOf(first \o t1, (first \o t1) \o t2)
  BY <1>8, <1>10, PrefixConcat
<1> QED
  BY <1>1, <1>7, <1>8, <1>9, <1>11

MeantOf(c) == [x \in Side |-> Meant(c, x)]

\* A session that collects its header waits, and has handed over nothing.
LEMMA WaitingView ==
    ASSUME NEW c, SlotOK(c), c.flag, Settled(c), Kept(c), Streams(c),
           ~HeaderDone(c)
    PROVE  /\ Phase(c) = "waiting" /\ ClosedSide(c) = "nobody"
           /\ \A x \in Side : Meant(c, x) = <<>> /\ c.sock[x].out = <<>>
<1>1. /\ Cli \in Side /\ Svr \in Side /\ c \in SlotType
      /\ Other(Svr) = Cli /\ \A x \in Side : x = Cli \/ x = Svr
  BY DEF Side, Cli, Svr, Other, SlotOK
<1>2. Collecting(c) /\ c.status[Cli] \in {"INIT", "PARSE_HEAD"}
  BY <1>1, CollectingMeans
<1>3. \A x \in Side : Meant(c, x) = <<>>
  BY <1>1, CollectingMeans
<1>4. \A x \in Side : c.status[x] # "CLOSE"
  BY <1>1, <1>2 DEF Collecting
<1>5. Phase(c) = "waiting" /\ ClosedSide(c) = "nobody"
  BY <1>2, <1>4 DEF Phase, ClosedSide, Collecting
<1>6. c.sock[Svr].out = <<>>
  BY <1>1, <1>2 DEF Kept, Collecting
<1>7. c.sock[Cli].out = <<>>
  <2> DEFINE t == c.sock[Cli].out
             u == c.data[Svr]
  <2>1. t \in Seq(Byte) /\ u \in Seq(Byte) /\ t \o u = <<>>
    BY <1>1, <1>2, ThroughType DEF Collecting, Through
  <2> HIDE DEF t, u
  <2>2. Len(t) \in Nat /\ Len(u) \in Nat /\ Len(t \o u) = Len(t) + Len(u)
    BY <2>1, LenProperties, ConcatProperties
  <2>3. Len(t) = 0
    BY <2>1, <2>2, EmptySeq
  <2>4. t = <<>>
    BY <2>1, <2>3, EmptySeq
  <2> QED
    BY <2>4 DEF t
<1> QED
  BY <1>1, <1>3, <1>5, <1>6, <1>7

\* Nothing is to be seen of a step.
Unmoved(c, d) ==
    /\ Phase(d) = Phase(c) /\ ClosedSide(d) = ClosedSide(c)
    /\ \A x \in Side : Meant(d, x) = Meant(c, x)
    /\ \A x \in Side : Delivered(d, x) = Delivered(c, x)

\* An event takes the session of a slot from one abstract state to another,
\* or only collects more of the header.
LEMMA EventMoves ==
    ASSUME NEW c, SlotOK(c), c.flag, Settled(c), Kept(c), Streams(c),
           NEW d, SlotOK(d), d.flag, Settled(d), Kept(d), Streams(d),
           HeaderDone(c) => Flows(c, d)
    PROVE  \/ Unmoved(c, d)
           \/ Relayed(c, d, MeantOf(c), MeantOf(d))
           \/ \E x \in Side : HalfClosed(c, d, MeantOf(c), MeantOf(d), x)
           \/ Flushed(c, d, MeantOf(c), MeantOf(d))
<1> DEFINE m == MeantOf(c)
           n == MeantOf(d)
<1>1. Cli \in Side /\ Svr \in Side /\ c \in SlotType /\ d \in SlotType
  BY DEF Side, SlotOK
<1>2. \A x \in Side : m[x] = Meant(c, x) /\ n[x] = Meant(d, x)
  BY DEF MeantOf
<1> HIDE DEF m, n
<1>3. \A x \in Side : /\ n[x] \in Seq(Byte)
                      /\ d.fd[Other(x)] => Through(d, x) = n[x]
  BY <1>1, <1>2, ThroughIsMeant
<1>4. HeaderDone(d) => d.status[Cli] \in {"DATA_RELAY", "CLOSE"}
  BY DEF Streams, HeaderDone
<1>5. CASE ~HeaderDone(c) /\ ~HeaderDone(d)
  BY <1>5, WaitingView, OtherSide DEF Unmoved, Delivered
<1>6. CASE ~HeaderDone(c) /\ HeaderDone(d)
  <2>1. /\ Phase(c) = "waiting"
        /\ \A x \in Side : m[x] = <<>> /\ c.sock[x].out = <<>>
    BY <1>2, <1>6, WaitingView
  <2>2. \A s \in Seq(Byte) : StartOf(<<>>, s)
    <3> TAKE s \in Seq(Byte)
    <3>2. <<>> \in Seq(Byte) /\ <<>> \o s = s
      BY EmptySeq, ConcatEmptySeq
    <3> QED
      BY <3>2, PrefixConcat
  <2>3. \A x \in Side : StartOf(m[x], n[x])
    BY <1>3, <2>1, <2>2
  <2>4. \A x \in Side : StartOf(c.sock[x].out, d.sock[x].out)
    BY <1>1, <2>1, <2>2, ThroughType
  <2> QED
    BY <1>3, <1>4, <1>6, <2>1, <2>3, <2>4, SessionMoves DEF m, n
<1>7. CASE HeaderDone(c)
  <2>1. Flows(c, d)
    BY <1>7
  <2>2. \A x \in Side : /\ StartOf(m[x], n[x])
                        /\ ~c.fd[x] => n[x] = m[x]
    BY <1>1, <1>2, <1>7, <2>1, MeantGrows
  <2>3. \A x \in Side : d.fd[x] =>
          c.fd[x] /\ StartOf(c.sock[x].out, d.sock[x].out)
    BY <2>1 DEF Flows, FlowsSide
  <2>4. d.status[Cli] \in {c.status[Cli], "CLOSE"}
    BY <2>1 DEF Flows
  <2>5. d.status[Cli] \in {"DATA_RELAY", "CLOSE"}
    BY <1>4, <1>7, <2>4 DEF HeaderDone
  <2> QED
    BY <1>3, <2>2, <2>3, <2>4, <2>5, SessionMoves DEF m, n
<1> QED
  BY <1>5, <1>6, <1>7

\* A free slot is a free abstract session.
LEMMA FreeView ==
    ASSUME NEW c, SlotOK(c), Kept(c), ~c.flag
    PROVE  /\ Phase(c) = "free" /\ ClosedSide(c) = "nobody"
           /\ \A x \in Side : Meant(c, x) = <<>> /\ Delivered(c, x) = <<>>
<1>1. Phase(c) = "free" /\ ClosedSide(c) = "nobody"
  BY DEF Phase, ClosedSide
<1>2. /\ Cli \in Side /\ Svr \in Side /\ Cli # Svr /\ ~HeaderDone(c)
      /\ \A x \in Side : x = Cli \/ x = Svr
  BY DEF Side, Cli, Svr, HeaderDone
<1>3. \A x \in Side : Delivered(c, x) = <<>>
  BY OtherSide DEF Kept, Delivered, SlotOK, SlotHoldsWhatItOwns
<1>4. Meant(c, Svr) = <<>>
  <2>1. c.taken[Svr] = 0
    BY <1>2 DEF Kept
  <2>2. SubSeq(PeerBytes(c, Svr), 1, 0) = <<>>
    BY SubSeqEmpty
  <2>3. <<>> \o <<>> = <<>>
    BY EmptySeq, ConcatEmptySeq
  <2>4. Taken(c, Svr) = <<>>
    BY <2>1, <2>2 DEF Taken
  <2>5. MeantForClient(c) = Translate(Svr, <<>> \o <<>>)
    BY <1>2, <2>4 DEF MeantForClient
  <2> QED
    BY <1>2, <2>3, <2>5, TranslateNothing DEF Meant
<1>5. Meant(c, Cli) = <<>>
  BY <1>2 DEF Meant, MeantForHost
<1> QED
  BY <1>1, <1>2, <1>3, <1>4, <1>5

\* Steps of a slot and steps of its abstract session.
LEMMA SameSession ==
    ASSUME NEW s \in Slot, Phase(conn'[s]) = Phase(conn[s]),
           ClosedSide(conn'[s]) = ClosedSide(conn[s]),
           \A x \in Side : Meant(conn'[s], x) = Meant(conn[s], x),
           \A x \in Side : Delivered(conn'[s], x) = Delivered(conn[s], x)
    PROVE  Promise!Same(s)
BY DEF Promise!Same, Delivered

\* A slot handed out,
LEMMA OpenedSession ==
    ASSUME NEW s \in Slot, Phase(conn[s]) = "free",
           Phase(conn'[s]) = "waiting",
           ClosedSide(conn'[s]) = ClosedSide(conn[s]),
           \A x \in Side : Meant(conn'[s], x) = Meant(conn[s], x),
           \A x \in Side : Delivered(conn'[s], x) = Delivered(conn[s], x)
    PROVE  Promise!Step(s)
BY DEF Promise!Step, Promise!Open, Delivered

\* a session freed,
LEMMA ClosedSession ==
    ASSUME NEW s \in Slot, Phase(conn[s]) # "free",
           Phase(conn'[s]) = "free", ClosedSide(conn'[s]) = "nobody",
           \A x \in Side : Meant(conn'[s], x) = <<>>,
           \A x \in Side : Delivered(conn'[s], x) = <<>>
    PROVE  Promise!Step(s)
BY DEF Promise!Step, Promise!Close, Promise!Nothing, Delivered

\* and a session in which bytes flow are steps of the abstract session.
LEMMA MovedSession ==
    ASSUME NEW s \in Slot,
           LET c == conn[s]
               d == conn'[s]
           IN  \/ Relayed(c, d, MeantOf(c), MeantOf(d))
               \/ \E x \in Side : HalfClosed(c, d, MeantOf(c), MeantOf(d), x)
               \/ Flushed(c, d, MeantOf(c), MeantOf(d))
    PROVE  Promise!Step(s)
<1> DEFINE c == conn[s]
           d == conn'[s]
           m == [x \in Side |-> Meant(c, x)]
           n == [x \in Side |-> Meant(d, x)]
           o == [x \in Side |-> c.sock[Other(x)].out]
           p == [x \in Side |-> d.sock[Other(x)].out]
<1>1. /\ MeantOf(c) = m /\ MeantOf(d) = n
      /\ \A x \in Side : Delivered(c, x) = o[x] /\ Delivered(d, x) = p[x]
  BY DEF MeantOf, Delivered
<1> HIDE DEF m, n, o, p
<1>0. \A t, u : Promise!StartOf(t, u) <=> StartOf(t, u)
  BY DEF Promise!StartOf, StartOf
<1>2. ASSUME InOrderNow(d, n) PROVE \A x \in Side : StartOf(p[x], n[x])
  BY <1>1, <1>2 DEF InOrderNow
<1>3. Promise!InOrder(s) <=> \A x \in Side : StartOf(p[x], n[x])
  BY <1>0 DEF Promise!InOrder, p, n
<1>4. CASE Relayed(c, d, m, n)
  <2>1. Promise!Extends(m, n, Side) /\ Promise!Extends(o, p, Side)
    BY <1>0, <1>1, <1>4 DEF Promise!Extends, Relayed
  <2>2. Promise!Relay(s)
    BY <1>2, <1>3, <1>4, <2>1 DEF Promise!Relay, Relayed, m, n, o, p
  <2> QED
    BY <2>2 DEF Promise!Step
<1>5. ASSUME NEW x \in Side, HalfClosed(c, d, m, n, x)
      PROVE  Promise!Step(s)
  <2>1. Promise!Extends(m, n, Side) /\ Promise!Extends(o, p, {x})
    BY <1>0, <1>1, <1>5 DEF Promise!Extends, HalfClosed
  <2>2. p[x] # n[x] /\ \A y \in Side \ {x} : p[y] = <<>>
    BY <1>1, <1>5 DEF HalfClosed
  <2>3. Promise!HalfClose(s, x)
    BY <1>2, <1>3, <1>5, <2>1, <2>2 DEF Promise!HalfClose, HalfClosed, m, n, o, p
  <2> QED
    BY <2>3 DEF Promise!Step
<1>6. CASE Flushed(c, d, m, n)
  <2> DEFINE x == ClosedSide(c)
  <2>0. x \in Side
    BY <1>6 DEF Flushed
  <2>1. Promise!Extends(m, n, Side) /\ Promise!Extends(o, p, {x})
    BY <1>0, <1>1, <1>6 DEF Promise!Extends, Flushed
  <2>2. /\ p[x] # n[x] /\ \A y \in Side \ {x} : p[y] = <<>>
        /\ n[x] = m[x]
    BY <1>1, <1>6 DEF Flushed
  <2>3. Promise!Flush(s)
    BY <1>2, <1>3, <1>6, <2>1, <2>2 DEF Promise!Flush, Flushed, m, n, o, p
  <2> QED
    BY <2>3 DEF Promise!Step
<1> QED
  BY <1>1, <1>4, <1>5, <1>6

\* Everything that is known of the server's slots.
Sound == Inv /\ Order /\ AllKept

\* What Sound says of a slot before a step,
LEMMA SoundSlot ==
    ASSUME Sound, NEW s \in Slot
    PROVE  /\ SlotOK(conn[s]) /\ Settled(conn[s]) /\ Streams(conn[s])
           /\ Kept(conn[s])
BY InvSlots DEF Sound, Order, Discipline, AllKept

\* and after it.
LEMMA SoundSlotAfter ==
    ASSUME Sound', NEW s \in Slot
    PROVE  /\ SlotOK(conn'[s]) /\ Settled(conn'[s]) /\ Streams(conn'[s])
           /\ Kept(conn'[s])
BY DEF Sound, Inv, TypeOK, NoLeak, SlotOK, Order, Discipline, AllKept

\* A slot that is freed, or free and left alone, or refused to a client.
LEMMA FreedSession ==
    ASSUME Sound, Sound', NEW s \in Slot, ~conn'[s].flag
    PROVE  Promise!Same(s) \/ Promise!Step(s)
<1>1. /\ Phase(conn'[s]) = "free" /\ ClosedSide(conn'[s]) = "nobody"
      /\ \A x \in Side : /\ Meant(conn'[s], x) = <<>>
                          /\ Delivered(conn'[s], x) = <<>>
  BY SoundSlotAfter, FreeView
<1>2. CASE conn[s].flag
  <2>1. Phase(conn[s]) # "free"
    BY <1>2, SoundSlot, PhaseOfSettled
  <2> QED
    BY <1>1, <2>1, ClosedSession
<1>3. CASE ~conn[s].flag
  <2>1. /\ Phase(conn[s]) = "free" /\ ClosedSide(conn[s]) = "nobody"
        /\ \A x \in Side : Meant(conn[s], x) = <<>> /\ Delivered(conn[s], x) = <<>>
    BY <1>3, SoundSlot, FreeView
  <2> QED
    BY <1>1, <2>1, SameSession
<1> QED
  BY <1>2, <1>3

\* A step of the server is, for each slot, a step of its abstract session or
\* none at all.
LEMMA PromiseStep ==
    ASSUME Sound, Sound', [Next]_vars, NEW s \in Slot
    PROVE  Promise!Same(s) \/ Promise!Step(s)
<1>0. conn \in [Slot -> SlotType]
  BY DEF Sound, Inv, TypeOK
<1>1. ASSUME conn'[s] = conn[s]
      PROVE  Promise!Same(s)
  BY <1>1, SameSession
<1>2. CASE AgentStep \/ EpollWait \/ WaitInterrupted \/ UNCHANGED vars
           \/ \E e \in batch : SkipEvent(e)
  <2>1. conn' = conn
    BY <1>2 DEF AgentStep, AgentInterrupted, AgentNoSession, AgentRefuses,
                EpollWait, WaitInterrupted, SkipEvent, vars
  <2> QED
    BY <1>1, <2>1
<1>3. ASSUME NEW d \in Elapsed, NEW q \in Requests, NEW registered \in BOOLEAN,
             AgentAccepts(d, InitServerSession(q), registered), conn'[s].flag
      PROVE  Promise!Same(s) \/ Promise!Step(s)
  <2> DEFINE taken == Accepted(InitServerSession(q))
             refused == FreeSession([InitServerSession(q) EXCEPT
                          !.fd[Cli] = TRUE, !.sock[Cli] = NewSocket("est")])
  <2>1. conn' = [conn EXCEPT ![FirstFree] = IF registered THEN taken ELSE refused]
    BY <1>3 DEF AgentAccepts
  <2>2. taken.status = [x \in Side |-> "INIT"]
    BY InitServerSessionKept, AcceptedCounted
  <2>3. ~refused.flag
    BY InitServerSessionKept, RefusedFreed
  <2>4. FirstFree \in Slot /\ ~conn[FirstFree].flag
    BY <1>3, FirstFreeIsFree DEF AgentAccepts, Sound, Inv, TypeOK
  <2> HIDE DEF taken, refused
  <2>5. CASE s # FirstFree
    BY <1>0, <1>1, <2>1, <2>5
  <2>6. CASE s = FirstFree
    <3>1. conn'[s] = taken
      BY <1>0, <1>3, <2>1, <2>3, <2>6
    <3>2. /\ Phase(conn[s]) = "free" /\ ClosedSide(conn[s]) = "nobody"
          /\ \A x \in Side : Meant(conn[s], x) = <<>> /\ Delivered(conn[s], x) = <<>>
      BY <2>4, <2>6, SoundSlot, FreeView
    <3>3. ~HeaderDone(taken)
      BY <2>2 DEF HeaderDone, Side
    <3>4. /\ Phase(taken) = "waiting" /\ ClosedSide(taken) = "nobody"
          /\ \A x \in Side : Meant(taken, x) = <<>> /\ taken.sock[x].out = <<>>
      BY <1>3, <3>1, <3>3, SoundSlotAfter, WaitingView
    <3>5. \A x \in Side : Delivered(taken, x) = <<>>
      BY <3>4, OtherSide DEF Delivered
    <3> QED
      BY <3>1, <3>2, <3>4, <3>5, OpenedSession
  <2> QED
    BY <2>5, <2>6
<1>4. ASSUME NEW e \in batch, HandleSvrEvent(e) \/ HandleCliEvent(e),
             conn'[s].flag
      PROVE  Promise!Same(s) \/ Promise!Step(s)
  <2>1. CASE s # e.slot
    <3>1. conn'[s] = conn[s]
      BY <1>0, <1>4, <2>1 DEF HandleSvrEvent, HandleCliEvent, HandleEvent
    <3> QED
      BY <1>1, <3>1
  <2>2. CASE s = e.slot
    <3> DEFINE c == conn[s]
               d == conn'[s]
    <3>1. /\ c.flag
          /\ (c.fd[e.tag] \/ (e.tag = Svr /\ c.status[Svr] = "CLOSE"))
      BY <1>4, <2>2, EventSide DEF HandleSvrEvent, HandleCliEvent, Sound, Order
    <3>2. /\ SlotOK(c) /\ Settled(c) /\ Streams(c) /\ Kept(c)
          /\ SlotOK(d) /\ Settled(d) /\ Streams(d) /\ Kept(d)
      BY SoundSlot, SoundSlotAfter
    <3>3. HeaderDone(c) => Flows(c, d)
      <4>1. CASE HandleSvrEvent(e)
        <5>1. PICK mem \in MallocOutcomes : d = SvrEvent(c, e.events, mem)
          BY <1>0, <2>2, <4>1 DEF HandleSvrEvent, HandleEvent
        <5>2. mem \in BOOLEAN /\ e.tag = Svr
          BY <4>1 DEF MallocOutcomes, HandleSvrEvent
        <5> HIDE DEF c, d
        <5>3. c.fd[Svr] \/ c.status[Svr] = "CLOSE"
          BY <3>1, <5>2
        <5> QED
          BY <3>1, <3>2, <5>1, <5>2, <5>3, SvrEventFlows DEF Streams
      <4>2. CASE HandleCliEvent(e)
        <5>1. PICK headmem \in MallocOutcomes, mem \in MallocOutcomes,
                   outcome \in HostOutcomes :
                d = CliEvent(c, e.events, outcome, headmem, mem)
          BY <1>0, <2>2, <4>2 DEF HandleCliEvent, HandleEvent
        <5>2. /\ mem \in BOOLEAN /\ headmem \in BOOLEAN /\ e.tag = Cli
              /\ Cli # Svr
          BY <4>2 DEF MallocOutcomes, HandleCliEvent, Cli, Svr
        <5> HIDE DEF c, d
        <5>3. c.fd[Cli]
          BY <3>1, <5>2
        <5>4. HeaderDone(c) => c.status[Cli] = "DATA_RELAY"
          BY <3>1, <3>2, <5>3 DEF Streams, HeaderDone, Settled, Flushes, Side
        <5> QED
          BY <3>1, <3>2, <5>1, <5>2, <5>3, <5>4, CliEventKeeps
      <4> QED
        BY <1>4, <4>1, <4>2
    <3>4. d.flag
      BY <1>4
    <3> HIDE DEF c, d
    <3>5. \/ Unmoved(c, d)
          \/ Relayed(c, d, MeantOf(c), MeantOf(d))
          \/ \E x \in Side : HalfClosed(c, d, MeantOf(c), MeantOf(d), x)
          \/ Flushed(c, d, MeantOf(c), MeantOf(d))
      BY <3>1, <3>2, <3>3, <3>4, EventMoves
    <3>6. CASE Unmoved(c, d)
      BY <3>6, SameSession DEF Unmoved, c, d
    <3> QED
      BY <3>5, <3>6, MovedSession DEF c, d
  <2> QED
    BY <2>1, <2>2
<1>5. CASE TimeoutStep /\ conn'[s].flag
  <2>1. conn'[s] = conn[s]
    <3>1. \A c : SlotOK(c) => ~FreeSession(c).flag
      BY FreeSessionOK
    <3>2. SlotOK(conn[s])
      BY SoundSlot
    <3> QED
      BY <1>5, <3>1, <3>2 DEF TimeoutStep, TimeoutNotDue, TimeoutWalk,
                              TimeoutSweep, Walk, Reaped
  <2> QED
    BY <1>1, <2>1
<1>6. CASE PeerStep /\ conn'[s].flag
  <2>1. /\ conn[s].flag /\ conn'[s].flag = conn[s].flag
        /\ conn'[s].fd = conn[s].fd /\ conn'[s].status = conn[s].status
        /\ conn'[s].taken = conn[s].taken /\ conn'[s].req = conn[s].req
        /\ conn'[s].head = conn[s].head
    BY <1>6, PeerKeeps DEF Sound
  <2>2. \A x \in Side : conn'[s].sock[x].out = conn[s].sock[x].out
    BY <1>6, PeerKeepsOut DEF Sound
  <2>3. /\ Phase(conn'[s]) = Phase(conn[s])
        /\ ClosedSide(conn'[s]) = ClosedSide(conn[s])
    BY <2>1 DEF Phase, ClosedSide
  <2>4. \A x \in Side : Meant(conn'[s], x) = Meant(conn[s], x)
    BY <2>1 DEF Meant, MeantForHost, MeantForClient, HeaderDone, Taken, PeerBytes
  <2>5. \A x \in Side : Delivered(conn'[s], x) = Delivered(conn[s], x)
    BY <2>2, OtherSide DEF Delivered
  <2> QED
    BY <2>3, <2>4, <2>5, SameSession
<1>7. CASE ~conn'[s].flag
  BY <1>7, FreedSession
<1> QED
  BY <1>2, <1>3, <1>4, <1>5, <1>6, <1>7
     DEF Next, HandleAgentEvent, HandleConnectionsEvent, HandleSessionTimeout,
         Dispatch, Accept

\* At the start every abstract session is free.
LEMMA PromiseInit == Init => Promise!Init
<1> SUFFICES ASSUME Init, NEW s \in Slot
             PROVE  /\ Phase(conn[s]) = "free" /\ ClosedSide(conn[s]) = "nobody"
                    /\ \A x \in Side : /\ Meant(conn[s], x) = <<>>
                                       /\ conn[s].sock[Other(x)].out = <<>>
  BY DEF Promise!Init, Promise!Nothing
<1>1. Sound
  BY InitOK, OrderInit, KeptInit DEF Sound
<1>2. ~conn[s].flag
  BY DEF Init, EmptySlot
<1> QED
  BY <1>1, <1>2, SoundSlot, FreeView DEF Delivered

\* The server implements ProxySession as the client does, although it collects
\* a header before it builds the far connection, answers CONNECT itself and
\* drops what was cached behind the header of a CONNECT: no stage and no failure
\* makes a slot take a step that the abstract session does not.
THEOREM ServerPromiseKept == Spec => KeepsPromise
<1>1. Init => Promise!Init
  BY PromiseInit
<1>2. Sound /\ Sound' /\ [Next]_vars => [Promise!Next]_(Promise!sessions)
  BY PromiseStep DEF Promise!Next
<1>3. Spec => []Sound
  BY Invariant, Orderly, HistoryKept, PTL DEF Sound
<1> QED
  BY <1>1, <1>2, <1>3, PTL DEF Spec, KeepsPromise, Promise!Spec

-----------------------------------------------------------------------------
(* What one event reads, and what it gives the peers.                       *)

\* Reading into the header cache gives nobody anything,
LEMMA ParseHeadGives ==
    ASSUME NEW c, SlotOK(c), c.flag, c.status[Cli] = "PARSE_HEAD",
           Midway(c, Cli), Progress(c), NEW events
    PROVE  LET r == ParseHead(c, events) IN
           r.ret = 0 => ~r.slot.fd[Svr] /\ Gives(c, r.slot, GivesNothing)
<1> DEFINE p == OnParseHeader(c, events)
           r == ParseHead(c, events)
           d == Cached(c)
           next == [d EXCEPT !.status[Cli] = "PROCESS_HEAD"]
           ended == Ended(c, Cli)
<1>1. /\ Cli \in Side /\ Svr \in Side /\ Cli # Svr /\ c \in SlotType
      /\ \A x \in Side : x = Cli \/ x = Svr
      /\ c.fd[Cli] /\ \A x \in Side : Counted(c, x)
      /\ Collecting(c) /\ Len(c.head) < HeadMax /\ ~c.fd[Svr]
  BY DEF Side, Cli, Svr, SlotOK, Progress, Midway, Collecting
<1>2. \/ Caches(c) > 0 /\ p = Return(0, d)
      \/ Caches(c) > 0 /\ p = Return(-1, d)
      \/ Caches(c) > 0 /\ p = Return(-2, d)
      \/ p = Return(-1, FreeSession(c))
      \/ p = Return(-2, ended)
      \/ p = Return(-2, c)
  BY OnParseHeaderCases
<1>3. /\ p.ret = 0 => r = Return(0, [p.slot EXCEPT !.status[Cli] = "PROCESS_HEAD"])
      /\ p.ret = -1 => r.ret = -1
      /\ p.ret = -2 => r = Return(0, p.slot)
  BY DEF ParseHead, Return
<1> HIDE DEF p, r
<1>4. ASSUME Caches(c) > 0
      PROVE  /\ SlotOK(d) /\ d.fd = c.fd /\ d.req = c.req
             /\ \A x \in Side : Pending(d, x) = Pending(c, x)
             /\ \A x \in Side : d.fd[x] => Given(c.sock[x], d.sock[x], <<>>)
  <2> DEFINE rx == c.sock[Cli].rx
             n == Caches(c)
             rest == SubSeq(rx, n + 1, Len(rx))
  <2>1. SlotOK(d) /\ d.fd = c.fd /\ d.req = c.req
    BY <1>1, <1>4, CachedOK
  <2>2. /\ rx \in Seq(Byte) /\ Len(rx) \in Nat /\ c.taken[Cli] \in Nat
        /\ c.taken[Svr] \in Nat /\ c.head \in Seq(Byte) /\ Len(c.head) \in Nat
        /\ HeadMax \in Nat
    BY <1>1, ThroughType, LenProperties, HeadAssumption DEF HeadOK, SlotType
  <2>3. n \in Nat /\ n <= Len(rx)
    <3>1. n = IF Len(rx) <= HeadMax - Len(c.head) THEN Len(rx)
              ELSE HeadMax - Len(c.head)
      BY DEF Caches
    <3> HIDE DEF rx, n
    <3> QED
      BY <1>1, <2>2, <3>1
  <2>4. Len(rest) = Len(rx) - n
    <3> HIDE DEF rx, n
    <3> QED
      BY <2>2, <2>3, Pieces
  <2>5. /\ d.taken[Cli] = c.taken[Cli] + n /\ d.taken[Svr] = c.taken[Svr]
        /\ d.sock[Cli] = [c.sock[Cli] EXCEPT !.rx = rest]
    BY <1>1 DEF Cached, SlotType
  <2>6. d.sock[Cli].rx = rest /\ c.sock[Cli] \in SocketType
    <3>1. c.sock[Cli] \in SocketType
      BY <1>1 DEF SlotType
    <3> HIDE DEF d, rest
    <3> QED
      BY <2>5, <3>1 DEF SocketType
  <2>7. Given(c.sock[Cli], d.sock[Cli], <<>>)
    <3>1. Given(c.sock[Cli], c.sock[Cli], <<>>)
      BY <2>6, SameGiven
    <3>2. /\ d.sock[Cli].st = c.sock[Cli].st /\ d.sock[Cli].fin = c.sock[Cli].fin
          /\ d.sock[Cli].rst = c.sock[Cli].rst
          /\ d.sock[Cli].sent = c.sock[Cli].sent
          /\ d.sock[Cli].out = c.sock[Cli].out
          /\ d.sock[Cli].room = c.sock[Cli].room
      BY <2>5, <2>6 DEF SocketType
    <3> QED
      BY <3>1, <3>2 DEF Given
  <2> HIDE DEF d, rest, n, rx
  <2>8. Pending(d, Cli) = Pending(c, Cli)
    <3>1. c.sock[Cli].rx = rx
      BY DEF rx
    <3>2. d.fd[Cli] /\ d.taken[Cli] = c.taken[Cli] + n /\ Len(d.sock[Cli].rx) = Len(rx) - n
      BY <1>1, <2>1, <2>4, <2>5, <2>6
    <3> QED
      BY <1>1, <2>2, <2>3, <3>1, <3>2 DEF Pending
  <2>9. Pending(d, Svr) = Pending(c, Svr)
    BY <1>1, <2>1, <2>5 DEF Pending
  <2> QED
    BY <1>1, <2>1, <2>7, <2>8, <2>9
<1>5. ASSUME Caches(c) > 0, p = Return(0, d)
      PROVE  r.ret = 0 => ~r.slot.fd[Svr] /\ Gives(c, r.slot, GivesNothing)
  <2>1. /\ next.fd = d.fd /\ next.req = d.req /\ next.taken = d.taken
        /\ next.sock = d.sock
    OBVIOUS
  <2>2. r.slot = next
    BY <1>3, <1>5 DEF Return
  <2> HIDE DEF next, d
  <2>3. \A x \in Side : Pending(next, x) = Pending(d, x)
    BY <2>1 DEF Pending
  <2>4. \A x \in Side : Pending(c, x) \in Nat
    BY <1>1, PendingNat
  <2>5. Gives(c, next, GivesNothing)
    BY <1>4, <1>5, <2>1, <2>3, <2>4 DEF Gives, GivesNothing, d
  <2> QED
    BY <1>1, <1>4, <1>5, <2>1, <2>2, <2>5 DEF d
<1>6. ASSUME Caches(c) > 0, p = Return(-2, d)
      PROVE  r.ret = 0 => ~r.slot.fd[Svr] /\ Gives(c, r.slot, GivesNothing)
  <2>1. r.slot = d
    BY <1>3, <1>6 DEF Return
  <2> HIDE DEF d
  <2>2. \A x \in Side : Pending(c, x) \in Nat
    BY <1>1, PendingNat
  <2>3. Gives(c, d, GivesNothing)
    BY <1>4, <1>6, <2>2 DEF Gives, GivesNothing, d
  <2> QED
    BY <1>1, <1>4, <1>6, <2>1, <2>3 DEF d
<1>7. ASSUME p = Return(-2, ended)
      PROVE  r.ret = 0 => ~r.slot.fd[Svr] /\ Gives(c, r.slot, GivesNothing)
  <2>1. r.slot = ended
    BY <1>3, <1>7 DEF Return
  <2>2. SlotOK(ended) /\ ended.fd = c.fd /\ ended.req = c.req
        /\ ended.taken = c.taken /\ ended.sock = c.sock
    BY <1>1 DEF Ended, SlotOK, SlotType, Status, SlotHoldsWhatItOwns
  <2> HIDE DEF ended
  <2>3. Gives(c, ended, GivesNothing)
    BY <1>1, <2>2, SameGives DEF SlotOK
  <2> QED
    BY <1>1, <2>1, <2>2, <2>3
<1>8. ASSUME p = Return(-2, c)
      PROVE  r.ret = 0 => ~r.slot.fd[Svr] /\ Gives(c, r.slot, GivesNothing)
  <2>1. r.slot = c
    BY <1>3, <1>8 DEF Return
  <2> QED
    BY <1>1, <2>1, SameGives
<1>9. p.ret = -1 => r.ret # 0
  BY <1>3
<1> QED
  BY <1>2, <1>5, <1>6, <1>7, <1>8, <1>9 DEF Return, r

\* nor does processing the header.
LEMMA ProcessHeadGives ==
    ASSUME NEW c, SlotOK(c), c.flag, ~c.fd[Svr], NEW mem \in BOOLEAN
    PROVE  LET r == ProcessHead(c, mem) IN
           r.ret = 0 => ~r.slot.fd[Svr] /\ Gives(c, r.slot, GivesNothing)
<1> SUFFICES ASSUME ProcessHead(c, mem).ret = 0
             PROVE  LET d == ProcessHead(c, mem).slot IN
                    ~d.fd[Svr] /\ Gives(c, d, GivesNothing)
  OBVIOUS
<1> DEFINE p == OnProcessHeader(c, mem)
           next == [p.slot EXCEPT !.status[Cli] = "BUILD_SVR"]
           r == ProcessHead(c, mem)
<1>1. p.ret = 0 /\ r = Return(0, next)
  BY DEF ProcessHead, Return
<1>2. \E data : p.slot = [c EXCEPT !.data = data]
  <2>1. c \in SlotType
    BY DEF SlotOK
  <2>2. CASE mem /\ c.req.connect
    BY <2>1, <2>2 DEF OnProcessHeader, Return, SlotType
  <2>3. CASE mem /\ ~c.req.connect
    BY <2>1, <2>3 DEF OnProcessHeader, Return, SlotType
  <2>4. mem
    BY <1>1 DEF OnProcessHeader, Return
  <2> QED
    BY <2>2, <2>3, <2>4
<1>3. c \in SlotType /\ SlotOK(r.slot)
  BY ProcessHeadOK DEF SlotOK, StageOK
<1> HIDE DEF p
<1>4. /\ next.fd = c.fd /\ next.sock = c.sock /\ next.req = c.req
      /\ next.taken = c.taken
  BY <1>2, <1>3 DEF SlotType
<1> HIDE DEF next, r
<1>5. r.slot = next /\ next \in SlotType
  BY <1>1, <1>3 DEF Return, SlotOK
<1>6. Gives(c, next, GivesNothing)
  BY <1>3, <1>4, <1>5, SameGives
<1> QED
  BY <1>4, <1>5, <1>6 DEF r

\* The session is still as it was for its peers.
Untold(c, d) ==
    SlotOK(d) /\ d.flag /\ ~d.fd[Svr] /\ Gives(c, d, GivesNothing)

\* While the header is collected the stages give nobody anything; the last of
\* them may open the socket to the host.
LEMMA StagesGive ==
    ASSUME NEW c, SlotOK(c), c.flag, Settled(c), Streams(c), c.fd[Cli],
           ~HeaderDone(c), NEW events, NEW outcome, NEW headmem \in BOOLEAN
    PROVE  LET b == Built(c, events, outcome, headmem) IN
           b.ret = 0 => \/ Untold(c, b.slot)
                        \/ \E q, o : Untold(c, q) /\ b.slot = Connected(q, o)
<1> DEFINE a == Entered(c)
           parse(s) == ParseHead(s, Effective(events))
           process(s) == ProcessHead(s, headmem)
           build(s) == BuildHost(s, outcome)
           parsed == Stage(Return(0, a), "PARSE_HEAD", parse)
           processed == Stage(parsed, "PROCESS_HEAD", process)
           built == Stage(processed, "BUILD_SVR", build)
<1>1. built = Built(c, events, outcome, headmem)
  BY DEF Built
<1>2. /\ SlotOK(a) /\ a.flag /\ a.fd = c.fd /\ a.sock = c.sock
      /\ a.req = c.req /\ a.taken = c.taken /\ Midway(a, Cli) /\ Progress(a)
      /\ a.status[Cli] = IF c.status[Cli] = "INIT" THEN "PARSE_HEAD"
                         ELSE c.status[Cli]
  BY EnteredPasses
<1>3. c.status[Cli] \in {"INIT", "PARSE_HEAD"} /\ ~c.fd[Svr]
  BY DEF HeaderDone, Streams, Collecting
<1> HIDE DEF a
<1>4. a.status[Cli] = "PARSE_HEAD" /\ Untold(c, a)
  <2>1. Gives(c, a, GivesNothing)
    BY <1>2, SameGives DEF SlotOK
  <2> QED
    BY <1>2, <1>3, <2>1 DEF Untold
<1>5. ASSUME NEW q, Untold(c, q), NEW d, SlotOK(d), d.flag, ~d.fd[Svr],
             Gives(q, d, GivesNothing)
      PROVE  Untold(c, d)
  <2>1. Gives(c, d, GivesNothing)
    BY <1>5, GivesTypes, GivesTwice DEF Untold, SlotOK
  <2> QED
    BY <1>5, <2>1 DEF Untold
<1>6. /\ Passes(parsed)
      /\ parsed.ret = 0 => Untold(c, parsed.slot)
  <2>1. parsed = ParseHead(a, Effective(events))
    BY <1>4 DEF Stage, Return
  <2>2. Passes(parsed)
    BY <1>2, <1>4, <2>1, ParseHeadPasses
  <2>3. parsed.ret = 0 => ~parsed.slot.fd[Svr] /\ Gives(a, parsed.slot, GivesNothing)
    BY <1>2, <1>4, <2>1, ParseHeadGives
  <2> HIDE DEF parsed
  <2> QED
    BY <1>4, <1>5, <2>2, <2>3 DEF Passes
<1> HIDE DEF parsed
<1>7. /\ Passes(processed)
      /\ processed.ret = 0 => Untold(c, processed.slot)
  <2>1. CASE parsed.ret = 0 /\ parsed.slot.status[Cli] = "PROCESS_HEAD"
    <3>1. processed = ProcessHead(parsed.slot, headmem)
      BY <2>1 DEF Stage
    <3>2. Passes(processed)
      BY <1>6, <2>1, <3>1, ProcessHeadPasses DEF Passes
    <3>3. processed.ret = 0 => /\ ~processed.slot.fd[Svr]
                               /\ Gives(parsed.slot, processed.slot, GivesNothing)
      BY <1>6, <2>1, <3>1, ProcessHeadGives DEF Untold
    <3> HIDE DEF processed
    <3> QED
      BY <1>5, <1>6, <2>1, <3>2, <3>3 DEF Passes
  <2>2. CASE ~(parsed.ret = 0 /\ parsed.slot.status[Cli] = "PROCESS_HEAD")
    BY <1>6, <2>2 DEF Stage
  <2> QED
    BY <2>1, <2>2
<1> HIDE DEF processed
<1>8. built.ret = 0 => \/ Untold(c, built.slot)
                       \/ \E q, o : Untold(c, q) /\ built.slot = Connected(q, o)
  <2>1. CASE processed.ret = 0 /\ processed.slot.status[Cli] = "BUILD_SVR"
    <3> DEFINE p == processed.slot
    <3>1. PICK k \in SUBSET HostString, o \in BuildEnds :
            BuildHost(p, outcome) = BuildSvr(Holding(p, k), o)
      BY BuildHostBuilds
    <3>2. built = BuildHost(p, outcome) /\ Untold(c, p)
      BY <1>7, <2>1 DEF Stage
    <3> DEFINE q == Holding(p, k)
    <3> HIDE DEF p
    <3>3. /\ SlotOK(q) /\ q.flag /\ q.fd = p.fd /\ q.req = p.req
          /\ q.taken = p.taken /\ q.sock = p.sock
      BY <3>2, HoldingSame DEF Untold
    <3>4. Untold(c, q)
      <4>1. Gives(p, q, GivesNothing)
        BY <3>2, <3>3, SameGives DEF SlotOK, Untold
      <4> QED
        BY <1>5, <3>2, <3>3, <4>1 DEF Untold
    <3>5. built = BuildSvr(q, o)
      BY <3>1, <3>2
    <3> HIDE DEF q
    <3>6. \/ built.ret = -1
          \/ built = Return(0, Connected(q, o))
      BY <3>4, <3>5, BuildSvrOK DEF Untold
    <3> HIDE DEF built
    <3>7. built.ret = 0 => built.slot = Connected(q, o)
      BY <3>6 DEF Return
    <3> QED
      BY <3>4, <3>7
  <2>2. CASE ~(processed.ret = 0 /\ processed.slot.status[Cli] = "BUILD_SVR")
    BY <1>7, <2>2 DEF Stage
  <2> QED
    BY <2>1, <2>2
<1> QED
  BY <1>1, <1>8

\* An event of the client gives the client what WrittenBy says, provided that
\* epoll does not report room to write while the header is collected.
LEMMA CliEventHandled ==
    ASSUME NEW c, SlotOK(c), c.flag, Settled(c), Streams(c), c.fd[Cli],
           NEW e, e.tag = Cli,
           ~HeaderDone(c) => EPOLLOUT \notin Effective(e.events),
           NEW outcome, NEW headmem \in BOOLEAN, NEW mem \in BOOLEAN
    PROVE  Handled(c, CliEvent(c, e.events, outcome, headmem, mem),
                   GivesOnly(Cli, WrittenBy(c, e)))
<1> DEFINE events == Effective(e.events)
           built == Built(c, e.events, outcome, headmem)
           m == built.slot
           relay(s) == OnDataRelay(s, Cli, events, mem)
           relayed == Stage(built, "DATA_RELAY", relay)
           d == Finish(relayed, Cli)
           w == WrittenBy(c, e)
           given == GivesOnly(Cli, w)
<1>1. /\ Cli \in Side /\ Svr \in Side /\ Cli # Svr
      /\ Other(Svr) = Cli /\ Other(Cli) = Svr /\ c \in SlotType
  BY DEF Side, Cli, Svr, Other, SlotOK
<1>2. CliEvent(c, e.events, outcome, headmem, mem) = d
  BY DEF CliEvent, Built, Entered, ServerFinish, ServerDataRelay
<1>3. /\ Passes(built)
      /\ c.status[Cli] = "DATA_RELAY" => built = Return(0, Entered(c))
      /\ built.ret = 0 => m.status[Cli] \in {"PARSE_HEAD", "DATA_RELAY", "CLOSE"}
  BY StagesPass
<1>4. c.status[Cli] # "CLOSE"
  BY <1>1 DEF Settled, Flushes
<1>5. HeaderDone(c) => c.status[Cli] = "DATA_RELAY"
  BY <1>4 DEF Streams, HeaderDone
<1>6. /\ w \in Seq(Byte)
      /\ w = IF c.status[Cli] = "DATA_RELAY" THEN RelayWrites(c, Cli, events)
             ELSE <<>>
  BY <1>1, WrittenByRelay
<1>7. /\ \A y \in Side : given[y] \in Seq(Byte)
      /\ given[Svr] = <<>>
      /\ w = <<>> => given = GivesNothing
  BY <1>1, <1>6, GivesTypes DEF GivesOnly
<1>8. ~HeaderDone(c) /\ built.ret = 0 =>
        \/ Untold(c, m)
        \/ \E q, o : Untold(c, q) /\ m = Connected(q, o)
  BY StagesGive
<1> HIDE DEF built, w, given, events
<1>9. built.ret # 0 => ~d.flag
  BY <1>3 DEF Passes, Stage, Finish, OnSessionClose, EpollSessionMod
<1>10. ASSUME built.ret = 0
       PROVE  /\ SlotOK(m) /\ m.flag /\ SlotOK(d)
              /\ Gives(m, d, GivesOnly(Cli,
                   IF m.status[Cli] = "DATA_RELAY" THEN RelayWrites(m, Cli, events)
                   ELSE <<>>))
  <2>1. SlotOK(m) /\ m.flag /\ m.fd[Cli]
    BY <1>3, <1>10 DEF Passes, Midway
  <2>2. CASE m.status[Cli] = "DATA_RELAY"
    <3>1. d = Finish(OnDataRelay(m, Cli, events, mem), Cli)
      BY <1>10, <2>2 DEF Stage
    <3>2. Gives(m, d, GivesOnly(Cli, RelayWrites(m, Cli, events)))
      BY <1>1, <2>1, <3>1, RelayGives
    <3>3. SlotOK(d)
      BY <1>1, <2>1, <3>1, OnDataRelayOK, FinishOK
    <3> QED
      BY <2>1, <2>2, <3>2, <3>3
  <2>3. CASE m.status[Cli] # "DATA_RELAY"
    <3>1. d = Finish(built, Cli)
      BY <2>3 DEF Stage
    <3>2. SlotOK(d) /\ Gives(m, d, GivesNothing)
      BY <1>1, <2>1, <3>1, FinishOK, FinishGives
    <3> HIDE DEF d, m
    <3> QED
      BY <1>1, <2>1, <2>3, <3>2, GivesTypes
  <2> QED
    BY <2>2, <2>3
<1> HIDE DEF d
<1>11. CASE built.ret = 0 /\ HeaderDone(c)
  <2>1. c.status[Cli] = "DATA_RELAY" /\ m = Entered(c)
    BY <1>3, <1>5, <1>11 DEF Return
  <2>2. /\ SlotOK(m) /\ m.flag /\ m.fd = c.fd /\ m.sock = c.sock
        /\ m.data = c.data /\ m.req = c.req /\ m.taken = c.taken
        /\ m.status[Cli] = "DATA_RELAY"
    BY <2>1, EnteredPasses
  <2>3. RelayWrites(m, Cli, events) = w
    BY <1>6, <2>1, <2>2 DEF RelayWrites, Handed, Writes
  <2>4. SlotOK(d) /\ Gives(m, d, given)
    BY <1>10, <1>11, <2>2, <2>3 DEF given
  <2> HIDE DEF m
  <2>5. Gives(c, m, GivesNothing)
    BY <1>1, <2>2, SameGives DEF SlotOK
  <2>6. Gives(c, d, given)
    BY <1>1, <1>7, <2>2, <2>4, <2>5, GivesTwice DEF SlotOK
  <2>7. Handled(c, d, given)
    BY <2>6, GivesHandled
  <2> QED
    BY <1>2, <2>7 DEF given, w
<1>12. CASE built.ret = 0 /\ ~HeaderDone(c)
  <2>1. c.status[Cli] # "DATA_RELAY" /\ EPOLLOUT \notin events
    BY <1>12 DEF HeaderDone, events
  <2>2. given = GivesNothing
    BY <1>6, <1>7, <2>1
  <2>3. RelayWrites(m, Cli, events) = <<>>
    BY <2>1 DEF RelayWrites
  <2>4. SlotOK(m) /\ m.flag /\ SlotOK(d) /\ Gives(m, d, given)
    BY <1>1, <1>10, <1>12, <2>2, <2>3, GivesTypes
  <2>5. ~c.fd[Svr]
    BY <1>12 DEF HeaderDone, Streams, Collecting
  <2> HIDE DEF m
  <2>6. ASSUME Untold(c, m)
        PROVE  Handled(c, d, given)
    <3>1. Gives(c, d, given)
      BY <1>1, <1>7, <2>4, <2>6, GivesTwice DEF SlotOK, Untold
    <3> QED
      BY <3>1, GivesHandled
  <2>7. ASSUME NEW q, NEW o, Untold(c, q), m = Connected(q, o)
        PROVE  Handled(c, d, given)
    BY <1>7, <2>4, <2>5, <2>7, ConnectedHandled DEF Untold
  <2>8. Handled(c, d, given)
    BY <1>8, <1>12, <2>6, <2>7 DEF m
  <2> QED
    BY <1>2, <2>8 DEF given, w
<1> QED
  BY <1>2, <1>9, <1>11, <1>12 DEF Handled

\* Once the header is processed it stays so, and only the event that processes
\* it opens the socket to the host; the host has no events before.
LEMMA HeaderStaysDone ==
    ASSUME Inv, Order, NEW e \in batch, HandleSvrEvent(e) \/ HandleCliEvent(e)
    PROVE  LET c == conn[e.slot]
               d == conn'[e.slot]
           IN  /\ e.tag = Svr => HeaderDone(c)
               /\ d.flag /\ HeaderDone(c) => HeaderDone(d) /\ d.head = c.head
               /\ d.flag /\ d.fd[Svr] /\ ~c.fd[Svr] => ~HeaderDone(c)
<1> DEFINE c == conn[e.slot]
<1>1. c.flag /\ Cli \in Side /\ Svr \in Side /\ Cli # Svr
  BY DEF HandleSvrEvent, HandleCliEvent, Side, Cli, Svr
<1>2. /\ e.slot \in Slot /\ SlotOK(c) /\ Settled(c) /\ Streams(c)
      /\ c.fd[e.tag] \/ (e.tag = Svr /\ c.status[Svr] = "CLOSE")
  BY <1>1, EventSide DEF Order
<1>3. conn \in [Slot -> SlotType]
  BY DEF Inv, TypeOK
<1>4. HeaderDone(c) => c.status[Cli] \in {"DATA_RELAY", "CLOSE"}
  BY <1>1, <1>2 DEF HeaderDone, Streams
<1>5. ASSUME NEW d, HandleEvent(e, d), e.tag = Svr => HeaderDone(c),
             HeaderDone(c) => Flows(c, d)
      PROVE  /\ e.tag = Svr => HeaderDone(c)
             /\ conn'[e.slot].flag /\ HeaderDone(c)
                  => HeaderDone(conn'[e.slot]) /\ conn'[e.slot].head = c.head
             /\ conn'[e.slot].flag /\ conn'[e.slot].fd[Svr] /\ ~c.fd[Svr]
                  => ~HeaderDone(c)
  <2>1. conn'[e.slot] = d
    BY <1>2, <1>3, <1>5 DEF HandleEvent
  <2> HIDE DEF c
  <2>2. d.flag /\ HeaderDone(c) => HeaderDone(d) /\ d.head = c.head
    BY <1>4, <1>5 DEF Flows, HeaderDone
  <2>3. d.flag /\ d.fd[Svr] /\ ~c.fd[Svr] => ~HeaderDone(c)
    BY <1>1, <1>5 DEF Flows, FlowsSide
  <2> QED
    BY <1>5, <2>1, <2>2, <2>3
<1>6. CASE HandleSvrEvent(e)
  <2>1. PICK mem \in MallocOutcomes : HandleEvent(e, SvrEvent(c, e.events, mem))
    BY <1>6 DEF HandleSvrEvent
  <2>2. mem \in BOOLEAN /\ e.tag = Svr
    BY <1>6 DEF MallocOutcomes, HandleSvrEvent
  <2> HIDE DEF c
  <2>3. c.fd[Svr] \/ c.status[Svr] = "CLOSE"
    BY <1>2, <2>2
  <2>4. c.status[Cli] \in {"DATA_RELAY", "CLOSE"}
    BY <1>1, <1>2, <2>3 DEF Settled, Begun
  <2>5. HeaderDone(c) /\ \A x \in Side : Counted(c, x)
    BY <1>1, <1>2, <2>4 DEF Streams, HeaderDone
  <2>6. Flows(c, SvrEvent(c, e.events, mem))
    BY <1>1, <1>2, <2>2, <2>3, <2>5, SvrEventFlows
  <2> QED
    BY <1>5, <2>1, <2>5, <2>6 DEF c
<1>7. CASE HandleCliEvent(e)
  <2>1. PICK headmem \in MallocOutcomes, mem \in MallocOutcomes,
             outcome \in HostOutcomes :
          HandleEvent(e, CliEvent(c, e.events, outcome, headmem, mem))
    BY <1>7 DEF HandleCliEvent
  <2>2. mem \in BOOLEAN /\ headmem \in BOOLEAN /\ e.tag = Cli
    BY <1>7 DEF MallocOutcomes, HandleCliEvent
  <2> HIDE DEF c
  <2>3. c.fd[Cli]
    BY <1>1, <1>2, <2>2
  <2>4. HeaderDone(c) => c.status[Cli] = "DATA_RELAY"
    BY <1>1, <1>2, <1>4, <2>3 DEF Settled, Flushes
  <2>5. HeaderDone(c) => Flows(c, CliEvent(c, e.events, outcome, headmem, mem))
    BY <1>1, <1>2, <2>2, <2>3, <2>4, CliEventKeeps
  <2> QED
    BY <1>1, <1>5, <2>1, <2>2, <2>5 DEF c
<1> QED
  BY <1>6, <1>7

\* No room to write is reported while the header is collected, for nothing is
\* queued then.
Quiet ==
    \A e \in batch : conn[e.slot].flag /\ ~HeaderDone(conn[e.slot])
                       => EPOLLOUT \notin Effective(e.events)

LEMMA QuietStep ==
    ASSUME Inv, Order, Quiet, [Next]_vars
    PROVE  Quiet'
<1>1. Cli \in Side /\ Svr \in Side /\ Cli # Svr
      /\ Other(Cli) = Svr /\ Other(Svr) = Cli
  BY DEF Side, Cli, Svr, Other
<1>2. Discipline /\ Order' /\ Discipline'
  BY OrderStep DEF Order
<1>3. batch' = {} => Quiet'
  BY DEF Quiet
<1>4. UNCHANGED <<conn, batch>> => Quiet'
  BY DEF Quiet
<1>5. CASE AgentStep \/ WaitInterrupted \/ UNCHANGED vars
  BY <1>4, <1>5 DEF AgentStep, AgentInterrupted, AgentNoSession, AgentRefuses,
                    WaitInterrupted, vars
<1>6. CASE Accept \/ TimeoutStep
  <2>1. batch = {}
    BY <1>2, <1>6 DEF Discipline, Accept, AgentAccepts, TimeoutStep,
                      TimeoutNotDue, TimeoutWalk, TimeoutSweep
  <2>2. batch' = batch
    BY <1>6 DEF Accept, AgentAccepts, TimeoutStep, TimeoutNotDue, TimeoutWalk,
                TimeoutSweep, Walk
  <2> QED
    BY <1>3, <2>1, <2>2
<1>7. CASE EpollWait
  <2>1. conn' = conn
    BY <1>7 DEF EpollWait
  <2>2. ASSUME NEW e \in batch', conn[e.slot].flag, ~HeaderDone(conn[e.slot])
        PROVE  EPOLLOUT \notin Effective(e.events)
    <3> DEFINE c == conn[e.slot]
               k == c.reg[Cli]
    <3>1. PICK s \in Slot, x \in Side :
            /\ e = [slot |-> s, tag |-> conn[s].reg[x].tag,
                    events |-> Reported(conn[s], x), fd |-> x]
            /\ e.events # {}
      BY <1>7 DEF EpollWait, Ready
    <3>2. e.slot = s /\ e.events = Reported(c, x) /\ Reported(c, x) # {}
      BY <3>1
    <3>3. SlotOK(c) /\ Settled(c) /\ Streams(c)
      BY <3>2, InvSlots DEF Order, Discipline
    <3> HIDE DEF c
    <3>4. c.flag /\ ~HeaderDone(c)
      BY <2>2 DEF c
    <3>5. Collecting(c)
      BY <3>3, <3>4 DEF Streams, HeaderDone
    <3>6. c.reg[x].on
      BY <3>2 DEF Reported
    <3>7. x = Cli /\ c.fd[Cli]
      BY <1>1, <3>3, <3>5, <3>6 DEF SlotOK, SlotHoldsWhatItOwns, Collecting, Side
    <3>8. c.data[Svr] = <<>>
      <4>1. c.sock[Cli].out \in Seq(Byte) /\ c.data[Svr] \in Seq(Byte)
        BY <1>1, <3>3, ThroughType DEF SlotOK
      <4>2. c.sock[Cli].out \o c.data[Svr] = <<>>
        BY <1>1, <3>5 DEF Collecting, Through
      <4> QED
        BY <4>1, <4>2, ConcatProperties, EmptySeq
    <3>9. EPOLLOUT \notin k.events /\ EPOLLIN \in k.events
      BY <1>1, <3>3, <3>4, <3>5, <3>7, <3>8 DEF Settled, Armed, Collecting
    <3>10. EPOLLOUT # EPOLLIN /\ EPOLLOUT # EPOLLHUP /\ EPOLLIN # EPOLLHUP
      BY DEF EPOLLOUT, EPOLLIN, EPOLLHUP
    <3>11. EPOLLOUT \notin e.events /\ EPOLLIN \in e.events
      BY <3>2, <3>7, <3>9, <3>10 DEF Reported
    <3> QED
      BY <3>10, <3>11 DEF Effective
  <2> QED
    BY <2>1, <2>2 DEF Quiet
<1>8. ASSUME NEW e \in batch, SkipEvent(e)
      PROVE  Quiet'
  BY <1>8 DEF SkipEvent, EventDone, Quiet
<1>9. ASSUME NEW e \in batch, HandleSvrEvent(e) \/ HandleCliEvent(e)
      PROVE  Quiet'
  <2>1. /\ e.tag = Svr => HeaderDone(conn[e.slot])
        /\ conn'[e.slot].flag /\ HeaderDone(conn[e.slot]) => HeaderDone(conn'[e.slot])
    BY <1>9, HeaderStaysDone
  <2>2. /\ conn[e.slot].flag /\ e.slot \in Slot /\ e.tag \in Side
        /\ batch' = batch \ {e} /\ conn \in [Slot -> SlotType]
        /\ \E d : conn' = [conn EXCEPT ![e.slot] = d]
    <3>1. e.slot \in Slot /\ e.tag \in Side /\ conn \in [Slot -> SlotType]
      BY DEF Inv, TypeOK, EventType
    <3> QED
      BY <1>9, <3>1 DEF HandleSvrEvent, HandleCliEvent, HandleEvent, EventDone
  <2>3. ASSUME NEW f \in batch', conn'[f.slot].flag, ~HeaderDone(conn'[f.slot])
        PROVE  EPOLLOUT \notin Effective(f.events)
    <3>1. f \in batch /\ f # e /\ f.slot \in Slot /\ f.fd \in Side
      BY <2>2 DEF Inv, TypeOK, EventType
    <3>2. CASE f.slot # e.slot
      BY <2>2, <2>3, <3>1, <3>2 DEF Quiet
    <3>3. CASE f.slot = e.slot
      <4> DEFINE d == conn'[f.slot]
      <4>1. e.tag = Cli
        BY <2>1, <2>2, <2>3, <3>3 DEF Side
      <4>2. e.fd = Cli
        BY <1>1, <1>2, <2>2, <4>1 DEF Discipline, Fits
      <4>3. Fits(d, f) /\ Streams(d)
        BY <1>2, <2>2, <3>1 DEF Discipline, Order
      <4>4. d.flag /\ ~HeaderDone(d)
        BY <2>3
      <4> HIDE DEF d
      <4>5. ~d.fd[Svr]
        BY <4>3, <4>4 DEF Streams, HeaderDone, Collecting
      <4>6. f.fd = Cli
        BY <3>1, <4>3, <4>4, <4>5 DEF Fits, Side
      <4> QED
        BY <1>2, <3>1, <3>3, <4>2, <4>6 DEF Discipline
    <3> QED
      BY <3>2, <3>3
  <2> QED
    BY <2>3 DEF Quiet
<1>10. CASE PeerStep
  <2>1. /\ batch' = batch
        /\ \A s \in Slot : /\ conn'[s].flag = conn[s].flag
                           /\ conn'[s].status = conn[s].status
    BY <1>10, PeerKeeps
  <2>2. \A e \in batch : e.slot \in Slot
    BY DEF Inv, TypeOK, EventType
  <2> QED
    BY <2>1, <2>2 DEF Quiet, HeaderDone
<1> QED
  BY <1>5, <1>6, <1>7, <1>8, <1>9, <1>10
     DEF Next, HandleAgentEvent, HandleConnectionsEvent, HandleSessionTimeout,
         Dispatch

\* The loop starts quiet.
LEMMA QuietInit == Init => Quiet
BY DEF Init, Quiet

\* An event of the server is seen from outside as Handled says.
LEMMA EventHandled ==
    ASSUME Inv, Order, Quiet, NEW e \in batch,
           HandleSvrEvent(e) \/ HandleCliEvent(e)
    PROVE  EventSeen(e)
<1> DEFINE c == conn[e.slot]
           w == WrittenBy(c, e)
<1>1. c.flag /\ Cli \in Side /\ Svr \in Side /\ Discipline
  BY DEF HandleSvrEvent, HandleCliEvent, Side, Order
<1>2. /\ e.slot \in Slot /\ SlotOK(c) /\ Settled(c) /\ Streams(c)
      /\ c.fd[e.tag] \/ (e.tag = Svr /\ c.status[Svr] = "CLOSE")
  BY <1>1, EventSide DEF Order
<1>3. ~HeaderDone(c) => EPOLLOUT \notin Effective(e.events)
  BY <1>1 DEF Quiet
<1>4. CASE HandleSvrEvent(e)
  <2>1. PICK mem \in MallocOutcomes : HandleEvent(e, SvrEvent(c, e.events, mem))
    BY <1>4 DEF HandleSvrEvent
  <2>2. mem \in BOOLEAN /\ e.tag = Svr
    BY <1>4 DEF MallocOutcomes, HandleSvrEvent
  <2>3. HeaderDone(c)
    BY <1>4, <2>2, HeaderStaysDone
  <2> HIDE DEF c
  <2>4. c.fd[Svr] \/ c.status[Svr] = "CLOSE"
    BY <1>2, <2>2
  <2> DEFINE d == SvrEvent(c, e.events, mem)
  <2>5. Gives(c, d, GivesOnly(Svr, w))
    BY <1>1, <1>2, <2>2, <2>4, SvrEventGives
  <2> HIDE DEF d, w
  <2>6. Handled(c, d, GivesOnly(Svr, w))
    BY <2>5, GivesHandled
  <2> QED
    BY <1>1, <2>1, <2>2, <2>6, HandlerSeen DEF c, d, w
<1>5. CASE HandleCliEvent(e)
  <2>1. PICK headmem \in MallocOutcomes, mem \in MallocOutcomes,
             outcome \in HostOutcomes :
          HandleEvent(e, CliEvent(c, e.events, outcome, headmem, mem))
    BY <1>5 DEF HandleCliEvent
  <2>2. mem \in BOOLEAN /\ headmem \in BOOLEAN /\ e.tag = Cli /\ Cli # Svr
    BY <1>5 DEF MallocOutcomes, HandleCliEvent, Cli, Svr
  <2> HIDE DEF c
  <2>3. c.fd[Cli]
    BY <1>2, <2>2
  <2> DEFINE d == CliEvent(c, e.events, outcome, headmem, mem)
  <2>4. Handled(c, d, GivesOnly(Cli, w))
    BY <1>1, <1>2, <1>3, <2>2, <2>3, CliEventHandled
  <2> HIDE DEF d, w
  <2> QED
    BY <1>1, <2>1, <2>2, <2>4, HandlerSeen DEF c, d, w
<1> QED
  BY <1>4, <1>5

\* What a side of the server has, with the first bytes of what waits for it,
\* is the beginning of what is due to it,
LEMMA ServerPromised ==
    ASSUME NEW c, SlotOK(c), c.flag, Streams(c), HeaderDone(c),
           NEW x \in Side, c.fd[Other(x)],
           NEW n \in Nat, n <= Len(c.data[x])
    PROVE  Promised(c, Other(x), SubSeq(c.data[x], 1, n),
                    Due(c, x, Preface(c, x), Skipped(c, x)),
                    Len(Preface(c, x)) + (c.taken[x] - Skipped(c, x)))
<1>1. c \in SlotType /\ Counted(c, x)
  BY DEF SlotOK, Streams
<1>2. /\ Relays(c) /\ Preface(c, x) \in Seq(Byte)
      /\ Skipped(c, x) \in Nat /\ Skipped(c, x) <= c.taken[x]
  BY <1>1, RelaysMeans
<1>3. Carried(c, x, Preface(c, x), Skipped(c, x))
  BY <1>2 DEF Relays
<1> QED
  BY <1>1, <1>2, <1>3, QueuePromised

\* and while the header is collected no side has anything, and nothing waits.
LEMMA ServerWithholds ==
    ASSUME NEW c, SlotOK(c), c.flag, Streams(c), ~HeaderDone(c)
    PROVE  /\ ~c.fd[Svr] /\ c.taken[Svr] = 0
           /\ c.sock[Cli].out = <<>>
           /\ \A x \in Side : c.data[x] = <<>>
<1>1. Collecting(c) /\ c \in SlotType
  BY DEF Streams, HeaderDone, SlotOK
<1>2. /\ Cli \in Side /\ Svr \in Side /\ Other(Svr) = Cli
      /\ \A x \in Side : x = Cli \/ x = Svr
  BY DEF Side, Cli, Svr, Other
<1>3. c.sock[Cli].out \in Seq(Byte) /\ c.data[Svr] \in Seq(Byte)
  BY <1>1, <1>2, ThroughType
<1>4. c.sock[Cli].out \o c.data[Svr] = <<>>
  BY <1>1, <1>2 DEF Collecting, Through
<1>5. c.sock[Cli].out = <<>> /\ c.data[Svr] = <<>>
  BY <1>3, <1>4, ConcatProperties, EmptySeq
<1> QED
  BY <1>1, <1>2, <1>5 DEF Collecting

\* The header that was processed ends where the client said: the cache holds
\* all of it, and nothing that was not read.
LEMMA HeadHoldsHeader ==
    ASSUME NEW c, SlotOK(c), c.flag, Streams(c), HeaderDone(c)
    PROVE  c.req.end # 0 /\ c.req.end <= Len(c.head)
           /\ Len(c.head) <= c.taken[Cli]
<1>1. c \in SlotType /\ Cli \in Side
  BY DEF SlotOK, Side
<1>2. Relays(c)
  BY <1>1, RelaysMeans
<1> QED
  BY <1>2 DEF Relays, Judged, HeaderComplete

\* What an event writes is written once the header is processed, and it is, on
\* top of what the side has, the beginning of what is due to it.
LEMMA EventPromised ==
    ASSUME Sound, Quiet, NEW e \in batch, HandleSvrEvent(e) \/ HandleCliEvent(e)
    PROVE  LET c == conn[e.slot]
               w == WrittenBy(c, e)
               x == Other(e.tag)
           IN  w # <<>> =>
                 /\ HeaderDone(c)
                 /\ Promised(c, e.tag, w, Due(c, x, Preface(c, x), Skipped(c, x)),
                             Len(Preface(c, x)) + (c.taken[x] - Skipped(c, x)))
<1> DEFINE c == conn[e.slot]
           w == WrittenBy(c, e)
           x == Other(e.tag)
<1>1. c.flag /\ Inv /\ Order /\ Discipline
  BY DEF HandleSvrEvent, HandleCliEvent, Sound, Order
<1>2. /\ SlotOK(c) /\ e.tag \in Side
      /\ c.fd[e.tag] \/ (e.tag = Svr /\ c.status[Svr] = "CLOSE")
      /\ e.slot \in Slot
  BY <1>1, EventSide
<1>3. Streams(c) /\ c \in SlotType
  BY <1>1, <1>2 DEF Order, SlotOK
<1> HIDE DEF c
<1>4. /\ \E n \in Nat : n <= Len(c.data[x]) /\ w = SubSeq(c.data[x], 1, n)
                         /\ Len(w) = n
      /\ w \in Seq(Byte)
      /\ w # <<>> => c.fd[e.tag]
  BY <1>1, <1>2, <1>3, WrittenByQueue DEF c
<1>5. x \in Side /\ Other(x) = e.tag
  BY <1>2 DEF Side, Other, Cli, Svr
<1> HIDE DEF w, x
<1>6. w # <<>> => HeaderDone(c)
  <2> SUFFICES ASSUME w # <<>>, ~HeaderDone(c)
               PROVE  FALSE
    OBVIOUS
  <2>1. c.data[x] = <<>>
    BY <1>1, <1>2, <1>3, <1>5, ServerWithholds DEF c
  <2>2. Len(w) = 0
    BY <1>4, <2>1, EmptySeq
  <2> QED
    BY <1>4, <2>2, EmptySeq
<1>7. w # <<>> => Promised(c, e.tag, w, Due(c, x, Preface(c, x), Skipped(c, x)),
                           Len(Preface(c, x)) + (c.taken[x] - Skipped(c, x)))
  BY <1>1, <1>2, <1>3, <1>4, <1>5, <1>6, ServerPromised DEF c
<1> QED
  BY <1>6, <1>7 DEF c, w, x

\* What is known of the slots is known from the start
LEMMA SoundInit == Init => Sound /\ Quiet
BY InitOK, OrderInit, KeptInit, QuietInit DEF Sound

\* and after each step.
LEMMA SoundStep ==
    ASSUME Sound, Quiet, [Next]_vars
    PROVE  Sound' /\ Quiet'
<1>1. Inv /\ Order /\ AllKept
  BY DEF Sound
<1>2. Inv'
  BY <1>1, StepOK
<1>3. Order'
  BY <1>1, OrderStep
<1>4. AllKept'
  BY <1>1, KeptStep
<1>5. Quiet'
  BY <1>1, QuietStep
<1> QED
  BY <1>2, <1>3, <1>4, <1>5 DEF Sound

=============================================================================
