-------------------------- MODULE ClientLoopProofs --------------------------
(***************************************************************************)
(* LDProxy_client, for every number of slots, every size of buffers, all   *)
(* traffic, with or without failing calls and resets: the types are right, *)
(* nothing leaks, no session is touched by what is not its own, epoll waits *)
(* for what there is to do, the bytes relayed are the right ones, and every *)
(* slot implements ProxySession.                                           *)
(***************************************************************************)
EXTENDS ClientLoop, EventLoopProofs

\* A whole event of the browser keeps its slot in order.
LEMMA CliEventOK ==
    ASSUME NEW c, SlotOK(c), c.flag, NEW events, NEW outcome,
           NEW mem \in BOOLEAN
    PROVE  SlotOK(CliEvent(c, events, outcome, mem))
<1> DEFINE a == [c EXCEPT !.event_fd = Cli]
           begun == [a EXCEPT !.status[Cli] = "BUILD_SVR"]
           b == IF a.status[Cli] = "INIT" THEN BuildSvr(begun, outcome)
                ELSE Return(0, a)
<1>1. Cli \in Side
  BY DEF Side
<1>2. SlotOK(a) /\ a.flag
  BY <1>1 DEF SlotOK, SlotType, SlotHoldsWhatItOwns
<1>3. SlotOK(begun) /\ begun.flag
  BY <1>1 DEF SlotOK, SlotType, Status, SlotHoldsWhatItOwns
<1> HIDE DEF a, begun
<1>4. SlotOK(b.slot) /\ (b.ret < 0 \/ b.slot.flag)
  <2>1. Connected(begun, outcome).flag
    BY <1>3, ConnectedOK
  <2>2. LET r == BuildSvr(begun, outcome) IN
        SlotOK(r.slot) /\ (r.ret < 0 \/ r.slot.flag)
    BY <1>3, <2>1, BuildSvrOK DEF Return
  <2> QED
    BY <1>2, <2>2 DEF Return
<1>5. \/ CliEvent(c, events, outcome, mem) = b.slot
      \/ CliEvent(c, events, outcome, mem) = Finish(b, Cli)
      \/ ~(b.ret < 0) /\ CliEvent(c, events, outcome, mem)
           = Finish(OnDataRelay(b.slot, Cli, Effective(events), mem), Cli)
  BY DEF CliEvent, a, begun
<1> HIDE DEF b
<1> QED
  BY <1>1, <1>4, <1>5, OnDataRelayOK, FinishOK

\* The browser's handler keeps the invariant,
LEMMA HandleCliEventOK ==
    ASSUME Inv, NEW e, HandleCliEvent(e)
    PROVE  Inv' /\ Untouched
<1>1. PICK mem \in MallocOutcomes, outcome \in BuildOutcomes :
        HandleEvent(e, CliEvent(conn[e.slot], e.events, outcome, mem))
  BY DEF HandleCliEvent
<1>2. mem \in BOOLEAN
  BY DEF MallocOutcomes
<1>3. e \in batch /\ e.slot \in Slot /\ conn[e.slot].flag
  BY DEF HandleCliEvent, Inv, TypeOK, EventType
<1>4. SlotOK(CliEvent(conn[e.slot], e.events, outcome, mem))
  BY <1>2, <1>3, InvSlots, CliEventOK
<1> QED
  BY <1>1, <1>3, <1>4, HandleEventOK, HandleEventUntouched

\* and so does every step.
LEMMA StepOK ==
    ASSUME Inv, [Next]_vars
    PROVE  Inv'
<1>1. CASE AgentStep
  BY <1>1, AgentStepOK
<1>2. CASE Accept
  BY <1>2, AgentAcceptsOK, InitSessionFresh DEF Accept
<1>3. CASE EpollWait \/ WaitInterrupted
  BY <1>3, EpollWaitOK
<1>4. ASSUME NEW e \in batch,
             SkipEvent(e) \/ HandleSvrEvent(e) \/ HandleCliEvent(e)
      PROVE  Inv'
  BY <1>4, SkipEventOK, HandleSvrEventOK, HandleCliEventOK
<1>5. CASE TimeoutStep
  BY <1>5, TimeoutStepOK
<1>6. CASE PeerStep
  BY <1>6, PeerStepOK
<1>7. CASE UNCHANGED vars
  BY <1>7, StutterOK
<1> QED
  BY <1>1, <1>2, <1>3, <1>4, <1>5, <1>6, <1>7
     DEF Next, HandleAgentEvent, HandleConnectionsEvent, HandleSessionTimeout,
         Dispatch

\* Every slot of the client's pool is always in order: typed, and owning
\* exactly what its flag and descriptors say.
THEOREM Invariant == Spec => []Inv
BY InitOK, StepOK, PTL DEF Spec

\* The state of the loop and of every slot always has its type; in particular
\* the send buffers never overflow and the pool's indices stay in the pool.
THEOREM TypeCorrect == Spec => []TypeOK
BY Invariant, PTL DEF Inv

\* Nothing outlives its session: whichever call fails and whatever the peers
\* do, descriptor, kernel socket and registration go together, and a slot that
\* is not in use holds nothing.
THEOREM NothingLeaks == Spec => []NoLeak
BY Invariant, PTL DEF Inv

-----------------------------------------------------------------------------
\* No step within a batch touches a free slot.
LEMMA BatchStepUntouched ==
    ASSUME Inv, [Next]_vars, pc = "dispatch"
    PROVE  Untouched
<1>1. ASSUME NEW e \in batch,
             SkipEvent(e) \/ HandleSvrEvent(e) \/ HandleCliEvent(e)
      PROVE  Untouched
  <2>1. CASE SkipEvent(e)
    BY <2>1 DEF SkipEvent, Untouched
  <2>2. CASE HandleSvrEvent(e)
    BY <2>2, HandleEventUntouched DEF HandleSvrEvent
  <2>3. CASE HandleCliEvent(e)
    BY <2>3, HandleCliEventOK
  <2> QED
    BY <1>1, <2>1, <2>2, <2>3
<1>2. CASE PeerStep
  BY <1>2, PeerUntouched
<1>3. CASE UNCHANGED vars
  BY <1>3 DEF vars, Untouched
<1>4. ~AgentStep /\ ~Accept /\ ~EpollWait /\ ~WaitInterrupted /\ ~TimeoutStep
  BY DEF AgentStep, AgentInterrupted, AgentNoSession, AgentRefuses, Accept,
         AgentAccepts, EpollWait, WaitInterrupted, TimeoutStep, TimeoutNotDue,
         TimeoutWalk, TimeoutSweep
<1> QED
  BY <1>1, <1>2, <1>3, <1>4
     DEF Next, HandleAgentEvent, HandleConnectionsEvent, HandleSessionTimeout,
         Dispatch

\* The events left over of a session that was freed earlier in the batch, and
\* the peers of the others, leave the freed slot alone.
THEOREM FreedStaysFreed == Spec => FreedSlotUntouched
<1>1. Inv /\ [Next]_vars =>
        [pc = "dispatch" =>
           \A s \in Slot : ~conn[s].flag => conn'[s] = conn[s]]_vars
  BY BatchStepUntouched DEF Untouched
<1> QED
  BY <1>1, Invariant, PTL DEF Spec, FreedSlotUntouched

-----------------------------------------------------------------------------
(* The relay discipline.                                                    *)

\* After an event of the browser the session is settled.
LEMMA CliEventSettles ==
    ASSUME NEW c, SlotOK(c), c.flag, Settled(c), c.fd[Cli], NEW events,
           NEW outcome, NEW mem \in BOOLEAN
    PROVE  /\ Settled(CliEvent(c, events, outcome, mem))
           /\ Spares(c, CliEvent(c, events, outcome, mem), Cli)
<1> DEFINE a == [c EXCEPT !.event_fd = Cli]
           begun == [a EXCEPT !.status[Cli] = "BUILD_SVR"]
           b == IF a.status[Cli] = "INIT" THEN BuildSvr(begun, outcome)
                ELSE Return(0, a)
           r == OnDataRelay(b.slot, Cli, Effective(events), mem)
           d == CliEvent(c, events, outcome, mem)
<1>1. Cli \in Side /\ Svr \in Side /\ Cli # Svr /\ Other(Cli) = Svr
  BY DEF Side, Other, Cli, Svr
<1>2. /\ SlotOK(a) /\ a.flag /\ a.event_fd = Cli /\ a.fd = c.fd
      /\ a.data = c.data /\ a.status = c.status
  BY <1>1 DEF SlotOK, SlotType, SlotHoldsWhatItOwns
<1>3. /\ SlotOK(begun) /\ begun.flag /\ begun.event_fd = Cli
      /\ begun.fd = c.fd /\ begun.status[Svr] = c.status[Svr]
  BY <1>1 DEF SlotOK, SlotType, Status, SlotHoldsWhatItOwns
<1> HIDE DEF a, begun
<1>4. /\ SlotOK(b.slot) /\ (b.ret < 0 => ~b.slot.flag)
      /\ b.slot.flag => Midway(b.slot, Cli)
      /\ ~(b.ret < 0) => b.slot.flag
      /\ Spares(c, b.slot, Cli)
  <2>1. CASE c.status[Cli] = "INIT"
    <3>1. c.status[Svr] = "INIT" /\ ~c.fd[Svr]
      BY <2>1 DEF Settled, Begun
    <3>2. b = BuildSvr(begun, outcome)
      BY <1>2, <2>1
    <3>3. Connected(begun, outcome).flag
      BY <1>3, ConnectedOK
    <3>4. SlotOK(b.slot) /\ (~(b.ret < 0) => b.slot.flag)
      BY <1>3, <3>2, <3>3, BuildSvrOK DEF Return
    <3>5. (b.ret < 0 => ~b.slot.flag) /\ (b.slot.flag => Midway(b.slot, Cli))
      BY <1>3, <3>1, <3>2, BuildSvrMidway
    <3> QED
      BY <1>1, <3>1, <3>4, <3>5 DEF Spares
  <2>2. CASE c.status[Cli] # "INIT"
    <3>1. b = Return(0, a)
      BY <1>2, <2>2
    <3>2. Midway(a, Cli)
      BY <1>1, <1>2, SettledMidway
    <3> QED
      BY <1>2, <3>1, <3>2 DEF Return, Spares
  <2> QED
    BY <2>1, <2>2
<1>5. \/ b.ret < 0 /\ d = b.slot
      \/ d = Finish(b, Cli)
      \/ ~(b.ret < 0) /\ d = Finish(r, Cli)
  BY DEF CliEvent, a, begun
<1> HIDE DEF b, d
<1>6. ~b.slot.flag => Settled(b.slot)
  BY DEF Settled
<1>7. Settled(Finish(b, Cli)) /\ Spares(b.slot, Finish(b, Cli), Cli)
  BY <1>1, <1>4, FinishSettles
<1>8. b.slot.flag => Settled(Finish(r, Cli)) /\ Spares(b.slot, Finish(r, Cli), Cli)
  BY <1>1, <1>4, RelaySettles
<1>9. ~b.slot.flag => ~Finish(b, Cli).flag
  BY DEF Finish, OnSessionClose, EpollSessionMod
<1> HIDE DEF r
<1> QED
  BY <1>4, <1>5, <1>6, <1>7, <1>8, <1>9 DEF Spares, d

\* The discipline holds after an event of the browser,
LEMMA DisciplineCliEvent ==
    ASSUME Inv, Discipline, NEW e, HandleCliEvent(e)
    PROVE  Discipline'
<1>1. PICK mem \in MallocOutcomes, outcome \in BuildOutcomes :
        HandleEvent(e, CliEvent(conn[e.slot], e.events, outcome, mem))
  BY DEF HandleCliEvent
<1>2. mem \in BOOLEAN
  BY DEF MallocOutcomes
<1>3. e \in batch /\ conn[e.slot].flag /\ e.tag = Cli /\ Cli # Svr
  BY DEF HandleCliEvent, Cli, Svr
<1>4. /\ SlotOK(conn[e.slot]) /\ Settled(conn[e.slot])
      /\ conn[e.slot].fd[Cli]
  BY <1>3, EventSide
<1> DEFINE d == CliEvent(conn[e.slot], e.events, outcome, mem)
<1>5. Settled(d) /\ Spares(conn[e.slot], d, Cli)
  BY <1>2, <1>3, <1>4, CliEventSettles
<1> HIDE DEF d
<1> QED
  BY <1>1, <1>3, <1>5, DisciplineHandle DEF d

\* and after every step.
LEMMA DisciplineStep ==
    ASSUME Inv, Discipline, [Next]_vars
    PROVE  Discipline'
<1>1. CASE AgentStep \/ WaitInterrupted \/ UNCHANGED vars
  BY <1>1, DisciplineAgent
<1>2. ASSUME NEW d \in Elapsed, NEW q \in Requests, NEW registered \in BOOLEAN,
             AgentAccepts(d, InitSession(q), registered)
      PROVE  Discipline'
  <2>1. /\ InitSession(q).data = [x \in Side |-> <<>>]
        /\ InitSession(q).status = [x \in Side |-> "INIT"]
    BY DEF InitSession, EmptySlot
  <2> QED
    BY <1>2, <2>1, InitSessionFresh, DisciplineAccepts
<1>3. CASE EpollWait
  BY <1>3, DisciplineWait
<1>4. ASSUME NEW e \in batch,
             SkipEvent(e) \/ HandleSvrEvent(e) \/ HandleCliEvent(e)
      PROVE  Discipline'
  BY <1>4, DisciplineSkip, DisciplineSvrEvent, DisciplineCliEvent
<1>5. CASE TimeoutStep
  BY <1>5, DisciplineTimeout
<1>6. CASE PeerStep
  BY <1>6, DisciplinePeer
<1> QED
  BY <1>1, <1>2, <1>3, <1>4, <1>5, <1>6
     DEF Next, HandleAgentEvent, HandleConnectionsEvent, HandleSessionTimeout,
         Dispatch, Accept

\* Between two events every session of the client is settled, and every
\* event of the batch finds its descriptor open or its session freed.
THEOREM Disciplined == Spec => []Discipline
<1>1. Inv /\ Inv' /\ Discipline /\ [Next]_vars => Discipline'
  BY DisciplineStep
<1> QED
  BY <1>1, DisciplineInit, Invariant, PTL DEF Spec

\* A session with a closed side lives to flush and for nothing else.
THEOREM ClosedFlushes == Spec => []ClosedOnlyToFlush
BY Invariant, Disciplined, DisciplineImplies, PTL

\* epoll waits for EPOLLOUT exactly while there is something to write.
THEOREM ArmedRight == Spec => []ArmedForWhatIsPending
BY Invariant, Disciplined, DisciplineImplies, PTL

\* Events left in the array are about open descriptors: the two events of one
\* session cannot trip over each other.
THEOREM EventsNameOpenFds == Spec => []BatchNamesOpenFds
BY Invariant, Disciplined, DisciplineImplies, PTL

-----------------------------------------------------------------------------
(* The bytes.                                                               *)

\* What the client's slot carries: both ways the translation of exactly what
\* was read, and nothing before the connection to the server is built.
Streams(c) ==
    c.flag =>
        /\ c.status[Cli] \in {"INIT", "DATA_RELAY", "CLOSE"}
        /\ c.status[Cli] = "INIT" =>
             \A x \in Side : c.data[x] = <<>> /\ c.taken[x] = 0
        /\ \A x \in Side : Counted(c, x) /\ Carried(c, x, <<>>, 0)

Streaming == \A s \in Slot : Streams(conn[s])

\* A session through which bytes flow goes on streaming.
LEMMA FlowsStreams ==
    ASSUME NEW c \in SlotType, NEW d \in SlotType, c.flag, Streams(c),
           c.status[Cli] # "INIT", Flows(c, d)
    PROVE  Streams(d)
<1> SUFFICES ASSUME d.flag
             PROVE  Streams(d)
  BY DEF Streams
<1>1. /\ d.status[Cli] \in {c.status[Cli], "CLOSE"}
      /\ \A x \in Side : Counted(d, x)
  BY DEF Flows, FlowsSide
<1>2. ASSUME NEW x \in Side
      PROVE  Carried(d, x, <<>>, 0)
  <2>1. Carried(c, x, <<>>, 0)
    BY DEF Streams
  <2>2. c.taken[x] \in Nat /\ <<>> \in Seq(Byte)
    BY ThroughType, EmptySeq
  <2>3. 0 <= c.taken[x] /\ 0 \in Nat
    BY <2>2
  <2> QED
    BY <2>1, <2>2, <2>3, CarriedOn
<1> QED
  BY <1>1, <1>2 DEF Streams

\* A side of which nothing was read and whose queue is empty carries nothing.
LEMMA NothingCarried ==
    ASSUME NEW c \in SlotType, NEW x \in Side, c.taken[x] = 0
    PROVE  /\ Carried(c, x, <<>>, 0) /\ c.fd[Other(x)] => Through(c, x) = <<>>
           /\ Through(c, x) = <<>> => Carried(c, x, <<>>, 0)
<1>1. <<>> \in Seq(Byte) /\ <<>> \o <<>> = <<>>
  BY EmptySeq, ConcatEmptySeq
<1>2. SubSeq(PeerBytes(c, x), 0 + 1, 0) = <<>>
  BY SubSeqEmpty
<1>3. Translate(x, SubSeq(PeerBytes(c, x), 0 + 1, c.taken[x])) = <<>>
  BY <1>2, TranslateNothing
<1> QED
  BY <1>1, <1>3 DEF Carried

\* An event of the browser builds the far connection or lets bytes flow.
LEMMA CliEventStreams ==
    ASSUME NEW c, SlotOK(c), c.flag, Settled(c), Streams(c), c.fd[Cli],
           NEW events, NEW outcome, NEW mem \in BOOLEAN
    PROVE  LET d == CliEvent(c, events, outcome, mem) IN
           /\ Streams(d)
           /\ d.flag => d.status[Cli] # "INIT"
           /\ c.status[Cli] # "INIT" => Flows(c, d)
<1> DEFINE a == [c EXCEPT !.event_fd = Cli]
           begun == [a EXCEPT !.status[Cli] = "BUILD_SVR"]
           b == IF a.status[Cli] = "INIT" THEN BuildSvr(begun, outcome)
                ELSE Return(0, a)
           r == OnDataRelay(b.slot, Cli, Effective(events), mem)
           d == CliEvent(c, events, outcome, mem)
<1>1. Cli \in Side /\ Svr \in Side /\ Cli # Svr
      /\ Other(Cli) = Svr /\ Other(Svr) = Cli
  BY DEF Side, Cli, Svr, Other
<1>2. c \in SlotType
  BY DEF SlotOK
<1>3. /\ SlotOK(a) /\ a.flag /\ a.fd = c.fd /\ a.sock = c.sock
      /\ a.data = c.data /\ a.status = c.status /\ a.req = c.req
      /\ a.taken = c.taken
  BY <1>1 DEF SlotOK, SlotType, SlotHoldsWhatItOwns
<1>4. /\ SlotOK(begun) /\ begun.flag /\ begun.sock = c.sock
      /\ begun.data = c.data /\ begun.req = c.req /\ begun.taken = c.taken
      /\ begun.fd = c.fd
  BY <1>1 DEF SlotOK, SlotType, Status, SlotHoldsWhatItOwns
<1> HIDE DEF a, begun
<1>5. /\ SlotOK(b.slot)
      /\ b.slot.flag =>
           Streams(b.slot) /\ b.slot.status[Cli] # "INIT" /\ b.slot.fd[Cli]
  <2>1. CASE c.status[Cli] = "INIT"
    <3> DEFINE t == Connected(begun, outcome)
    <3>1. /\ \A x \in Side : c.data[x] = <<>> /\ c.taken[x] = 0
          /\ \A x \in Side : Counted(c, x) /\ Carried(c, x, <<>>, 0)
      BY <2>1 DEF Streams
    <3>2. b = BuildSvr(begun, outcome)
      BY <1>3, <2>1
    <3>3. /\ SlotOK(t) /\ t.flag /\ t.status[Cli] = "DATA_RELAY"
          /\ t.taken = begun.taken /\ t.fd = [begun.fd EXCEPT ![Svr] = TRUE]
      BY <1>4, ConnectedOK
    <3>4. Counted(begun, Cli) /\ begun.taken[Svr] = 0
      BY <1>1, <1>4, <3>1 DEF Counted, PeerBytes
    <3>5. /\ \A x \in Side : Counted(t, x)
          /\ Through(t, Cli) = begun.data[Cli]
          /\ Through(t, Svr) = Through(begun, Svr)
      BY <1>4, <3>4, ConnectedCounted
    <3>6. SlotOK(b.slot) /\ (b.slot.flag => b.slot = t)
      BY <1>4, <3>2, BuildSvrOK DEF Return
    <3> HIDE DEF t
    <3>7. t \in SlotType /\ \A x \in Side : t.taken[x] = 0
      BY <1>4, <3>1, <3>3 DEF SlotOK
    <3>8. Through(t, Cli) = <<>>
      BY <1>1, <1>4, <3>1, <3>5
    <3>9. Through(t, Svr) = <<>>
      <4>1. Through(c, Svr) = <<>>
        BY <1>1, <1>2, <3>1, NothingCarried
      <4> QED
        BY <1>1, <1>4, <3>5, <4>1 DEF Through
    <3>10. \A x \in Side : Carried(t, x, <<>>, 0)
      BY <3>7, <3>8, <3>9, NothingCarried DEF Side
    <3>11. t.fd[Cli]
      BY <1>1, <1>2, <1>4, <3>3 DEF SlotType
    <3> QED
      BY <3>3, <3>5, <3>6, <3>10, <3>11 DEF Streams
  <2>2. CASE c.status[Cli] # "INIT"
    <3>1. b = Return(0, a)
      BY <1>3, <2>2
    <3>2. ASSUME NEW x \in Side
          PROVE  Counted(a, x) /\ Carried(a, x, <<>>, 0)
      <4>1. Counted(c, x) /\ Carried(c, x, <<>>, 0)
        BY DEF Streams
      <4>2. PeerBytes(a, x) = PeerBytes(c, x) /\ Through(a, x) = Through(c, x)
        BY <1>3 DEF PeerBytes, Through
      <4>3. Counted(a, x)
        BY <1>3, <4>1, <4>2 DEF Counted
      <4>4. Carried(a, x, <<>>, 0)
        BY <1>3, <4>1, <4>2 DEF Carried
      <4> QED
        BY <4>3, <4>4
    <3>3. Streams(a)
      BY <1>3, <2>2, <3>2 DEF Streams
    <3> QED
      BY <1>3, <2>2, <3>1, <3>3 DEF Return
  <2> QED
    BY <2>1, <2>2
<1>6. \/ d = b.slot
      \/ d = Finish(b, Cli)
      \/ d = Finish(r, Cli) /\ b.slot.status[Cli] = "DATA_RELAY" /\ ~(b.ret < 0)
  BY DEF CliEvent, a, begun
<1>7. ~(b.ret < 0) => b.slot.flag
  <2>1. Connected(begun, outcome).flag
    BY <1>4, ConnectedOK
  <2>2. LET q == BuildSvr(begun, outcome) IN ~(q.ret < 0) => q.slot.flag
    BY <1>4, <2>1, BuildSvrOK DEF Return
  <2> QED
    BY <1>3, <2>2 DEF Return
<1>8. c.status[Cli] # "INIT" => Flows(c, b.slot)
  <2> SUFFICES ASSUME c.status[Cli] # "INIT"
               PROVE  Flows(c, a)
    BY <1>3 DEF Return
  <2>1. a \in SlotType /\ a.head = c.head
    BY <1>2, <1>3 DEF SlotOK, SlotType, a
  <2> QED
    BY <1>2, <1>3, <2>1, SameFlow DEF Streams
<1> HIDE DEF b
<1>9. b.slot \in SlotType
  BY <1>5 DEF SlotOK
<1>10. b.slot.flag => \A x \in Side : Counted(b.slot, x)
  BY <1>5 DEF Streams
<1>11. Streams(b.slot)
  BY <1>5 DEF Streams
<1>12. CASE d = Finish(b, Cli)
  <2> DEFINE f == Finish(b, Cli)
  <2>1. Flows(b.slot, f) /\ SlotOK(f)
    BY <1>5, <1>10, FinishFlows, FinishOK
  <2>2. ~b.slot.flag => ~f.flag
    BY DEF Finish, OnSessionClose, EpollSessionMod
  <2> HIDE DEF f
  <2>3. f \in SlotType
    BY <2>1 DEF SlotOK
  <2>4. Streams(f)
    BY <1>5, <1>9, <1>11, <2>1, <2>2, <2>3, FlowsStreams DEF Streams
  <2>5. f.flag => f.status[Cli] # "INIT"
    BY <1>5, <2>1, <2>2 DEF Flows
  <2>6. c.status[Cli] # "INIT" => Flows(c, f)
    BY <1>2, <1>5, <1>9, <1>8, <2>1, <2>2, <2>3, FlowsTransitive DEF Flows
  <2> QED
    BY <1>12, <2>4, <2>5, <2>6 DEF f
<1>13. CASE d = Finish(r, Cli) /\ ~(b.ret < 0)
  <2> DEFINE f == Finish(r, Cli)
  <2>1. b.slot.flag /\ b.slot.fd[Cli]
    BY <1>5, <1>7, <1>13
  <2>2. Flows(b.slot, f)
    BY <1>1, <1>5, <1>10, <2>1, RelayFlows
  <2>3. SlotOK(f)
    BY <1>1, <1>5, <2>1, OnDataRelayOK, FinishOK
  <2> HIDE DEF f
  <2>4. f \in SlotType
    BY <2>3 DEF SlotOK
  <2>5. Streams(f)
    BY <1>5, <1>9, <1>11, <2>1, <2>2, <2>4, FlowsStreams
  <2>6. f.flag => f.status[Cli] # "INIT"
    BY <1>5, <2>1, <2>2 DEF Flows
  <2>7. c.status[Cli] # "INIT" => Flows(c, f)
    BY <1>2, <1>9, <1>8, <2>1, <2>2, <2>4, FlowsTransitive
  <2> QED
    BY <1>13, <2>5, <2>6, <2>7 DEF f
<1>14. CASE d = b.slot
  BY <1>5, <1>11, <1>14, <1>8
<1> QED
  BY <1>6, <1>12, <1>13, <1>14 DEF d

\* Streaming holds after either handler,
LEMMA StreamingHandles ==
    ASSUME Inv, Discipline, Streaming, NEW e \in batch,
           HandleSvrEvent(e) \/ HandleCliEvent(e)
    PROVE  Streaming'
<1> DEFINE c == conn[e.slot]
<1>1. c.flag
  BY DEF HandleSvrEvent, HandleCliEvent
<1>2. /\ e.slot \in Slot /\ SlotOK(c) /\ Settled(c) /\ Streams(c)
      /\ c.fd[e.tag] \/ (e.tag = Svr /\ c.status[Svr] = "CLOSE")
  BY <1>1, EventSide DEF Streaming
<1>3. conn \in [Slot -> SlotType]
  BY DEF Inv, TypeOK
<1>4. ASSUME NEW d, Streams(d), HandleEvent(e, d)
      PROVE  Streaming'
  BY <1>2, <1>3, <1>4 DEF HandleEvent, Streaming
<1>5. CASE HandleSvrEvent(e)
  <2>1. PICK mem \in MallocOutcomes : HandleEvent(e, SvrEvent(c, e.events, mem))
    BY <1>5 DEF HandleSvrEvent
  <2>2. mem \in BOOLEAN /\ e.tag = Svr
    BY <1>5 DEF MallocOutcomes, HandleSvrEvent
  <2> HIDE DEF c
  <2>3. c.fd[Svr] \/ c.status[Svr] = "CLOSE"
    BY <1>2, <2>2
  <2>4. c.status[Cli] # "INIT"
    BY <1>1, <1>2, <2>3 DEF Settled, Begun
  <2> DEFINE d == SvrEvent(c, e.events, mem)
  <2>5. Flows(c, d) /\ SlotOK(d)
    BY <1>1, <1>2, <2>2, <2>3, SvrEventFlows, SvrEventOK DEF Streams
  <2> HIDE DEF d
  <2>6. Streams(d)
    BY <1>1, <1>2, <2>4, <2>5, FlowsStreams DEF SlotOK
  <2> QED
    BY <1>4, <2>1, <2>6 DEF d
<1>6. CASE HandleCliEvent(e)
  <2>1. PICK mem \in MallocOutcomes, outcome \in BuildOutcomes :
          HandleEvent(e, CliEvent(c, e.events, outcome, mem))
    BY <1>6 DEF HandleCliEvent
  <2>2. mem \in BOOLEAN /\ e.tag = Cli /\ Cli # Svr
    BY <1>6 DEF MallocOutcomes, HandleCliEvent, Cli, Svr
  <2> HIDE DEF c
  <2>3. c.fd[Cli]
    BY <1>2, <2>2
  <2> DEFINE d == CliEvent(c, e.events, outcome, mem)
  <2>4. Streams(d)
    BY <1>1, <1>2, <2>2, <2>3, CliEventStreams
  <2> HIDE DEF d
  <2> QED
    BY <1>4, <2>1, <2>4 DEF d
<1> QED
  BY <1>5, <1>6

\* after a browser is accepted,
LEMMA StreamingAccepts ==
    ASSUME Inv, Streaming, NEW d \in Elapsed, NEW q \in Requests,
           NEW registered \in BOOLEAN,
           AgentAccepts(d, InitSession(q), registered)
    PROVE  Streaming'
<1> DEFINE fresh == InitSession(q)
           taken == Accepted(fresh)
           refused == FreeSession([fresh EXCEPT !.fd[Cli] = TRUE,
                                                !.sock[Cli] = NewSocket("est")])
<1>1. Cli \in Side /\ Svr \in Side /\ Cli # Svr
      /\ Other(Cli) = Svr /\ Other(Svr) = Cli
  BY DEF Side, Cli, Svr, Other
<1>2. /\ Fresh(fresh) /\ fresh.data = [x \in Side |-> <<>>]
      /\ fresh.taken = [x \in Side |-> 0]
      /\ fresh.status = [x \in Side |-> "INIT"]
  BY InitSessionFresh DEF InitSession, EmptySlot
<1> HIDE DEF fresh
<1>3. Streams(refused)
  BY <1>2, RefusedFreed DEF Streams
<1>4. Streams(taken)
  <2>1. /\ taken.fd[Cli] /\ ~taken.fd[Svr] /\ taken.status = fresh.status
        /\ taken.sock[Cli].out = <<>> /\ taken.data = fresh.data
        /\ taken.taken = fresh.taken
        /\ \A x \in Side : Counted(taken, x)
    BY <1>2, AcceptedCounted
  <2>2. taken \in SlotType
    BY <1>2, AcceptedOK DEF SlotOK
  <2> HIDE DEF taken
  <2>3. <<>> \o <<>> = <<>>
    BY EmptySeq, ConcatEmptySeq
  <2>4. Through(taken, Svr) = <<>>
    BY <1>1, <1>2, <2>1, <2>3 DEF Through
  <2>5. Carried(taken, Svr, <<>>, 0)
    BY <1>1, <1>2, <2>1, <2>2, <2>4, NothingCarried
  <2>6. Carried(taken, Cli, <<>>, 0)
    BY <1>1, <2>1 DEF Carried
  <2> QED
    BY <1>1, <1>2, <2>1, <2>5, <2>6 DEF Streams, Side
<1>5. conn' = [conn EXCEPT ![FirstFree] = IF registered THEN taken ELSE refused]
  BY DEF AgentAccepts, fresh
<1> HIDE DEF taken, refused
<1>6. conn \in [Slot -> SlotType]
  BY DEF Inv, TypeOK
<1> QED
  BY <1>3, <1>4, <1>5, <1>6 DEF Streaming

\* after every step,
LEMMA StreamingStep ==
    ASSUME Inv, Discipline, Streaming, [Next]_vars
    PROVE  Streaming'
<1>1. CASE AgentStep \/ EpollWait \/ WaitInterrupted \/ UNCHANGED vars
           \/ \E e \in batch : SkipEvent(e)
  <2>1. conn' = conn
    BY <1>1 DEF AgentStep, AgentInterrupted, AgentNoSession, AgentRefuses,
                EpollWait, WaitInterrupted, SkipEvent, vars
  <2> QED
    BY <2>1 DEF Streaming
<1>2. CASE Accept
  BY <1>2, StreamingAccepts DEF Accept
<1>3. ASSUME NEW e \in batch, HandleSvrEvent(e) \/ HandleCliEvent(e)
      PROVE  Streaming'
  BY <1>3, StreamingHandles
<1>4. CASE TimeoutStep
  <2>1. ASSUME NEW walked, Walk(walked)
        PROVE  Streaming'
    <3>1. \A s \in Slot : ~FreeSession(conn[s]).flag
      BY InvSlots, FreeSessionOK
    <3> QED
      BY <2>1, <3>1 DEF Walk, Reaped, Streaming, Streams
  <2>2. conn' = conn => Streaming'
    BY DEF Streaming
  <2> QED
    BY <1>4, <2>1, <2>2 DEF TimeoutStep, TimeoutNotDue, TimeoutWalk, TimeoutSweep
<1>5. CASE PeerStep
  <2> SUFFICES ASSUME NEW s \in Slot, conn'[s].flag
               PROVE  Streams(conn'[s])
    BY DEF Streaming, Streams
  <2>1. /\ conn[s].flag /\ conn'[s].fd = conn[s].fd
        /\ conn'[s].status = conn[s].status /\ conn'[s].data = conn[s].data
        /\ conn'[s].taken = conn[s].taken
    BY <1>5, PeerKeeps
  <2>2. Streams(conn[s])
    BY DEF Streaming
  <2>3. \A x \in Side : /\ Counted(conn'[s], x)
                        /\ Through(conn'[s], x) = Through(conn[s], x)
                        /\ PeerBytes(conn'[s], x) = PeerBytes(conn[s], x)
    BY <1>5, <2>1, <2>2, PeerCounts DEF Streams
  <2>4. \A x \in Side : Carried(conn'[s], x, <<>>, 0)
    BY <2>1, <2>2, <2>3 DEF Streams, Carried
  <2> QED
    BY <2>1, <2>2, <2>3, <2>4 DEF Streams
<1> QED
  BY <1>1, <1>2, <1>3, <1>4, <1>5
     DEF Next, HandleAgentEvent, HandleConnectionsEvent, HandleSessionTimeout,
         Dispatch

\* and at the start.
LEMMA StreamingInit == Init => Streaming
<1> SUFFICES ASSUME Init PROVE Streaming
  OBVIOUS
<1>1. \A s \in Slot : ~conn[s].flag
  BY DEF Init, EmptySlot
<1> QED
  BY <1>1 DEF Streaming, Streams

\* What goes through is what is meant, and grows with what is read.
LEMMA ThroughIsMeant ==
    ASSUME NEW c \in SlotType, c.flag, Streams(c), NEW x \in Side
    PROVE  /\ Meant(c, x) \in Seq(Byte)
           /\ c.fd[Other(x)] => Through(c, x) = Meant(c, x)
           /\ c.taken[x] = 0 => Meant(c, x) = <<>>
<1> DEFINE t == Translate(x, SubSeq(PeerBytes(c, x), 0 + 1, c.taken[x]))
<1>1. Counted(c, x) /\ Carried(c, x, <<>>, 0)
  BY DEF Streams
<1>2. c.fd[Other(x)] => Through(c, x) = <<>> \o t
  BY <1>1 DEF Carried
<1>3. t \in Seq(Byte)
  <2>1. PeerBytes(c, x) \in Seq(Byte) /\ c.taken[x] \in Nat
    BY ThroughType
  <2>2. 0 <= c.taken[x] /\ c.taken[x] <= Len(PeerBytes(c, x)) /\ 0 \in Nat
    BY <1>1, <2>1 DEF Counted
  <2>3. SubSeq(PeerBytes(c, x), 0 + 1, c.taken[x]) \in Seq(Byte)
    BY <2>1, <2>2, Pieces
  <2> QED
    BY <2>3, TranslateType
<1>4. t = Meant(c, x)
  BY DEF Meant, Taken
<1>5. c.taken[x] = 0 => t = <<>>
  <2>1. SubSeq(PeerBytes(c, x), 0 + 1, 0) = <<>>
    BY SubSeqEmpty
  <2> QED
    BY <2>1, TranslateNothing
<1> HIDE DEF t
<1> QED
  BY <1>2, <1>3, <1>4, <1>5, ConcatEmptySeq

\* What streams arrives as it is meant.
LEMMA StreamingImplies == ASSUME Inv, Streaming PROVE StreamIntegrity
<1> SUFFICES ASSUME NEW s \in Slot, NEW x \in Side, conn[s].flag,
                    conn[s].fd[Other(x)]
             PROVE  Through(conn[s], x) = Meant(conn[s], x)
  BY DEF StreamIntegrity, Through
<1> QED
  BY InvSlots, ThroughIsMeant DEF Streaming, SlotOK

\* What was read of each side is at all times carried, translated and in
\* order, to the other one.
THEOREM Streamed == Spec => []Streaming
<1>1. Inv /\ Discipline /\ Streaming /\ [Next]_vars => Streaming'
  BY StreamingStep
<1> QED
  BY <1>1, StreamingInit, Invariant, Disciplined, PTL DEF Spec

\* Between its two sockets the client loses, doubles and reorders nothing,
\* whatever partial writes, full buffers, failing calls and resets do: for
\* every cipher table, every traffic, every size of the buffers and the pool.
THEOREM StreamIntact == Spec => []StreamIntegrity
BY Invariant, Streamed, StreamingImplies, PTL

-----------------------------------------------------------------------------
(* The client's slots as abstract sessions.                                 *)

\* An event of the browser wipes the history with the descriptors.
LEMMA CliEventKept ==
    ASSUME NEW c, SlotOK(c), c.flag, Kept(c), c.fd[Cli],
           NEW events, NEW outcome, NEW mem \in BOOLEAN
    PROVE  Kept(CliEvent(c, events, outcome, mem))
<1> DEFINE a == [c EXCEPT !.event_fd = Cli]
           begun == [a EXCEPT !.status[Cli] = "BUILD_SVR"]
           b == IF a.status[Cli] = "INIT" THEN BuildSvr(begun, outcome)
                ELSE Return(0, a)
           r == OnDataRelay(b.slot, Cli, Effective(events), mem)
           d == CliEvent(c, events, outcome, mem)
<1>1. Cli \in Side
  BY DEF Side
<1>2. SlotOK(a) /\ a.flag /\ Kept(a) /\ a.fd = c.fd
  BY <1>1 DEF SlotOK, SlotType, SlotHoldsWhatItOwns, Kept
<1>3. SlotOK(begun) /\ begun.flag /\ Kept(begun) /\ begun.fd = c.fd
  <2>1. /\ SlotOK(begun) /\ begun.flag /\ begun.fd = c.fd
        /\ begun.sock = c.sock /\ begun.gave = c.gave
    BY <1>1 DEF SlotOK, SlotType, Status, SlotHoldsWhatItOwns
  <2>2. begun.status[Cli] = "BUILD_SVR"
    BY <1>1 DEF SlotOK, SlotType
  <2> HIDE DEF begun
  <2> QED
    BY <2>1, <2>2 DEF Kept
<1> HIDE DEF a, begun
<1>4. /\ SlotOK(b.slot) /\ Kept(b.slot)
      /\ ~(b.ret < 0) => b.slot.flag
  <2>1. Connected(begun, outcome).flag
    BY <1>3, ConnectedOK
  <2>2. LET q == BuildSvr(begun, outcome) IN
        SlotOK(q.slot) /\ (~(q.ret < 0) => q.slot.flag)
    BY <1>3, <2>1, BuildSvrOK DEF Return
  <2>3. Kept(BuildSvr(begun, outcome).slot)
    BY <1>3, BuildSvrKept
  <2> QED
    BY <1>2, <2>2, <2>3 DEF Return
<1>5. \/ d = b.slot
      \/ d = Finish(b, Cli)
      \/ d = Finish(r, Cli) /\ b.slot.status[Cli] = "DATA_RELAY" /\ ~(b.ret < 0)
  BY DEF CliEvent, a, begun
<1> HIDE DEF b
<1>6. Kept(Finish(b, Cli))
  BY <1>1, <1>4, FinishKept
<1>7. ASSUME b.slot.status[Cli] = "DATA_RELAY", ~(b.ret < 0)
      PROVE  Kept(Finish(r, Cli))
  <2>1. b.slot.flag /\ b.slot.fd[Cli]
    BY <1>1, <1>4, <1>7 DEF Kept
  <2>2. SlotOK(r.slot) /\ Kept(r.slot)
    BY <1>1, <1>4, <2>1, OnDataRelayOK, OnDataRelayKept
  <2> HIDE DEF r
  <2> QED
    BY <1>1, <2>2, FinishKept
<1> QED
  BY <1>4, <1>5, <1>6, <1>7 DEF d

AllKept == \A s \in Slot : Kept(conn[s])

\* The histories are empty at the start,
LEMMA KeptInit == Init => AllKept
<1> SUFFICES ASSUME Init, NEW s \in Slot PROVE Kept(conn[s])
  BY DEF AllKept
<1> QED
  BY DEF Init, EmptySlot, Kept, NoSocket

\* and in a slot just handed out,
LEMMA InitSessionKept ==
    ASSUME NEW q \in Requests
    PROVE  LET c == InitSession(q) IN
           /\ Fresh(c) /\ c.data = [x \in Side |-> <<>>]
           /\ c.taken = [x \in Side |-> 0]
           /\ c.status = [x \in Side |-> "INIT"]
           /\ \A x \in Side : c.sock[x].out = <<>> /\ c.gave[x] = <<>>
BY InitSessionFresh DEF InitSession, EmptySlot, NoSocket

\* and no step leaves one behind.
LEMMA KeptStep ==
    ASSUME Inv, Discipline, AllKept, [Next]_vars
    PROVE  AllKept'
<1>0. conn \in [Slot -> SlotType]
  BY DEF Inv, TypeOK
<1>1. CASE AgentStep \/ EpollWait \/ WaitInterrupted \/ UNCHANGED vars
           \/ \E e \in batch : SkipEvent(e)
  <2>1. conn' = conn
    BY <1>1 DEF AgentStep, AgentInterrupted, AgentNoSession, AgentRefuses,
                EpollWait, WaitInterrupted, SkipEvent, vars
  <2> QED
    BY <2>1 DEF AllKept
<1>2. ASSUME NEW d \in Elapsed, NEW q \in Requests, NEW registered \in BOOLEAN,
             AgentAccepts(d, InitSession(q), registered)
      PROVE  AllKept'
  <2> DEFINE fresh == InitSession(q)
             taken == Accepted(fresh)
             refused == FreeSession([fresh EXCEPT !.fd[Cli] = TRUE,
                                                  !.sock[Cli] = NewSocket("est")])
  <2>1. Kept(taken) /\ Kept(refused)
    BY InitSessionKept, AcceptedKept
  <2>2. conn' = [conn EXCEPT ![FirstFree] = IF registered THEN taken ELSE refused]
    BY <1>2 DEF AgentAccepts
  <2> HIDE DEF taken, refused
  <2> QED
    BY <1>0, <2>1, <2>2 DEF AllKept
<1>3. ASSUME NEW e \in batch, HandleSvrEvent(e) \/ HandleCliEvent(e)
      PROVE  AllKept'
  <2> DEFINE c == conn[e.slot]
  <2>1. c.flag /\ e.slot \in Slot /\ SlotOK(c) /\ Kept(c)
        /\ (c.fd[e.tag] \/ (e.tag = Svr /\ c.status[Svr] = "CLOSE"))
    BY <1>3, EventSide DEF HandleSvrEvent, HandleCliEvent, AllKept
  <2>2. ASSUME NEW d, Kept(d), HandleEvent(e, d)
        PROVE  AllKept'
    BY <1>0, <2>1, <2>2 DEF HandleEvent, AllKept
  <2>3. CASE HandleSvrEvent(e)
    <3>1. PICK mem \in MallocOutcomes : HandleEvent(e, SvrEvent(c, e.events, mem))
      BY <2>3 DEF HandleSvrEvent
    <3>2. mem \in BOOLEAN /\ e.tag = Svr
      BY <2>3 DEF MallocOutcomes, HandleSvrEvent
    <3> HIDE DEF c
    <3>3. Kept(SvrEvent(c, e.events, mem))
      BY <2>1, <3>2, SvrEventKept
    <3> QED
      BY <2>2, <3>1, <3>3
  <2>4. CASE HandleCliEvent(e)
    <3>1. PICK mem \in MallocOutcomes, outcome \in BuildOutcomes :
            HandleEvent(e, CliEvent(c, e.events, outcome, mem))
      BY <2>4 DEF HandleCliEvent
    <3>2. mem \in BOOLEAN /\ e.tag = Cli /\ Cli # Svr
      BY <2>4 DEF MallocOutcomes, HandleCliEvent, Cli, Svr
    <3> HIDE DEF c
    <3>3. Kept(CliEvent(c, e.events, outcome, mem))
      BY <2>1, <3>2, CliEventKept
    <3> QED
      BY <2>2, <3>1, <3>3
  <2> QED
    BY <1>3, <2>3, <2>4
<1>4. CASE TimeoutStep
  <2>1. ASSUME NEW walked, Walk(walked)
        PROVE  AllKept'
    <3>1. \A s \in Slot : Kept(FreeSession(conn[s]))
      BY <1>0, FreeSessionKept DEF AllKept, Kept
    <3> QED
      BY <2>1, <3>1 DEF Walk, Reaped, AllKept
  <2>2. conn' = conn => AllKept'
    BY DEF AllKept
  <2> QED
    BY <1>4, <2>1, <2>2 DEF TimeoutStep, TimeoutNotDue, TimeoutWalk, TimeoutSweep
<1>5. CASE PeerStep
  <2> SUFFICES ASSUME NEW s \in Slot
               PROVE  Kept(conn'[s])
    BY DEF AllKept
  <2>1. /\ conn'[s].flag = conn[s].flag /\ conn'[s].fd = conn[s].fd
        /\ conn'[s].status = conn[s].status /\ conn'[s].taken = conn[s].taken
        /\ conn'[s].gave = conn[s].gave
    BY <1>5, PeerKeeps
  <2>2. \A x \in Side : conn'[s].sock[x].out = conn[s].sock[x].out
    BY <1>5, PeerKeepsOut
  <2>3. Kept(conn[s])
    BY DEF AllKept
  <2> QED
    BY <2>1, <2>2, <2>3 DEF Kept
<1> QED
  BY <1>1, <1>2, <1>3, <1>4, <1>5
     DEF Next, HandleAgentEvent, HandleConnectionsEvent, HandleSessionTimeout,
         Dispatch, Accept

\* A free slot of the client has no history, and a session that relays has
\* the descriptors of its open sides.
THEOREM HistoryKept == Spec => []AllKept
<1>1. Inv /\ Discipline /\ AllKept /\ [Next]_vars => AllKept'
  BY KeptStep
<1> QED
  BY <1>1, KeptInit, Invariant, Disciplined, PTL DEF Spec

\* What is meant only grows while bytes flow.
LEMMA MeantGrows ==
    ASSUME NEW c \in SlotType, c.flag, Streams(c),
           NEW d \in SlotType, d.flag, Streams(d), Flows(c, d), NEW x \in Side
    PROVE  /\ StartOf(Meant(c, x), Meant(d, x))
           /\ ~c.fd[x] => Meant(d, x) = Meant(c, x)
<1> DEFINE p == PeerBytes(c, x)
           i == c.taken[x]
           j == d.taken[x]
           s1 == SubSeq(p, 1, i)
           s2 == SubSeq(p, i + 1, j)
<1>1. PeerBytes(d, x) = p /\ i <= j /\ (~c.fd[x] => j = i)
  BY DEF Flows, FlowsSide, PeerBytes
<1>2. p \in Seq(Byte) /\ i \in Nat /\ j \in Nat
  BY ThroughType
<1>3. j <= Len(p) /\ Len(p) \in Nat
  BY <1>1, <1>2, LenProperties DEF Streams, Counted
<1>4. Meant(c, x) = Translate(x, s1) /\ Meant(d, x) = Translate(x, SubSeq(p, 1, j))
  BY <1>1 DEF Meant, Taken
<1> HIDE DEF p, i, j
<1>5. s1 \in Seq(Byte) /\ s2 \in Seq(Byte) /\ s1 \o s2 = SubSeq(p, 1, j)
  <2>1. 0 \in Nat /\ 0 <= i /\ i <= Len(p) /\ 0 + 1 = 1
    BY <1>1, <1>2, <1>3
  <2>2. SubSeq(p, 0 + 1, i) \in Seq(Byte) /\ s2 \in Seq(Byte)
    BY <1>1, <1>2, <1>3, <2>1, Pieces
  <2>3. SubSeq(p, 0 + 1, i) \o s2 = SubSeq(p, 0 + 1, j)
    BY <1>1, <1>2, <1>3, <2>1, PiecesJoin
  <2> QED
    BY <2>1, <2>2, <2>3
<1>6. j = i => Meant(d, x) = Meant(c, x)
  BY <1>4
<1> HIDE DEF s1, s2
<1>7. /\ Translate(x, s1) \in Seq(Byte) /\ Translate(x, s2) \in Seq(Byte)
      /\ Translate(x, s1 \o s2) = Translate(x, s1) \o Translate(x, s2)
  BY <1>5, TranslateType, TranslateConcat
<1>8. StartOf(Translate(x, s1), Translate(x, s1) \o Translate(x, s2))
  BY <1>7, PrefixConcat
<1> QED
  BY <1>1, <1>4, <1>5, <1>6, <1>7, <1>8

MeantOf(c) == [x \in Side |-> Meant(c, x)]

\* An event takes the session of a slot from one abstract state to another.
LEMMA EventMoves ==
    ASSUME NEW c, SlotOK(c), c.flag, Settled(c), Kept(c), Streams(c),
           NEW d, SlotOK(d), d.flag, Settled(d), Kept(d), Streams(d),
           d.status[Cli] # "INIT",
           c.status[Cli] # "INIT" => Flows(c, d)
    PROVE  \/ Relayed(c, d, MeantOf(c), MeantOf(d))
           \/ \E x \in Side : HalfClosed(c, d, MeantOf(c), MeantOf(d), x)
           \/ Flushed(c, d, MeantOf(c), MeantOf(d))
<1> DEFINE m == MeantOf(c)
           n == MeantOf(d)
<1>1. Cli \in Side /\ Svr \in Side /\ c \in SlotType /\ d \in SlotType
  BY DEF Side, SlotOK
<1>2. \A x \in Side : m[x] = Meant(c, x) /\ n[x] = Meant(d, x)
  BY DEF MeantOf
<1> HIDE DEF m, n
<1>3. \A x \in Side : /\ n[x] \in Seq(Byte)
                      /\ d.fd[Other(x)] => Through(d, x) = n[x]
  BY <1>1, <1>2, ThroughIsMeant
<1>4. CASE c.status[Cli] = "INIT"
  <2>1. \A x \in Side : c.data[x] = <<>> /\ c.taken[x] = 0
    BY <1>4 DEF Streams
  <2>2. \A x \in Side : m[x] = <<>>
    BY <1>1, <1>2, <2>1, ThroughIsMeant
  <2>3. \A x \in Side : c.sock[x].out = <<>>
    <3> TAKE x \in Side
    <3>2. CASE ~c.fd[x]
      BY <3>2 DEF Kept
    <3>3. CASE c.fd[x]
      <4>1. Other(x) \in Side /\ Other(Other(x)) = x
        BY OtherSide
      <4>2. Through(c, Other(x)) = m[Other(x)]
        BY <1>1, <1>2, <3>3, <4>1, ThroughIsMeant
      <4>3. c.sock[x].out \o <<>> = <<>>
        BY <2>1, <2>2, <4>1, <4>2 DEF Through
      <4>4. c.sock[x].out \in Seq(Byte)
        BY <1>1, ThroughType
      <4> QED
        BY <4>3, <4>4, ConcatEmptySeq
    <3> QED
      BY <3>2, <3>3
  <2>4. \A s \in Seq(Byte) : StartOf(<<>>, s)
    <3> TAKE s \in Seq(Byte)
    <3>2. <<>> \in Seq(Byte) /\ <<>> \o s = s
      BY EmptySeq, ConcatEmptySeq
    <3> QED
      BY <3>2, PrefixConcat
  <2>5. \A x \in Side : StartOf(m[x], n[x])
    BY <1>3, <2>2, <2>4
  <2>6. \A x \in Side : StartOf(c.sock[x].out, d.sock[x].out)
    BY <1>1, <2>3, <2>4, ThroughType
  <2>7. Phase(c) = "waiting"
    <3>1. c.status[Svr] = "INIT" /\ ~c.fd[Svr]
      BY <1>4 DEF Settled, Begun
    <3> QED
      BY <1>4, <3>1 DEF Phase, Side
  <2>8. d.status[Cli] \in {"DATA_RELAY", "CLOSE"}
    BY DEF Streams
  <2> QED
    BY <1>3, <2>5, <2>6, <2>7, <2>8, SessionMoves DEF m, n
<1>5. CASE c.status[Cli] # "INIT"
  <2>1. Flows(c, d)
    BY <1>5
  <2>2. \A x \in Side : /\ StartOf(m[x], n[x])
                        /\ ~c.fd[x] => n[x] = m[x]
    BY <1>1, <1>2, <2>1, MeantGrows
  <2>3. \A x \in Side : d.fd[x] =>
          c.fd[x] /\ StartOf(c.sock[x].out, d.sock[x].out)
    BY <2>1 DEF Flows, FlowsSide
  <2>4. d.status[Cli] \in {c.status[Cli], "CLOSE"}
    BY <2>1 DEF Flows
  <2>5. d.status[Cli] \in {"DATA_RELAY", "CLOSE"}
    BY DEF Streams
  <2> QED
    BY <1>3, <2>2, <2>3, <2>4, <2>5, SessionMoves DEF m, n
<1> QED
  BY <1>4, <1>5

\* A free slot is a free abstract session.
LEMMA FreeView ==
    ASSUME NEW c, SlotOK(c), Kept(c), ~c.flag
    PROVE  /\ Phase(c) = "free" /\ ClosedSide(c) = "nobody"
           /\ \A x \in Side : Meant(c, x) = <<>> /\ Delivered(c, x) = <<>>
<1>1. Phase(c) = "free" /\ ClosedSide(c) = "nobody"
  BY DEF Phase, ClosedSide
<1>2. ASSUME NEW x \in Side
      PROVE  Meant(c, x) = <<>> /\ Delivered(c, x) = <<>>
  <2>1. c.taken[x] = 0 /\ Other(x) \in Side
    BY OtherSide DEF Kept
  <2>2. Delivered(c, x) = <<>>
    BY <2>1 DEF Kept, Delivered, SlotOK, SlotHoldsWhatItOwns
  <2>3. SubSeq(PeerBytes(c, x), 1, 0) = <<>>
    BY SubSeqEmpty
  <2> QED
    BY <2>1, <2>2, <2>3, TranslateNothing DEF Meant, Taken
<1> QED
  BY <1>1, <1>2

\* Steps of a slot and steps of its abstract session.
LEMMA SameSession ==
    ASSUME NEW s \in Slot, Phase(conn'[s]) = Phase(conn[s]),
           ClosedSide(conn'[s]) = ClosedSide(conn[s]),
           \A x \in Side : Meant(conn'[s], x) = Meant(conn[s], x),
           \A x \in Side : Delivered(conn'[s], x) = Delivered(conn[s], x)
    PROVE  Promise!Same(s)
BY DEF Promise!Same, Delivered

\* A slot handed out,
LEMMA OpenedSession ==
    ASSUME NEW s \in Slot, Phase(conn[s]) = "free",
           Phase(conn'[s]) = "waiting",
           ClosedSide(conn'[s]) = ClosedSide(conn[s]),
           \A x \in Side : Meant(conn'[s], x) = Meant(conn[s], x),
           \A x \in Side : Delivered(conn'[s], x) = Delivered(conn[s], x)
    PROVE  Promise!Step(s)
BY DEF Promise!Step, Promise!Open, Delivered

\* a session freed,
LEMMA ClosedSession ==
    ASSUME NEW s \in Slot, Phase(conn[s]) # "free",
           Phase(conn'[s]) = "free", ClosedSide(conn'[s]) = "nobody",
           \A x \in Side : Meant(conn'[s], x) = <<>>,
           \A x \in Side : Delivered(conn'[s], x) = <<>>
    PROVE  Promise!Step(s)
BY DEF Promise!Step, Promise!Close, Promise!Nothing, Delivered

\* and a session in which bytes flow are steps of the abstract session.
LEMMA MovedSession ==
    ASSUME NEW s \in Slot,
           LET c == conn[s]
               d == conn'[s]
           IN  \/ Relayed(c, d, MeantOf(c), MeantOf(d))
               \/ \E x \in Side : HalfClosed(c, d, MeantOf(c), MeantOf(d), x)
               \/ Flushed(c, d, MeantOf(c), MeantOf(d))
    PROVE  Promise!Step(s)
<1> DEFINE c == conn[s]
           d == conn'[s]
           m == [x \in Side |-> Meant(c, x)]
           n == [x \in Side |-> Meant(d, x)]
           o == [x \in Side |-> c.sock[Other(x)].out]
           p == [x \in Side |-> d.sock[Other(x)].out]
<1>1. /\ MeantOf(c) = m /\ MeantOf(d) = n
      /\ \A x \in Side : Delivered(c, x) = o[x] /\ Delivered(d, x) = p[x]
  BY DEF MeantOf, Delivered
<1> HIDE DEF m, n, o, p
<1>0. \A t, u : Promise!StartOf(t, u) <=> StartOf(t, u)
  BY DEF Promise!StartOf, StartOf
<1>2. ASSUME InOrderNow(d, n) PROVE \A x \in Side : StartOf(p[x], n[x])
  BY <1>1, <1>2 DEF InOrderNow
<1>3. Promise!InOrder(s) <=> \A x \in Side : StartOf(p[x], n[x])
  BY <1>0 DEF Promise!InOrder, p, n
<1>4. CASE Relayed(c, d, m, n)
  <2>1. Promise!Extends(m, n, Side) /\ Promise!Extends(o, p, Side)
    BY <1>0, <1>1, <1>4 DEF Promise!Extends, Relayed
  <2>2. Promise!Relay(s)
    BY <1>2, <1>3, <1>4, <2>1 DEF Promise!Relay, Relayed, m, n, o, p
  <2> QED
    BY <2>2 DEF Promise!Step
<1>5. ASSUME NEW x \in Side, HalfClosed(c, d, m, n, x)
      PROVE  Promise!Step(s)
  <2>1. Promise!Extends(m, n, Side) /\ Promise!Extends(o, p, {x})
    BY <1>0, <1>1, <1>5 DEF Promise!Extends, HalfClosed
  <2>2. p[x] # n[x] /\ \A y \in Side \ {x} : p[y] = <<>>
    BY <1>1, <1>5 DEF HalfClosed
  <2>3. Promise!HalfClose(s, x)
    BY <1>2, <1>3, <1>5, <2>1, <2>2 DEF Promise!HalfClose, HalfClosed, m, n, o, p
  <2> QED
    BY <2>3 DEF Promise!Step
<1>6. CASE Flushed(c, d, m, n)
  <2> DEFINE x == ClosedSide(c)
  <2>0. x \in Side
    BY <1>6 DEF Flushed
  <2>1. Promise!Extends(m, n, Side) /\ Promise!Extends(o, p, {x})
    BY <1>0, <1>1, <1>6 DEF Promise!Extends, Flushed
  <2>2. /\ p[x] # n[x] /\ \A y \in Side \ {x} : p[y] = <<>>
        /\ n[x] = m[x]
    BY <1>1, <1>6 DEF Flushed
  <2>3. Promise!Flush(s)
    BY <1>2, <1>3, <1>6, <2>1, <2>2 DEF Promise!Flush, Flushed, m, n, o, p
  <2> QED
    BY <2>3 DEF Promise!Step
<1> QED
  BY <1>1, <1>4, <1>5, <1>6

\* Everything that is known of the client's slots.
Sound == Inv /\ Discipline /\ Streaming /\ AllKept

\* What Sound says of a slot before a step,
LEMMA SoundSlot ==
    ASSUME Sound, NEW s \in Slot
    PROVE  /\ SlotOK(conn[s]) /\ Settled(conn[s]) /\ Streams(conn[s])
           /\ Kept(conn[s])
BY InvSlots DEF Sound, Discipline, Streaming, AllKept

\* and after it.
LEMMA SoundSlotAfter ==
    ASSUME Sound', NEW s \in Slot
    PROVE  /\ SlotOK(conn'[s]) /\ Settled(conn'[s]) /\ Streams(conn'[s])
           /\ Kept(conn'[s])
BY DEF Sound, Inv, TypeOK, NoLeak, SlotOK, Discipline, Streaming, AllKept

\* A slot that is freed, or free and left alone, or refused to a browser.
LEMMA FreedSession ==
    ASSUME Sound, Sound', NEW s \in Slot, ~conn'[s].flag
    PROVE  Promise!Same(s) \/ Promise!Step(s)
<1>1. /\ Phase(conn'[s]) = "free" /\ ClosedSide(conn'[s]) = "nobody"
      /\ \A x \in Side : /\ Meant(conn'[s], x) = <<>>
                          /\ Delivered(conn'[s], x) = <<>>
  BY SoundSlotAfter, FreeView
<1>2. CASE conn[s].flag
  <2>1. Phase(conn[s]) # "free"
    BY <1>2, SoundSlot, PhaseOfSettled
  <2> QED
    BY <1>1, <2>1, ClosedSession
<1>3. CASE ~conn[s].flag
  <2>1. /\ Phase(conn[s]) = "free" /\ ClosedSide(conn[s]) = "nobody"
        /\ \A x \in Side : Meant(conn[s], x) = <<>> /\ Delivered(conn[s], x) = <<>>
    BY <1>3, SoundSlot, FreeView
  <2> QED
    BY <1>1, <2>1, SameSession
<1> QED
  BY <1>2, <1>3

\* A step of the client is, for each slot, a step of its abstract session or
\* none at all.
LEMMA PromiseStep ==
    ASSUME Sound, Sound', [Next]_vars, NEW s \in Slot
    PROVE  Promise!Same(s) \/ Promise!Step(s)
<1>0. conn \in [Slot -> SlotType]
  BY DEF Sound, Inv, TypeOK
<1>1. ASSUME conn'[s] = conn[s]
      PROVE  Promise!Same(s)
  BY <1>1, SameSession
<1>2. CASE AgentStep \/ EpollWait \/ WaitInterrupted \/ UNCHANGED vars
           \/ \E e \in batch : SkipEvent(e)
  <2>1. conn' = conn
    BY <1>2 DEF AgentStep, AgentInterrupted, AgentNoSession, AgentRefuses,
                EpollWait, WaitInterrupted, SkipEvent, vars
  <2> QED
    BY <1>1, <2>1
<1>3. ASSUME NEW d \in Elapsed, NEW q \in Requests, NEW registered \in BOOLEAN,
             AgentAccepts(d, InitSession(q), registered), conn'[s].flag
      PROVE  Promise!Same(s) \/ Promise!Step(s)
  <2> DEFINE taken == Accepted(InitSession(q))
             refused == FreeSession([InitSession(q) EXCEPT
                          !.fd[Cli] = TRUE, !.sock[Cli] = NewSocket("est")])
  <2>1. conn' = [conn EXCEPT ![FirstFree] = IF registered THEN taken ELSE refused]
    BY <1>3 DEF AgentAccepts
  <2>2. /\ Phase(taken) = "waiting" /\ \A x \in Side : taken.sock[x].out = <<>>
        /\ taken.taken = [x \in Side |-> 0]
        /\ taken.status = [x \in Side |-> "INIT"] /\ taken.flag
    <3>1. /\ taken.taken = [x \in Side |-> 0]
          /\ taken.status = [x \in Side |-> "INIT"]
      BY InitSessionKept, AcceptedCounted
    <3>2. taken.flag
      BY InitSessionKept, AcceptedKept DEF Phase
    <3> QED
      BY <3>1, <3>2, InitSessionKept, AcceptedKept
  <2>3. ~refused.flag
    BY InitSessionKept, RefusedFreed
  <2>4. FirstFree \in Slot /\ ~conn[FirstFree].flag
    BY <1>3, FirstFreeIsFree DEF AgentAccepts, Sound, Inv, TypeOK
  <2> HIDE DEF taken, refused
  <2>5. CASE s # FirstFree
    BY <1>0, <1>1, <2>1, <2>5
  <2>6. CASE s = FirstFree
    <3>1. conn'[s] = taken
      BY <1>0, <1>3, <2>1, <2>3, <2>6
    <3>2. /\ Phase(conn[s]) = "free" /\ ClosedSide(conn[s]) = "nobody"
          /\ \A x \in Side : Meant(conn[s], x) = <<>> /\ Delivered(conn[s], x) = <<>>
      BY <2>4, <2>6, SoundSlot, FreeView
    <3>3. ClosedSide(taken) = "nobody"
      BY <2>2 DEF ClosedSide
    <3>4. \A x \in Side : Meant(taken, x) = <<>>
      <4> TAKE x \in Side
      <4>1. taken.taken[x] = 0
        BY <2>2
      <4>2. SubSeq(PeerBytes(taken, x), 1, 0) = <<>>
        BY SubSeqEmpty
      <4> QED
        BY <4>1, <4>2, TranslateNothing DEF Meant, Taken
    <3>5. \A x \in Side : Delivered(taken, x) = <<>>
      BY <2>2, OtherSide DEF Delivered
    <3> QED
      BY <2>2, <3>1, <3>2, <3>3, <3>4, <3>5, OpenedSession
  <2> QED
    BY <2>5, <2>6
<1>4. ASSUME NEW e \in batch, HandleSvrEvent(e) \/ HandleCliEvent(e),
             conn'[s].flag
      PROVE  Promise!Same(s) \/ Promise!Step(s)
  <2>1. CASE s # e.slot
    <3>1. conn'[s] = conn[s]
      BY <1>0, <1>4, <2>1 DEF HandleSvrEvent, HandleCliEvent, HandleEvent
    <3> QED
      BY <1>1, <3>1
  <2>2. CASE s = e.slot
    <3> DEFINE c == conn[s]
               d == conn'[s]
    <3>1. /\ c.flag
          /\ (c.fd[e.tag] \/ (e.tag = Svr /\ c.status[Svr] = "CLOSE"))
      BY <1>4, <2>2, EventSide DEF HandleSvrEvent, HandleCliEvent, Sound
    <3>2. /\ SlotOK(c) /\ Settled(c) /\ Streams(c) /\ Kept(c)
          /\ SlotOK(d) /\ Settled(d) /\ Streams(d) /\ Kept(d)
      BY SoundSlot, SoundSlotAfter
    <3>3. d.status[Cli] # "INIT" /\ (c.status[Cli] # "INIT" => Flows(c, d))
      <4>1. CASE HandleSvrEvent(e)
        <5>1. PICK mem \in MallocOutcomes : d = SvrEvent(c, e.events, mem)
          BY <1>0, <2>2, <4>1 DEF HandleSvrEvent, HandleEvent
        <5>2. mem \in BOOLEAN /\ e.tag = Svr
          BY <4>1 DEF MallocOutcomes, HandleSvrEvent
        <5> HIDE DEF c, d
        <5>3. c.fd[Svr] \/ c.status[Svr] = "CLOSE"
          BY <3>1, <5>2
        <5>4. c.status[Cli] # "INIT"
          BY <3>1, <3>2, <5>3 DEF Settled, Begun
        <5>5. Flows(c, d)
          BY <3>1, <3>2, <5>1, <5>2, <5>3, SvrEventFlows DEF Streams
        <5>6. d.flag
          BY <1>4 DEF d
        <5> QED
          BY <5>4, <5>5, <5>6 DEF Flows
      <4>2. CASE HandleCliEvent(e)
        <5>1. PICK mem \in MallocOutcomes, outcome \in BuildOutcomes :
                d = CliEvent(c, e.events, outcome, mem)
          BY <1>0, <2>2, <4>2 DEF HandleCliEvent, HandleEvent
        <5>2. mem \in BOOLEAN /\ e.tag = Cli /\ Cli # Svr
          BY <4>2 DEF MallocOutcomes, HandleCliEvent, Cli, Svr
        <5>3. d.flag
          BY <1>4
        <5> HIDE DEF c, d
        <5>4. c.fd[Cli]
          BY <3>1, <5>2
        <5> QED
          BY <3>1, <3>2, <5>1, <5>2, <5>3, <5>4, CliEventStreams
      <4> QED
        BY <1>4, <4>1, <4>2
    <3>4. d.flag
      BY <1>4
    <3> HIDE DEF c, d
    <3>5. \/ Relayed(c, d, MeantOf(c), MeantOf(d))
          \/ \E x \in Side : HalfClosed(c, d, MeantOf(c), MeantOf(d), x)
          \/ Flushed(c, d, MeantOf(c), MeantOf(d))
      BY <3>1, <3>2, <3>3, <3>4, EventMoves
    <3> QED
      BY <3>5, MovedSession DEF c, d
  <2> QED
    BY <2>1, <2>2
<1>5. CASE TimeoutStep /\ conn'[s].flag
  <2>1. conn'[s] = conn[s]
    <3>1. \A c : SlotOK(c) => ~FreeSession(c).flag
      BY FreeSessionOK
    <3>2. SlotOK(conn[s])
      BY SoundSlot
    <3> QED
      BY <1>5, <3>1, <3>2 DEF TimeoutStep, TimeoutNotDue, TimeoutWalk,
                              TimeoutSweep, Walk, Reaped
  <2> QED
    BY <1>1, <2>1
<1>6. CASE PeerStep /\ conn'[s].flag
  <2>1. /\ conn[s].flag /\ conn'[s].flag = conn[s].flag
        /\ conn'[s].fd = conn[s].fd /\ conn'[s].status = conn[s].status
        /\ conn'[s].taken = conn[s].taken /\ conn'[s].req = conn[s].req
    BY <1>6, PeerKeeps DEF Sound
  <2>2. \A x \in Side : conn'[s].sock[x].out = conn[s].sock[x].out
    BY <1>6, PeerKeepsOut DEF Sound
  <2>3. /\ Phase(conn'[s]) = Phase(conn[s])
        /\ ClosedSide(conn'[s]) = ClosedSide(conn[s])
    BY <2>1 DEF Phase, ClosedSide
  <2>4. \A x \in Side : Meant(conn'[s], x) = Meant(conn[s], x)
    BY <2>1 DEF Meant, Taken, PeerBytes
  <2>5. \A x \in Side : Delivered(conn'[s], x) = Delivered(conn[s], x)
    BY <2>2, OtherSide DEF Delivered
  <2> QED
    BY <2>3, <2>4, <2>5, SameSession
<1>7. CASE ~conn'[s].flag
  BY <1>7, FreedSession
<1> QED
  BY <1>2, <1>3, <1>4, <1>5, <1>6, <1>7
     DEF Next, HandleAgentEvent, HandleConnectionsEvent, HandleSessionTimeout,
         Dispatch, Accept

\* At the start every abstract session is free.
LEMMA PromiseInit == Init => Promise!Init
<1> SUFFICES ASSUME Init, NEW s \in Slot
             PROVE  /\ Phase(conn[s]) = "free" /\ ClosedSide(conn[s]) = "nobody"
                    /\ \A x \in Side : /\ Meant(conn[s], x) = <<>>
                                       /\ conn[s].sock[Other(x)].out = <<>>
  BY DEF Promise!Init, Promise!Nothing
<1>1. Sound
  BY InitOK, DisciplineInit, StreamingInit, KeptInit DEF Sound
<1>2. ~conn[s].flag
  BY DEF Init, EmptySlot
<1> QED
  BY <1>1, <1>2, SoundSlot, FreeView DEF Delivered

\* The client implements ProxySession: every slot, through all interleavings
\* of events, peers, failures and timeouts, goes through sessions that wait,
\* relay, flush what is left after one side has closed, and end; and hands
\* over, in order, what it was meant to.
THEOREM PromiseKept == Spec => KeepsPromise
<1>1. Init => Promise!Init
  BY PromiseInit
<1>2. Sound /\ Sound' /\ [Next]_vars => [Promise!Next]_(Promise!sessions)
  BY PromiseStep DEF Promise!Next
<1>3. Spec => []Sound
  BY Invariant, Disciplined, Streamed, HistoryKept, PTL DEF Sound
<1> QED
  BY <1>1, <1>2, <1>3, PTL DEF Spec, KeepsPromise, Promise!Spec

-----------------------------------------------------------------------------
(* How an event may end a session.                                          *)

\* Side x is at its end, and nothing read from it has to wait for the other.
EndsAt(c, x) ==
    /\ c.sock[x].fin /\ c.sock[x].rx = <<>>
    /\ ~c.fd[Other(x)] \/ c.data[x] = <<>>

\* Between slots c and d, side x was given all that a closed side had left.
FlushedBy(c, d, x) ==
    ~c.fd[Other(x)] /\ d.gave[x] = c.gave[x] \o c.data[Other(x)]

\* A side is not closed as long as something read from it can be flushed.
LEMMA CloseSideStays ==
    ASSUME NEW c \in SlotType, c.flag, NEW x \in Side, c.fd[Other(x)],
           c.data[x] # <<>>
    PROVE  CloseSide(c, x).flag
<1> DEFINE o == Other(x)
           emptied == [c EXCEPT !.data[o] = <<>>]
           shut == IF c.fd[x] THEN CloseFd(emptied, x) ELSE c
<1>1. o \in Side /\ o # x
  BY OtherSide
<1>2. /\ emptied.flag /\ emptied.fd = c.fd /\ emptied.data[x] = c.data[x]
  BY <1>1 DEF SlotType
<1>3. shut.flag /\ shut.fd[o] /\ shut.data[x] # <<>>
  BY <1>1, <1>2 DEF CloseFd, SlotType
<1>4. CloseSide(c, x) = EpollMod(shut, o, {EPOLLOUT}, Svr)
  BY <1>3 DEF CloseSide
<1> HIDE DEF shut
<1> QED
  BY <1>3, <1>4 DEF EpollMod, EpollAdd

\* A write that empties the queue has given the side all of it.
LEMMA WritesAll ==
    ASSUME NEW c \in SlotType, NEW x \in Side,
           Written(c, x).data[Other(x)] = <<>>
    PROVE  Written(c, x).gave[x] = c.gave[x] \o c.data[Other(x)]
<1> DEFINE q == c.data[Other(x)]
           n == Writes(c, x)
           front == SubSeq(q, 1, n)
           rest == SubSeq(q, n + 1, Len(q))
<1>1. Other(x) \in Side /\ Other(x) # x
  BY OtherSide
<1>2. q \in Seq(Byte) /\ n \in Nat /\ n <= Len(q)
  BY WritesBounds
<1>3. Written(c, x).data[Other(x)] = rest
  BY <1>1 DEF Written, SlotType
<1>4. Written(c, x).gave[x] = c.gave[x] \o front
  BY DEF Written, SlotType
<1> HIDE DEF q, n
<1>5. front \in Seq(Byte) /\ front \o rest = q
  BY <1>2, Piece, PiecesWhole
<1>6. front = q
  BY <1>3, <1>5, ConcatEmptySeq
<1> QED
  BY <1>4, <1>6 DEF q

\* What a write leaves of the slot.
LEMMA WrittenLeaves ==
    ASSUME NEW c \in SlotType, NEW x \in Side
    PROVE  LET d == Written(c, x) IN
           /\ d.sock[x].rx = c.sock[x].rx /\ d.sock[x].fin = c.sock[x].fin
           /\ d.sock[x].rst = c.sock[x].rst
           /\ d.data[x] = c.data[x]
           /\ d.gave[Other(x)] = c.gave[Other(x)]
<1>1. Other(x) \in Side /\ Other(x) # x /\ c.sock[x] \in SocketType
  BY OtherSide DEF SlotType
<1> QED
  BY <1>1 DEF Written, SlotType, SocketType

\* Nothing is given to anybody when a session is freed,
LEMMA FreeSessionGivesNobody ==
    ASSUME NEW c \in SlotType
    PROVE  FreeSession(c).gave = c.gave
<1> DEFINE freed == [c EXCEPT !.data = [x \in Side |-> <<>>],
                              !.taken = [x \in Side |-> 0]]
           shut1 == IF c.fd[Cli] THEN CloseFd(freed, Cli) ELSE freed
           shut2 == IF c.fd[Svr] THEN CloseFd(shut1, Svr) ELSE shut1
<1>1. Cli \in Side /\ Svr \in Side /\ <<>> \in Seq(Byte)
  BY EmptySeq DEF Side
<1>2. freed \in SlotType /\ freed.gave = c.gave
  BY <1>1 DEF SlotType
<1> HIDE DEF freed
<1>3. shut1 \in SlotType /\ shut1.gave = c.gave
  BY <1>1, <1>2, CloseFdProperties
<1> HIDE DEF shut1
<1>4. shut2 \in SlotType /\ shut2.gave = c.gave
  BY <1>1, <1>3, CloseFdProperties
<1> HIDE DEF shut2
<1>5. [shut2 EXCEPT !.h = FALSE, !.head = <<>>, !.flag = FALSE].gave = c.gave
  BY <1>4 DEF SlotType
<1> QED
  BY <1>5 DEF FreeSession, freed, shut1, shut2

\* when a side is closed,
LEMMA CloseSideGivesNobody ==
    ASSUME NEW c \in SlotType, NEW x \in Side
    PROVE  CloseSide(c, x).gave = c.gave
<1> DEFINE o == Other(x)
           emptied == [c EXCEPT !.data[o] = <<>>]
           shut == IF c.fd[x] THEN CloseFd(emptied, x) ELSE c
           Same(d) == d.gave = c.gave
<1>1. o \in Side /\ <<>> \in Seq(Byte)
  BY OtherSide, EmptySeq
<1>2. emptied \in SlotType /\ emptied.gave = c.gave
  BY <1>1 DEF SlotType
<1> HIDE DEF emptied
<1>3. shut \in SlotType /\ shut.gave = c.gave
  BY <1>2, CloseFdProperties
<1>4. CloseSide(c, x) \in {EpollMod(shut, o, {EPOLLOUT}, Svr), FreeSession(shut)}
  BY DEF CloseSide, emptied
<1> HIDE DEF shut
<1>5. Same(EpollMod(shut, o, {EPOLLOUT}, Svr))
  BY <1>3 DEF EpollMod, EpollAdd, SlotType
<1>6. Same(FreeSession(shut))
  BY <1>3, FreeSessionGivesNobody
<1>7. Same(CloseSide(c, x))
  <2> HIDE DEF Same
  <2> QED
    BY <1>4, <1>5, <1>6
<1> QED
  BY <1>7 DEF Same

\* in the tail of an event,
LEMMA FinishGivesNobody ==
    ASSUME NEW r, SlotOK(r.slot), NEW x
    PROVE  Finish(r, x).gave = r.slot.gave
<1> DEFINE c == r.slot
           Same(d) == d.gave = c.gave
<1>1. Same(c) /\ \A y \in Side : Same(CloseSide(c, y))
  BY CloseSideGivesNobody DEF SlotOK
<1>2. Same(EpollSessionMod(c))
  <2>1. CASE c.flag
    BY <2>1, EpollSessionModKeeps
  <2>2. CASE ~c.flag
    BY <2>2 DEF EpollSessionMod
  <2> QED
    BY <2>1, <2>2
<1>3. Same(Finish(r, x))
  <2> HIDE DEF Same
  <2> QED
    BY <1>1, <1>2 DEF Finish, OnSessionClose
<1> QED
  BY <1>3 DEF Same

\* and by a read().
LEMMA ReadSideGivesNobody ==
    ASSUME NEW c \in SlotType, NEW x, NEW mem
    PROVE  ReadSide(c, x, mem).slot.gave = c.gave
<1> DEFINE Same(d) == d.gave = c.gave
<1>1. Same(c) /\ Same(Filled(c, x)) /\ Same(Ended(c, x))
  BY DEF Filled, Ended, SlotType
<1>2. Same(FreeSession(c))
  BY FreeSessionGivesNobody
<1>3. Same(ReadSide(c, x, mem).slot)
  <2> HIDE DEF Same
  <2> QED
    BY <1>1, <1>2, ReadSideCases DEF Return
<1> QED
  BY <1>3 DEF Same

\* A session goes on after an event that neither freed it nor closed its side.
LEMMA FinishGoesOn ==
    ASSUME NEW c, SlotOK(c), c.flag, NEW x \in Side, c.status[x] # "CLOSE"
    PROVE  Finish(Return(0, c), x).flag
BY EpollSessionModFlag DEF Finish, Return, SlotOK

\* How a read() may end a session of an open side.
LEMMA ReadEnds ==
    ASSUME NEW c, SlotOK(c), c.flag, NEW x \in Side, Midway(c, x),
           c.status[x] # "CLOSE", ~c.sock[x].rst, NEW mem \in BOOLEAN,
           ~Finish(ReadSide(c, x, mem), x).flag
    PROVE  (~mem /\ c.sock[x].rx # <<>>) \/ EndsAt(c, x)
<1> DEFINE ended == Ended(c, x)
<1>1. c \in SlotType /\ Other(x) \in Side /\ Other(x) # x
  BY OtherSide DEF SlotOK
<1>2. SUFFICES ASSUME mem \/ c.sock[x].rx = <<>>
               PROVE  EndsAt(c, x)
  OBVIOUS
<1>3. \/ ReadSide(c, x, mem) = Return(0, Filled(c, x))
      \/ /\ c.sock[x].rx = <<>> /\ c.sock[x].fin
         /\ ReadSide(c, x, mem) = Return(0, ended)
      \/ ReadSide(c, x, mem) = Return(0, c)
  BY <1>2 DEF ReadSide, Filled, Reads, Ended
<1>4. Finish(Return(0, c), x).flag
  BY FinishGoesOn
<1>5. Finish(Return(0, Filled(c, x)), x).flag
  BY FilledOK, FinishGoesOn
<1>6. c.sock[x].rx = <<>> /\ c.sock[x].fin /\ ~Finish(Return(0, ended), x).flag
  BY <1>3, <1>4, <1>5
<1>7. /\ ended \in SlotType /\ ended.flag /\ ended.status[x] = "CLOSE"
      /\ ended.event_fd = x /\ ended.fd = c.fd /\ ended.data = c.data
  BY <1>1, EndedOK DEF Ended, SlotOK, SlotType, Midway
<1> HIDE DEF ended
<1>8. Finish(Return(0, ended), x) = CloseSide(ended, x)
  BY <1>7 DEF Finish, Return, OnSessionClose
<1> QED
  BY <1>6, <1>7, <1>8, CloseSideStays DEF EndsAt

\* How relaying for an open side may end a session.
LEMMA RelayEnds ==
    ASSUME NEW c, SlotOK(c), c.flag, NEW x \in Side, Midway(c, x),
           c.status[x] # "CLOSE", ~c.sock[x].rst,
           NEW events, NEW mem \in BOOLEAN,
           ~Finish(OnDataRelay(c, x, events, mem), x).flag
    PROVE  LET d == Finish(OnDataRelay(c, x, events, mem), x) IN
           /\ d.gave[Other(x)] = c.gave[Other(x)]
           /\ \/ ~mem /\ c.sock[x].rx # <<>>
              \/ EndsAt(c, x)
              \/ FlushedBy(c, d, x)
<1> DEFINE d == Finish(OnDataRelay(c, x, events, mem), x)
           written == Written(c, x)
           w == IF EPOLLOUT \in events THEN WriteSide(c, x) ELSE Return(0, c)
           m == w.slot
<1>1. c \in SlotType /\ Other(x) \in Side /\ Other(x) # x
  BY OtherSide DEF SlotOK
<1>2. /\ SlotOK(written) /\ written.flag
      /\ written.fd = c.fd /\ written.status = c.status
  BY WrittenOK
<1>3. \/ /\ written.data[Other(x)] = <<>> /\ ~c.fd[Other(x)]
         /\ WriteSide(c, x) = Return(0, FreeSession(written))
      \/ WriteSide(c, x) = Return(0, written)
  BY <1>2 DEF WriteSide, Written, Writes
<1>4. /\ written.gave[Other(x)] = c.gave[Other(x)]
      /\ written \in SlotType
  BY <1>1, <1>2, WrittenLeaves DEF SlotOK
<1>5. CASE w \notin {Return(0, written), Return(0, c)}
  <2> DEFINE ended == FreeSession(written)
  <2>1. /\ written.data[Other(x)] = <<>> /\ ~c.fd[Other(x)]
        /\ w = Return(0, ended)
    BY <1>3, <1>5
  <2>2. SlotOK(ended) /\ ~ended.flag
    BY <1>2, FreeSessionOK
  <2>3. ended.gave = written.gave
    BY <1>4, FreeSessionGivesNobody
  <2>4. written.gave[x] = c.gave[x] \o c.data[Other(x)]
    BY <1>1, <2>1, WritesAll
  <2> HIDE DEF ended
  <2>5. d = Finish(w, x) /\ w.slot = ended
    BY <2>1, <2>2 DEF OnDataRelay, Return
  <2>6. d.gave = written.gave
    BY <2>2, <2>3, <2>5, FinishGivesNobody
  <2> QED
    BY <1>4, <2>1, <2>4, <2>6 DEF FlushedBy
<1>6. CASE w \in {Return(0, written), Return(0, c)}
  <2>1. /\ w = Return(0, m) /\ SlotOK(m) /\ m.flag
        /\ m.fd = c.fd /\ m.status = c.status
        /\ m.sock[x].rx = c.sock[x].rx /\ m.sock[x].fin = c.sock[x].fin
        /\ m.sock[x].rst = c.sock[x].rst /\ m.data[x] = c.data[x]
        /\ m.gave[Other(x)] = c.gave[Other(x)]
    BY <1>1, <1>2, <1>4, <1>6, WrittenLeaves DEF Return
  <2>2. Midway(m, x)
    BY <1>1, <1>6, <2>1, WriteSideMidway DEF Return
  <2>3. OnDataRelay(c, x, events, mem) \in {w, ReadSide(m, x, mem)}
    BY DEF OnDataRelay
  <2> HIDE DEF w, m
  <2>4. Finish(w, x).flag
    BY <2>1, FinishGoesOn
  <2>5. d = Finish(ReadSide(m, x, mem), x) /\ ~d.flag
    BY <2>3, <2>4
  <2>6. (~mem /\ m.sock[x].rx # <<>>) \/ EndsAt(m, x)
    BY <2>1, <2>2, <2>5, ReadEnds
  <2>7. d.gave = m.gave
    <3>1. SlotOK(ReadSide(m, x, mem).slot)
      BY <2>1, ReadSideOK
    <3>2. ReadSide(m, x, mem).slot.gave = m.gave
      BY <2>1, ReadSideGivesNobody DEF SlotOK
    <3> QED
      BY <2>5, <3>1, <3>2, FinishGivesNobody
  <2> QED
    BY <2>1, <2>6, <2>7 DEF EndsAt
<1> QED
  BY <1>5, <1>6

\* How an event of the far side may end a session.
LEMMA SvrEventEnds ==
    ASSUME NEW c, SlotOK(c), c.flag, Settled(c), NEW events, NEW mem \in BOOLEAN,
           c.fd[Svr] \/ c.status[Svr] = "CLOSE",
           ~c.sock[Svr].rst, ~SvrEvent(c, events, mem).flag
    PROVE  LET d == SvrEvent(c, events, mem) IN
           /\ c.fd[Svr] /\ d.gave[Cli] = c.gave[Cli]
           /\ \/ ~mem /\ c.sock[Svr].rx # <<>>
              \/ EndsAt(c, Svr)
              \/ FlushedBy(c, d, Svr)
<1> DEFINE a == [c EXCEPT !.event_fd = Svr]
           up == [a EXCEPT !.status[Svr] = IF @ = "INIT" THEN "DATA_RELAY" ELSE @]
           r == OnDataRelay(up, Svr, Effective(events), mem)
           d == SvrEvent(c, events, mem)
<1>1. /\ Svr \in Side /\ Other(Svr) \in Side /\ c \in SlotType
      /\ Flushes(c, Svr) /\ Other(Svr) = Cli
  BY OtherSide DEF Side, SlotOK, Settled, Other, Cli, Svr
<1>2. SlotOK(up) /\ up.flag
  BY <1>1 DEF SlotOK, SlotType, Status, SlotHoldsWhatItOwns
<1>3. /\ up.event_fd = Svr /\ up.fd = c.fd /\ up.data = c.data
      /\ up.sock = c.sock /\ up.gave = c.gave /\ up \in SlotType
      /\ \A y \in Side : y # Svr => up.status[y] = c.status[y]
      /\ up.status[Svr] = IF c.status[Svr] = "INIT" THEN "DATA_RELAY"
                          ELSE c.status[Svr]
  BY <1>1, <1>2 DEF SlotType, SlotOK
<1>4. d = IF up.status[Svr] = "DATA_RELAY"
          THEN Finish(r, Svr)
          ELSE Finish(Return(0, up), Svr)
  BY <1>1 DEF SvrEvent, SlotType
<1> HIDE DEF a, up
<1>5. up.status[Svr] # "CLOSE"
  <2>1. SUFFICES ASSUME up.status[Svr] = "CLOSE" PROVE FALSE
    OBVIOUS
  <2>2. c.status[Svr] = "CLOSE"
    BY <1>3, <2>1
  <2>3. Finish(Return(0, up), Svr) = CloseSide(up, Svr)
    BY <1>1, <1>2, <1>3, <2>1 DEF Finish, Return, OnSessionClose
  <2>4. CloseSide(up, Svr).flag
    BY <1>1, <1>2, <1>3, <2>2, CloseSideStays DEF Flushes
  <2> QED
    BY <1>4, <2>1, <2>3, <2>4
<1>6. up.status[Svr] = "DATA_RELAY" /\ ~Finish(r, Svr).flag
  BY <1>1, <1>2, <1>4, <1>5, FinishGoesOn
<1>7. c.fd[Svr]
  BY <1>3, <1>5
<1>8. Midway(up, Svr)
  BY <1>1, <1>3, <1>7, SettledMidway
<1>9. d = Finish(r, Svr)
  BY <1>4, <1>6
<1>10. /\ d.gave[Cli] = up.gave[Cli]
       /\ \/ ~mem /\ up.sock[Svr].rx # <<>>
          \/ EndsAt(up, Svr)
          \/ FlushedBy(up, d, Svr)
  BY <1>1, <1>2, <1>3, <1>5, <1>6, <1>8, <1>9, RelayEnds
<1> QED
  BY <1>3, <1>7, <1>10 DEF EndsAt, FlushedBy

\* How an event of the browser may end a session.
LEMMA CliEventEnds ==
    ASSUME NEW c, SlotOK(c), c.flag, Settled(c), Kept(c), c.fd[Cli],
           NEW events, NEW outcome \in BuildOutcomes, NEW mem \in MallocOutcomes,
           ~c.sock[Cli].rst, ~CliEvent(c, events, outcome, mem).flag
    PROVE  LET d == CliEvent(c, events, outcome, mem) IN
           \/ Faults /\ (c.status[Cli] = "INIT" \/ c.sock[Cli].rx # <<>>)
           \/ EndsAt(c, Cli) /\ (c.fd[Svr] => d.gave[Svr] = c.gave[Svr])
           \/ FlushedBy(c, d, Cli) /\ c.status[Svr] = "CLOSE"
<1> DEFINE a == [c EXCEPT !.event_fd = Cli]
           d == CliEvent(c, events, outcome, mem)
           begun == [a EXCEPT !.status[Cli] = "BUILD_SVR"]
<1>1. /\ Cli \in Side /\ Svr \in Side /\ Other(Cli) = Svr
      /\ c \in SlotType /\ Flushes(c, Cli) /\ c.status[Cli] # "CLOSE"
  BY DEF Side, Cli, Svr, Other, SlotOK, Settled, Flushes
<1>2. mem \in BOOLEAN /\ (~mem => Faults)
  BY DEF MallocOutcomes
<1>3. /\ SlotOK(a) /\ a.flag /\ a.event_fd = Cli /\ a.fd = c.fd
      /\ a.status = c.status /\ a.data = c.data /\ a.sock = c.sock
      /\ a.gave = c.gave
  BY <1>1 DEF SlotOK, SlotType, SlotHoldsWhatItOwns
<1>4. /\ SlotOK(begun) /\ begun.flag /\ begun.event_fd = Cli /\ begun.fd = c.fd
      /\ begun.status[Svr] = c.status[Svr] /\ begun.sock = c.sock
      /\ begun.data = c.data
  BY <1>1 DEF SlotOK, SlotType, Status, SlotHoldsWhatItOwns, Cli, Svr
<1>5. CASE c.status[Cli] = "INIT" /\ ~Faults
  <2> DEFINE b == BuildSvr(begun, outcome)
             m == Connected(begun, outcome)
  <2>1. c.status[Svr] = "INIT" /\ ~c.fd[Svr]
    BY <1>5 DEF Settled, Begun
  <2>2. outcome \notin {"nosocket", "error"}
    BY <1>5 DEF BuildOutcomes
  <2>3. b = Return(0, m) /\ SlotOK(m) /\ m.flag
    <3>1. b = Return(0, m)
      BY <2>2 DEF BuildSvr, Connected, EpollAdd
    <3> QED
      BY <1>4, <3>1, ConnectedOK
  <2>4. Midway(m, Cli)
    <3>1. b.slot.flag => Midway(b.slot, Cli)
      BY <1>4, <2>1, BuildSvrMidway
    <3> QED
      BY <2>3, <3>1 DEF Return
  <2>5. /\ m.status[Cli] = "DATA_RELAY" /\ m.sock[Cli] = c.sock[Cli]
        /\ m.fd[Svr] /\ m.data = c.data
    BY <1>1, <1>4 DEF Connected, SlotOK, SlotType, Cli, Svr
  <2>6. CliEvent(c, events, outcome, mem) =
          Finish(OnDataRelay(m, Cli, Effective(events), mem), Cli)
    BY <1>3, <1>5, <2>3, <2>5 DEF CliEvent, Return
  <2> HIDE DEF m
  <2>7. \/ ~mem /\ m.sock[Cli].rx # <<>>
        \/ EndsAt(m, Cli)
        \/ FlushedBy(m, d, Cli)
    BY <1>1, <1>2, <2>3, <2>4, <2>5, <2>6, RelayEnds
  <2> QED
    BY <1>1, <1>2, <1>5, <2>1, <2>5, <2>7 DEF EndsAt, FlushedBy
<1>6. CASE c.status[Cli] # "INIT"
  <2>1. Midway(a, Cli)
    BY <1>1, <1>3, SettledMidway
  <2>2. CliEvent(c, events, outcome, mem) =
          IF a.status[Cli] = "DATA_RELAY"
          THEN Finish(OnDataRelay(a, Cli, Effective(events), mem), Cli)
          ELSE Finish(Return(0, a), Cli)
    BY <1>3, <1>6 DEF CliEvent, Return
  <2> HIDE DEF a
  <2>3. Finish(Return(0, a), Cli).flag
    BY <1>1, <1>3, FinishGoesOn
  <2>4. d = Finish(OnDataRelay(a, Cli, Effective(events), mem), Cli)
    BY <2>2, <2>3
  <2>5. /\ d.gave[Svr] = a.gave[Svr]
        /\ \/ ~mem /\ a.sock[Cli].rx # <<>>
           \/ EndsAt(a, Cli)
           \/ FlushedBy(a, d, Cli)
    BY <2>4, <1>1, <1>2, <1>3, <2>1, <2>2, <2>3, RelayEnds
  <2>6. c.status[Cli] = "DATA_RELAY"
    BY <1>3, <2>2, <2>3
  <2>7. ~c.fd[Svr] => c.status[Svr] = "CLOSE"
    BY <1>1, <2>6 DEF Kept
  <2> QED
    BY <1>1, <1>2, <1>3, <2>5, <2>7 DEF EndsAt, FlushedBy
<1> QED
  BY <1>5, <1>6

\* A session that ends while no side was reset ends as it may.
EndsWell(s) ==
    (/\ pc = "dispatch" /\ conn[s].flag /\ ~conn'[s].flag
     /\ \A x \in Side : ~conn[s].sock[x].rst)
    => CallFailed(s) \/ \E x \in Side : HandedOver(s, x)

\* An event that ends a session of which no side was reset.
LEMMA EventEnds ==
    ASSUME Inv, Discipline, AllKept, StreamIntegrity, NEW e \in batch,
           HandleSvrEvent(e) \/ HandleCliEvent(e), NEW s \in Slot
    PROVE  EndsWell(s)
<1> DEFINE c == conn[s]
<1>1. SUFFICES ASSUME c.flag, ~conn'[s].flag, \A x \in Side : ~c.sock[x].rst
               PROVE  CallFailed(s) \/ \E x \in Side : HandedOver(s, x)
  BY DEF EndsWell
<1>2. /\ Cli \in Side /\ Svr \in Side
      /\ Other(Cli) = Svr /\ Other(Svr) = Cli
  BY DEF Side, Cli, Svr, Other
<1>3. /\ SlotOK(c) /\ Settled(c) /\ Kept(c)
      /\ e.tag \in Side /\ e.fd \in Side
      /\ e.slot = s => c.fd[e.tag] \/ (e.tag = Svr /\ c.status[Svr] = "CLOSE")
  BY <1>1, InvSlots, EventSide DEF Discipline, AllKept, HandleSvrEvent,
                                   HandleCliEvent
<1>4. conn \in [Slot -> SlotType]
  BY DEF Inv, TypeOK
<1>5. e.slot = s => Fits(c, e)
  BY DEF Discipline
<1>6. ASSUME NEW d, HandleEvent(e, d)
      PROVE  /\ e.slot = s /\ ~d.flag /\ conn'[s] = d
             /\ e \in batch \ batch'
  BY <1>1, <1>4, <1>6 DEF HandleEvent, EventDone
<1>7. c.fd[Svr] => c.status[Svr] # "CLOSE"
  BY <1>1, <1>2, <1>3 DEF Settled, Flushes
<1>8. ASSUME NEW x \in Side, c.fd[Other(x)]
      PROVE  /\ c.gave[Other(x)] \o c.data[x] = Meant(c, x)
             /\ c.data[x] = <<>> => c.gave[Other(x)] = Meant(c, x)
  <2>1. Other(x) \in Side /\ c \in SlotType
    BY OtherSide, <1>4
  <2>2. c.gave[Other(x)] = c.sock[Other(x)].out
    BY <1>1, <1>3, <1>8, <2>1 DEF Kept
  <2>3. c.gave[Other(x)] \o c.data[x] = Meant(c, x)
    BY <1>1, <1>8, <2>2 DEF StreamIntegrity
  <2>4. c.gave[Other(x)] \in Seq(Byte)
    BY <2>1 DEF SlotType
  <2> QED
    BY <2>3, <2>4, ConcatEmptySeq
<1>9. CASE HandleSvrEvent(e)
  <2>1. PICK mem \in MallocOutcomes : HandleEvent(e, SvrEvent(conn[e.slot], e.events, mem))
    BY <1>9 DEF HandleSvrEvent
  <2>2. mem \in BOOLEAN /\ (~mem => Faults) /\ e.tag = Svr
    BY <1>9 DEF MallocOutcomes, HandleSvrEvent
  <2> DEFINE d == SvrEvent(c, e.events, mem)
  <2>3. e.slot = s /\ ~d.flag /\ conn'[s] = d /\ e \in batch \ batch'
    BY <1>6, <2>1
  <2> HIDE DEF c
  <2>4. /\ c.fd[Svr] /\ d.gave[Cli] = c.gave[Cli]
        /\ \/ ~mem /\ c.sock[Svr].rx # <<>>
           \/ EndsAt(c, Svr)
           \/ FlushedBy(c, d, Svr)
    BY <1>1, <1>2, <1>3, <2>2, <2>3, SvrEventEnds
  <2>5. e.fd = Svr
    BY <1>1, <1>5, <1>7, <2>2, <2>3, <2>4 DEF Fits
  <2>6. CASE ~mem /\ c.sock[Svr].rx # <<>>
    BY <2>2, <2>3, <2>5, <2>6 DEF CallFailed, c
  <2>7. CASE EndsAt(c, Svr)
    <3>1. d.gave[Cli] = Meant(c, Svr) \/ ~c.fd[Cli]
      BY <1>2, <1>8, <2>4, <2>7 DEF EndsAt
    <3> QED
      BY <1>2, <2>3, <2>7, <3>1 DEF HandedOver, EndsAt, c
  <2>8. CASE FlushedBy(c, d, Svr)
    <3>1. c.status[Cli] = "CLOSE"
      <4>1. c.status[Cli] \in {"DATA_RELAY", "CLOSE"}
        BY <1>1, <1>3, <2>4 DEF Settled, Begun
      <4> QED
        BY <1>1, <1>2, <1>3, <2>8, <4>1 DEF Kept, FlushedBy
    <3>2. d.gave[Svr] = Meant(c, Cli)
      BY <1>2, <1>8, <2>4, <2>8 DEF FlushedBy
    <3> QED
      BY <1>2, <2>3, <3>1, <3>2 DEF HandedOver, c
  <2> QED
    BY <2>4, <2>6, <2>7, <2>8
<1>10. CASE HandleCliEvent(e)
  <2>1. PICK mem \in MallocOutcomes, outcome \in BuildOutcomes :
          HandleEvent(e, CliEvent(conn[e.slot], e.events, outcome, mem))
    BY <1>10 DEF HandleCliEvent
  <2>2. e.tag = Cli
    BY <1>10 DEF HandleCliEvent
  <2> DEFINE d == CliEvent(c, e.events, outcome, mem)
  <2>3. e.slot = s /\ ~d.flag /\ conn'[s] = d /\ e \in batch \ batch'
    BY <1>6, <2>1
  <2> HIDE DEF c
  <2>4. e.fd = Cli /\ c.fd[Cli]
    BY <1>1, <1>5, <2>2, <2>3 DEF Fits, Cli, Svr
  <2>5. \/ Faults /\ (c.status[Cli] = "INIT" \/ c.sock[Cli].rx # <<>>)
        \/ EndsAt(c, Cli) /\ (c.fd[Svr] => d.gave[Svr] = c.gave[Svr])
        \/ FlushedBy(c, d, Cli) /\ c.status[Svr] = "CLOSE"
    BY <1>1, <1>2, <1>3, <2>3, <2>4, CliEventEnds
  <2>6. CASE Faults /\ (c.status[Cli] = "INIT" \/ c.sock[Cli].rx # <<>>)
    BY <2>3, <2>4, <2>6 DEF CallFailed, c
  <2>7. CASE EndsAt(c, Cli) /\ (c.fd[Svr] => d.gave[Svr] = c.gave[Svr])
    <3>1. d.gave[Svr] = Meant(c, Cli) \/ ~c.fd[Svr]
      BY <1>2, <1>8, <2>7 DEF EndsAt
    <3> QED
      BY <1>2, <2>3, <2>7, <3>1 DEF HandedOver, EndsAt, c
  <2>8. CASE FlushedBy(c, d, Cli) /\ c.status[Svr] = "CLOSE"
    <3>1. d.gave[Cli] = Meant(c, Svr)
      BY <1>2, <1>8, <2>4, <2>8 DEF FlushedBy
    <3> QED
      BY <1>2, <2>3, <2>8, <3>1 DEF HandedOver, c
  <2> QED
    BY <2>5, <2>6, <2>7, <2>8
<1> QED
  BY <1>9, <1>10

\* No other step of a batch ends a session.
LEMMA EndsStep ==
    ASSUME Inv, Discipline, AllKept, StreamIntegrity, [Next]_vars, NEW s \in Slot
    PROVE  EndsWell(s)
<1>1. ASSUME NEW e \in batch,
             SkipEvent(e) \/ HandleSvrEvent(e) \/ HandleCliEvent(e)
      PROVE  EndsWell(s)
  BY <1>1, EventEnds DEF SkipEvent, EndsWell
<1>2. CASE PeerStep
  BY <1>2, PeerKeeps DEF EndsWell
<1>3. CASE UNCHANGED vars
  BY <1>3 DEF vars, EndsWell
<1>4. CASE pc # "dispatch"
  BY <1>4 DEF EndsWell
<1>5. pc = "dispatch" => /\ ~AgentStep /\ ~Accept /\ ~EpollWait
                         /\ ~WaitInterrupted /\ ~TimeoutStep
  BY DEF AgentStep, AgentInterrupted, AgentNoSession, AgentRefuses, Accept,
         AgentAccepts, EpollWait, WaitInterrupted, TimeoutStep, TimeoutNotDue,
         TimeoutWalk, TimeoutSweep
<1> QED
  BY <1>1, <1>2, <1>3, <1>4, <1>5
     DEF Next, HandleAgentEvent, HandleConnectionsEvent, HandleSessionTimeout,
         Dispatch

\* A session that ends while it handles events, unless it was reset or a call
\* failed, owes nobody anything: write() has taken all that was read from a side
\* that has closed, whatever the sizes of buffers and pool and the traffic.
THEOREM ClosedFlushed == Spec => ClosedSideIsFlushed
<1>1. Inv /\ Discipline /\ AllKept /\ StreamIntegrity /\ [Next]_vars =>
        [\A s \in Slot :
           /\ pc = "dispatch" /\ conn[s].flag /\ ~conn'[s].flag
           /\ \A x \in Side : ~conn[s].sock[x].rst
           => CallFailed(s) \/ \E x \in Side : HandedOver(s, x)]_vars
  BY EndsStep DEF EndsWell
<1> QED
  BY <1>1, Invariant, Disciplined, HistoryKept, StreamIntact, PTL
     DEF Spec, ClosedSideIsFlushed

-----------------------------------------------------------------------------
(* What one event reads, and what it gives the peers.                       *)

\* An event of the browser gives the browser what WrittenBy says; its first
\* one gives nobody anything and may open the socket to the server.
LEMMA CliEventHandled ==
    ASSUME NEW c, SlotOK(c), c.flag, Settled(c), Streams(c), c.fd[Cli],
           NEW e, e.tag = Cli, NEW outcome, NEW mem \in BOOLEAN
    PROVE  LET d == CliEvent(c, e.events, outcome, mem)
               given == GivesOnly(Cli, WrittenBy(c, e))
           IN  /\ Handled(c, d, given)
               /\ c.status[Cli] # "INIT" => Gives(c, d, given)
<1> DEFINE a == [c EXCEPT !.event_fd = Cli]
           begun == [a EXCEPT !.status[Cli] = "BUILD_SVR"]
           b == IF a.status[Cli] = "INIT" THEN BuildSvr(begun, outcome)
                ELSE Return(0, a)
           events == Effective(e.events)
           r == OnDataRelay(b.slot, Cli, events, mem)
           d == CliEvent(c, e.events, outcome, mem)
           w == WrittenBy(c, e)
           given == GivesOnly(Cli, w)
<1>1. Cli \in Side /\ Svr \in Side /\ Cli # Svr
      /\ Other(Cli) = Svr /\ Other(Svr) = Cli
  BY DEF Side, Cli, Svr, Other
<1>2. c \in SlotType
  BY DEF SlotOK
<1>3. /\ SlotOK(a) /\ a.flag /\ a.fd = c.fd /\ a.sock = c.sock
      /\ a.data = c.data /\ a.status = c.status /\ a.req = c.req
      /\ a.taken = c.taken
  BY <1>1 DEF SlotOK, SlotType, SlotHoldsWhatItOwns
<1>4. /\ SlotOK(begun) /\ begun.flag /\ begun.sock = c.sock
      /\ begun.data = c.data /\ begun.req = c.req /\ begun.taken = c.taken
      /\ begun.fd = c.fd
  BY <1>1 DEF SlotOK, SlotType, Status, SlotHoldsWhatItOwns
<1>5. \/ b.ret < 0 /\ d = b.slot
      \/ b.slot.status[Cli] # "DATA_RELAY" /\ d = Finish(b, Cli)
      \/ /\ ~(b.ret < 0) /\ b.slot.status[Cli] = "DATA_RELAY"
         /\ d = Finish(r, Cli)
  BY DEF CliEvent, a, begun
<1>6. w \in Seq(Byte)
      /\ w = IF c.status[Cli] = "DATA_RELAY" THEN RelayWrites(c, Cli, events)
             ELSE <<>>
  BY <1>1, <1>2, WrittenByRelay
<1>7. /\ \A y \in Side : given[y] \in Seq(Byte)
      /\ given[Svr] = <<>>
      /\ w = <<>> => given = GivesNothing
  BY <1>1, <1>6, GivesTypes DEF GivesOnly
<1> HIDE DEF a, begun, d, w, given, events
<1>8. CASE c.status[Cli] = "INIT"
  <2> DEFINE t == Connected(begun, outcome)
  <2>1. /\ \A x \in Side : c.data[x] = <<>>
        /\ c.status[Svr] = "INIT" /\ ~c.fd[Svr]
    BY <1>8 DEF Streams, Settled, Begun
  <2>2. b = BuildSvr(begun, outcome)
    BY <1>3, <1>8
  <2>3. /\ SlotOK(t) /\ t.flag /\ t.fd = [begun.fd EXCEPT ![Svr] = TRUE]
        /\ t.data = begun.data /\ t.sock[Cli] = begun.sock[Cli]
    BY <1>4, ConnectedOK
  <2>4. /\ SlotOK(b.slot) /\ (b.slot.flag => b.slot = t)
        /\ (b.ret < 0 => ~b.slot.flag)
    BY <1>4, <2>2, BuildSvrOK DEF Return
  <2> HIDE DEF t
  <2>5. w = <<>> /\ given = GivesNothing
    BY <1>6, <1>7, <1>8
  <2>6. t \in SlotType /\ t.fd[Cli] /\ t.data[Svr] = <<>>
    <3>1. t \in SlotType
      BY <2>3 DEF SlotOK
    <3>2. begun.fd = c.fd /\ c.fd \in [Side -> BOOLEAN]
      BY <1>2, <1>4 DEF SlotType
    <3>3. t.fd[Cli]
      BY <1>1, <2>3, <3>2
    <3>4. t.data[Svr] = <<>>
      BY <1>1, <1>4, <2>1, <2>3
    <3> QED
      BY <3>1, <3>3, <3>4
  <2>7. ASSUME b.slot.flag, d.flag
        PROVE  SlotOK(d) /\ Gives(t, d, given)
    <3>1. b.slot = t
      BY <2>4, <2>7
    <3>2. SlotOK(Finish(b, Cli)) /\ Gives(t, Finish(b, Cli), GivesNothing)
      BY <1>1, <2>3, <3>1, FinishOK, FinishGives
    <3>3. SlotOK(Finish(r, Cli))
      BY <1>1, <2>3, <3>1, OnDataRelayOK, FinishOK
    <3>4. Gives(t, Finish(r, Cli), GivesOnly(Cli, RelayWrites(t, Cli, events)))
      BY <1>1, <2>3, <2>6, <3>1, RelayGives
    <3>5. RelayWrites(t, Cli, events) = <<>>
      <4>1. Writes(t, Cli) \in Nat /\ Writes(t, Cli) <= Len(t.data[Svr])
        BY <1>1, <2>6, WritesBounds
      <4>2. Writes(t, Cli) = 0
        BY <2>6, <4>1, EmptySeq
      <4>3. SubSeq(t.data[Svr], 1, 0) = <<>>
        BY SubSeqEmpty
      <4> QED
        BY <1>1, <4>2, <4>3 DEF RelayWrites, Handed
    <3>6. GivesOnly(Cli, <<>>) = GivesNothing
      BY <1>1, GivesTypes
    <3> QED
      BY <1>5, <2>4, <2>5, <2>7, <3>2, <3>3, <3>4, <3>5, <3>6
  <2>8. Gives(c, begun, GivesNothing)
    BY <1>2, <1>4, SameGives DEF SlotOK
  <2>9. ~begun.fd[Svr]
    BY <1>4, <2>1
  <2>10. ASSUME d.flag PROVE b.slot.flag
    <3>1. ~b.slot.flag => ~Finish(b, Cli).flag
      BY DEF Finish, OnSessionClose, EpollSessionMod
    <3>2. b.ret < 0 \/ b.slot.flag
      BY <1>4, <2>2, <2>3, BuildSvrOK DEF Return, t
    <3> QED
      BY <1>5, <2>10, <3>1, <3>2
  <2>11. ASSUME d.flag PROVE Handled(c, d, given)
    <3>1. SlotOK(d) /\ Gives(t, d, given)
      BY <2>7, <2>10, <2>11
    <3> QED
      BY <1>4, <1>7, <2>1, <2>8, <2>9, <3>1, ConnectedHandled DEF t
  <2> QED
    BY <1>8, <2>11 DEF Handled, d, given, w
<1>9. CASE c.status[Cli] # "INIT"
  <2>1. b = Return(0, a) /\ b.ret = 0 /\ b.slot = a
    BY <1>3, <1>9 DEF Return
  <2>2. a \in SlotType /\ Gives(c, a, GivesNothing)
    BY <1>2, <1>3, SameGives DEF SlotOK
  <2>3. ~(0 < 0)
    OBVIOUS
  <2>4. RelayWrites(a, Cli, events) = RelayWrites(c, Cli, events)
    BY <1>3 DEF RelayWrites, Handed, Writes
  <2>5. CASE c.status[Cli] # "DATA_RELAY"
    <3>1. d = Finish(b, Cli)
      BY <1>3, <1>5, <2>1, <2>3, <2>5
    <3>2. SlotOK(d) /\ Gives(a, d, GivesNothing)
      BY <1>1, <1>3, <2>1, <3>1, FinishGives, FinishOK
    <3>3. given = GivesNothing /\ d \in SlotType
      BY <1>6, <1>7, <2>5, <3>2 DEF SlotOK
    <3>4. Gives(c, d, given)
      BY <1>2, <1>3, <1>7, <2>2, <3>2, <3>3, GivesTwice
    <3> QED
      BY <1>9, <3>4, GivesHandled DEF d, given, w
  <2>6. CASE c.status[Cli] = "DATA_RELAY"
    <3>1. d = Finish(r, Cli)
      BY <1>3, <1>5, <2>1, <2>3, <2>6
    <3>2. Gives(a, d, given)
      BY <1>1, <1>3, <1>6, <2>1, <2>4, <2>6, <3>1, RelayGives DEF given
    <3>3. SlotOK(d)
      BY <1>1, <1>3, <2>1, <3>1, OnDataRelayOK, FinishOK
    <3>4. d \in SlotType
      BY <3>3 DEF SlotOK
    <3>5. Gives(c, d, given)
      BY <1>2, <1>3, <1>7, <2>2, <3>2, <3>4, GivesTwice
    <3> QED
      BY <1>9, <3>5, GivesHandled DEF d, given, w
  <2> QED
    BY <2>5, <2>6
<1> QED
  BY <1>8, <1>9

\* An event of the client is seen from outside as Handled says; only the first
\* one of the browser opens the socket to the server.
LEMMA EventHandled ==
    ASSUME Inv, Discipline, Streaming, NEW e \in batch,
           HandleSvrEvent(e) \/ HandleCliEvent(e)
    PROVE  LET c == conn[e.slot]
               d == conn'[e.slot]
           IN  /\ EventSeen(e)
               /\ d.flag => d.status[Cli] # "INIT"
               /\ d.flag /\ d.fd[Svr] /\ ~c.fd[Svr] => c.status[Cli] = "INIT"
<1> DEFINE c == conn[e.slot]
           w == WrittenBy(c, e)
<1>1. c.flag /\ Cli \in Side /\ Svr \in Side
  BY DEF HandleSvrEvent, HandleCliEvent, Side
<1>2. /\ e.slot \in Slot /\ SlotOK(c) /\ Settled(c) /\ Streams(c)
      /\ c.fd[e.tag] \/ (e.tag = Svr /\ c.status[Svr] = "CLOSE")
  BY <1>1, EventSide DEF Streaming
<1>3. conn \in [Slot -> SlotType]
  BY DEF Inv, TypeOK
<1>4. ASSUME NEW d, HandleEvent(e, d), Handled(c, d, GivesOnly(e.tag, w)),
             d.flag => d.status[Cli] # "INIT",
             c.status[Cli] # "INIT" => Gives(c, d, GivesOnly(e.tag, w))
      PROVE  /\ EventSeen(e)
             /\ conn'[e.slot].flag => conn'[e.slot].status[Cli] # "INIT"
             /\ conn'[e.slot].flag /\ conn'[e.slot].fd[Svr] /\ ~c.fd[Svr]
                  => c.status[Cli] = "INIT"
  <2>1. EventSeen(e)
    BY <1>1, <1>4, HandlerSeen
  <2>2. conn'[e.slot] = d
    BY <1>2, <1>3, <1>4 DEF HandleEvent
  <2> HIDE DEF c, w
  <2>3. d.flag /\ d.fd[Svr] /\ ~c.fd[Svr] => c.status[Cli] = "INIT"
    BY <1>1, <1>4 DEF Gives
  <2> QED
    BY <1>4, <2>1, <2>2, <2>3
<1>5. CASE HandleSvrEvent(e)
  <2>1. PICK mem \in MallocOutcomes : HandleEvent(e, SvrEvent(c, e.events, mem))
    BY <1>5 DEF HandleSvrEvent
  <2>2. mem \in BOOLEAN /\ e.tag = Svr
    BY <1>5 DEF MallocOutcomes, HandleSvrEvent
  <2> HIDE DEF c
  <2>3. c.fd[Svr] \/ c.status[Svr] = "CLOSE"
    BY <1>2, <2>2
  <2>4. c.status[Cli] # "INIT"
    BY <1>1, <1>2, <2>3 DEF Settled, Begun
  <2> DEFINE d == SvrEvent(c, e.events, mem)
  <2>5. Flows(c, d)
    BY <1>1, <1>2, <2>2, <2>3, SvrEventFlows DEF Streams
  <2>6. Gives(c, d, GivesOnly(Svr, w))
    BY <1>1, <1>2, <2>2, <2>3, SvrEventGives
  <2> HIDE DEF d, w
  <2>7. d.flag => d.status[Cli] # "INIT"
    BY <2>4, <2>5 DEF Flows
  <2>8. Handled(c, d, GivesOnly(Svr, w))
    BY <2>6, GivesHandled
  <2> QED
    BY <1>4, <2>1, <2>2, <2>6, <2>7, <2>8 DEF d, c
<1>6. CASE HandleCliEvent(e)
  <2>1. PICK mem \in MallocOutcomes, outcome \in BuildOutcomes :
          HandleEvent(e, CliEvent(c, e.events, outcome, mem))
    BY <1>6 DEF HandleCliEvent
  <2>2. mem \in BOOLEAN /\ e.tag = Cli /\ Cli # Svr
    BY <1>6 DEF MallocOutcomes, HandleCliEvent, Cli, Svr
  <2> HIDE DEF c
  <2>3. c.fd[Cli]
    BY <1>2, <2>2
  <2> DEFINE d == CliEvent(c, e.events, outcome, mem)
  <2>4. d.flag => d.status[Cli] # "INIT"
    BY <1>1, <1>2, <2>2, <2>3, CliEventStreams
  <2>5. Handled(c, d, GivesOnly(Cli, w))
    BY <1>1, <1>2, <2>2, <2>3, CliEventHandled
  <2>6. c.status[Cli] # "INIT" => Gives(c, d, GivesOnly(Cli, w))
    BY <1>1, <1>2, <2>2, <2>3, CliEventHandled
  <2> HIDE DEF d, w
  <2> QED
    BY <1>4, <2>1, <2>2, <2>4, <2>5, <2>6 DEF d, c
<1> QED
  BY <1>5, <1>6

\* What a side of the client has, with the first bytes of what waits for it,
\* is the beginning of what the other side sends, translated.
LEMMA ClientPromised ==
    ASSUME NEW c, SlotOK(c), c.flag, Streams(c), NEW x \in Side, c.fd[Other(x)],
           NEW n \in Nat, n <= Len(c.data[x])
    PROVE  Promised(c, Other(x), SubSeq(c.data[x], 1, n), Due(c, x, <<>>, 0),
                    c.taken[x])
<1>1. c \in SlotType /\ Counted(c, x) /\ Carried(c, x, <<>>, 0)
  BY DEF SlotOK, Streams
<1>2. c.taken[x] \in Nat /\ <<>> \in Seq(Byte) /\ Len(<<>>) = 0
  BY <1>1, EmptySeq, ThroughType
<1>3. 0 <= c.taken[x] /\ 0 + (c.taken[x] - 0) = c.taken[x] /\ 0 \in Nat
  BY <1>2
<1>4. Promised(c, Other(x), SubSeq(c.data[x], 1, n), Due(c, x, <<>>, 0),
               Len(<<>>) + (c.taken[x] - 0))
  BY <1>1, <1>2, <1>3, QueuePromised
<1> QED
  BY <1>2, <1>3, <1>4

\* What an event writes is, on top of what the side has, the beginning of what
\* the other side sends, translated.
LEMMA EventPromised ==
    ASSUME Sound, NEW e \in batch, HandleSvrEvent(e) \/ HandleCliEvent(e)
    PROVE  LET c == conn[e.slot]
               w == WrittenBy(c, e)
           IN  w # <<>> => Promised(c, e.tag, w, Due(c, Other(e.tag), <<>>, 0),
                                    c.taken[Other(e.tag)])
<1> DEFINE c == conn[e.slot]
           w == WrittenBy(c, e)
<1>1. c.flag /\ Inv /\ Discipline
  BY DEF HandleSvrEvent, HandleCliEvent, Sound
<1>2. /\ SlotOK(c) /\ e.tag \in Side
      /\ c.fd[e.tag] \/ (e.tag = Svr /\ c.status[Svr] = "CLOSE")
      /\ e.slot \in Slot
  BY <1>1, EventSide
<1>3. Streams(c) /\ c \in SlotType
  BY <1>2 DEF Sound, Streaming, SlotOK
<1> HIDE DEF c
<1>4. /\ \E n \in Nat : n <= Len(c.data[Other(e.tag)])
                         /\ w = SubSeq(c.data[Other(e.tag)], 1, n)
      /\ w # <<>> => c.fd[e.tag]
  BY <1>1, <1>2, <1>3, WrittenByQueue DEF c
<1>5. Other(e.tag) \in Side /\ Other(Other(e.tag)) = e.tag
  BY <1>2 DEF Side, Other, Cli, Svr
<1> HIDE DEF w
<1>6. w # <<>> => Promised(c, e.tag, w, Due(c, Other(e.tag), <<>>, 0),
                           c.taken[Other(e.tag)])
  BY <1>1, <1>2, <1>3, <1>4, <1>5, ClientPromised DEF c
<1> QED
  BY <1>6 DEF c, w

\* What is known of the slots is known from the start
LEMMA SoundInit == Init => Sound
BY InitOK, DisciplineInit, StreamingInit, KeptInit DEF Sound

\* and after each step.
LEMMA SoundStep ==
    ASSUME Sound, [Next]_vars
    PROVE  Sound'
<1>1. Inv /\ Discipline /\ Streaming /\ AllKept
  BY DEF Sound
<1>2. Inv'
  BY <1>1, StepOK
<1>3. Discipline'
  BY <1>1, DisciplineStep
<1>4. Streaming'
  BY <1>1, StreamingStep
<1>5. AllKept'
  BY <1>1, KeptStep
<1> QED
  BY <1>2, <1>3, <1>4, <1>5 DEF Sound

=============================================================================
