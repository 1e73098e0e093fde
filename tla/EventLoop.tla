------------------------------ MODULE EventLoop ------------------------------
(***************************************************************************)
(* The single thread of LDProxy_client and LDProxy_server: main() runs     *)
(* handle_agent_event, handle_connections_event and handle_session_timeout *)
(* in turn for ever.  This module has all of the loop except what one      *)
(* event does to its session, which ClientLoop and ServerLoop add.         *)
(*                                                                         *)
(* Line references are to the client; the server's copy of each function   *)
(* differs in names only.  Slots are numbered from 0 as in the code.       *)
(*                                                                         *)
(* Time: instead of a clock that grows for ever, each slot has the age     *)
(* g_cur_ms - update_ticks (saturating at Alive) and the loop has          *)
(* g_cur_ms - g_sess_timeout_ticks (saturating at Period + 1).             *)
(***************************************************************************)
EXTENDS Session, FiniteSets

CONSTANTS
    MaxSession,     \* g_max_session
    WalkShare,      \* one walk visits 1/WalkShare of the pool (5 in the code)
    Alive,          \* SESSION_ALIVE_MS
    Period,         \* 60000, the ordinary interval between walks
    Fast,           \* 1000, the interval once the pool has been exhausted
    Elapsed,        \* by how much the clock may have advanced in one turn
    Faults,         \* whether system calls and malloc() may fail
    Resets          \* whether peers may reset connections

PoolOK ==
    /\ MaxSession \in Nat \ {0}
    /\ WalkShare \in Nat /\ WalkShare >= 2
TimeOK ==
    /\ Alive \in Nat \ {0} /\ Period \in Nat /\ Fast \in Nat
    /\ Fast < Period
    /\ Elapsed \subseteq Nat
EnvironmentOK == Faults \in BOOLEAN /\ Resets \in BOOLEAN
ASSUME LoopAssumption == PoolOK /\ TimeOK /\ EnvironmentOK

VARIABLES
    conn,           \* g_sessions with the kernel objects of each slot
    idle,           \* g_cur_ms - update_ticks of each slot
    pc,             \* where the loop is
    batch,          \* events of g_session_events not yet handled
    s_index,        \* where malloc_client_session starts to look
    i_start,        \* where the next walk_session starts
    max_timeout,    \* g_sess_max_timeout
    since           \* g_cur_ms - g_sess_timeout_ticks

vars == <<conn, idle, pc, batch, s_index, i_start, max_timeout, since>>

Slot == 0 .. MaxSession - 1

\* An element of g_session_events.  `fd` is the descriptor it is about, which
\* the program cannot see: it knows the slot and the tag only.
EventType ==
    [slot : Slot, tag : Side, events : SUBSET {EPOLLIN, EPOLLOUT, EPOLLHUP},
     fd : Side]

AtMost(n, bound) == IF n <= bound THEN n ELSE bound

-----------------------------------------------------------------------------
Init ==
    /\ conn = [s \in Slot |-> EmptySlot(CHOOSE q \in Requests : TRUE)]
    /\ idle = [s \in Slot |-> 0]
    /\ pc = "agent"
    /\ batch = {}
    /\ s_index = 0
    /\ i_start = 0
    /\ max_timeout = Period
    /\ since = Period + 1          \* g_sess_timeout_ticks starts at 0

-----------------------------------------------------------------------------
(* handle_agent_event: wait on the listening socket, take at most one       *)
(* connection.                                                              *)

\* g_cur_ms is read again after epoll_wait returned without error.
Aged(d) == [s \in Slot |-> IF conn[s].flag THEN AtMost(idle[s] + d, Alive)
                           ELSE 0]
ClockAdvances(d) == since' = AtMost(since + d, Period + 1)

\* A signal interrupts epoll_wait: return before the clock is read.
AgentInterrupted ==
    /\ pc = "agent" /\ Faults
    /\ pc' = "wait"
    /\ UNCHANGED <<conn, idle, batch, s_index, i_start, max_timeout, since>>

\* No connection within 30 ms; or accept(), getsockname(), fcntl() or
\* setsockopt() failed and the descriptor was closed again.
AgentNoSession(d) ==
    /\ pc = "agent"
    /\ idle' = Aged(d)
    /\ ClockAdvances(d)
    /\ pc' = "wait"
    /\ UNCHANGED <<conn, batch, s_index, i_start, max_timeout>>

\* __malloc_client_session looks at every slot once, from s_index onwards.
RingFrom(start, k) == (start + k) % MaxSession
FreeOffsets == {k \in Slot : ~conn[RingFrom(s_index, k)].flag}
PoolFull == FreeOffsets = {}
FirstFree ==
    RingFrom(s_index, CHOOSE k \in FreeOffsets : \A j \in FreeOffsets : k <= j)

\* s_index once slot k is handed out.
IndexAfter(k) == (k + 1) % MaxSession

\* malloc_client_session returned NULL: the connection is closed again and
\* the pool will be swept as soon as Fast has gone by.
AgentRefuses(d) ==
    /\ pc = "agent"
    /\ PoolFull
    /\ max_timeout' = Fast
    /\ idle' = Aged(d)
    /\ ClockAdvances(d)
    /\ pc' = "wait"
    /\ UNCHANGED <<conn, batch, s_index, i_start>>

\* The slot of the new session: its browser socket is registered for input.
Accepted(fresh) ==
    EpollAdd([fresh EXCEPT !.fd[Cli] = TRUE, !.sock[Cli] = NewSocket("est")],
             Cli, {EPOLLIN}, Cli)

\* fresh is the slot as malloc_client_session or malloc_server_session leaves
\* it; registered tells whether EPOLL_CTL_ADD succeeded.
AgentAccepts(d, fresh, registered) ==
    /\ pc = "agent"
    /\ ~PoolFull
    /\ registered \/ Faults
    /\ conn' = [conn EXCEPT ![FirstFree] =
                  IF registered THEN Accepted(fresh)
                  ELSE FreeSession([fresh EXCEPT
                         !.fd[Cli] = TRUE, !.sock[Cli] = NewSocket("est")])]
    /\ idle' = [Aged(d) EXCEPT ![FirstFree] = 0]
    /\ ClockAdvances(d)
    /\ s_index' = IndexAfter(FirstFree)
    /\ pc' = "wait"
    /\ UNCHANGED <<batch, i_start, max_timeout>>

-----------------------------------------------------------------------------
(* handle_connections_event: one epoll_wait, then the events it returned.   *)

Ready ==
    {[slot |-> s, tag |-> conn[s].reg[x].tag, events |-> Reported(conn[s], x),
      fd |-> x] : s \in Slot, x \in Side}

EpollWait ==
    /\ pc = "wait"
    /\ batch' = {e \in Ready : e.events # {}}
    /\ pc' = IF batch' = {} THEN "timeout" ELSE "dispatch"
    /\ UNCHANGED <<conn, idle, s_index, i_start, max_timeout, since>>

WaitInterrupted ==
    /\ pc = "wait" /\ Faults
    /\ pc' = "timeout"
    /\ UNCHANGED <<conn, idle, batch, s_index, i_start, max_timeout, since>>

\* One turn of the for loop is over.  The order of the events in the array is
\* the kernel's choice.
EventDone(e) ==
    /\ batch' = batch \ {e}
    /\ pc' = IF batch' = {} THEN "timeout" ELSE "dispatch"
    /\ UNCHANGED <<s_index, i_start, max_timeout, since>>

\* The session was freed by an earlier event of the batch.
SkipEvent(e) ==
    /\ pc = "dispatch" /\ e \in batch
    /\ ~conn[e.slot].flag
    /\ EventDone(e)
    /\ UNCHANGED <<conn, idle>>

\* update_ticks = g_cur_ms, and the session becomes c.
HandleEvent(e, c) ==
    /\ conn' = [conn EXCEPT ![e.slot] = c]
    /\ idle' = [idle EXCEPT ![e.slot] = 0]
    /\ EventDone(e)

\* Whether malloc() of a packet succeeds.
MallocOutcomes == IF Faults THEN BOOLEAN ELSE {TRUE}

\* How building the connection to the server may end: connect() returns 0 or
\* EINPROGRESS; or socket() fails; or a later call up to EPOLL_CTL_ADD does.
BuildOutcomes ==
    {"done", "inprogress"} \cup (IF Faults THEN {"nosocket", "error"} ELSE {})

HandleSvrEvent(e) ==
    /\ pc = "dispatch" /\ e \in batch
    /\ conn[e.slot].flag /\ e.tag = Svr
    /\ \E mem \in MallocOutcomes :
         HandleEvent(e, SvrEvent(conn[e.slot], e.events, mem))

\* What the handler of event e writes to the socket of the side for which it
\* takes the event.  (When the handler also closes that socket, the socket no
\* longer shows it afterwards.)
WrittenBy(c, e) ==
    LET x == e.tag
        queued == c.data[Other(x)]
        relays == \/ c.status[x] = "DATA_RELAY"
                  \/ x = Svr /\ c.status[x] = "INIT"
    IN  IF /\ c.flag /\ relays /\ ~c.sock[x].rst
           /\ EPOLLOUT \in Effective(e.events)
        THEN SubSeq(queued, 1, AtMost(Len(queued), c.sock[x].room))
        ELSE <<>>

-----------------------------------------------------------------------------
(* handle_session_timeout.                                                  *)

\* session_timeout on the slots of a walk, those in use only.
Reaped(walked) ==
    [s \in Slot |->
        IF s \in walked /\ conn[s].flag /\ idle[s] >= Alive
        THEN FreeSession(conn[s])
        ELSE conn[s]]

\* __walk_session: from i_start up to, not including, the new i_start.
\* Slip: *start = *end is missing.
WalkEndStuck == i_start
WalkEnd == (i_start + MaxSession \div WalkShare) % MaxSession
WalkWindow == {RingFrom(i_start, k) : k \in 0 .. (MaxSession \div WalkShare) - 1}

Walk(walked) ==
    /\ conn' = Reaped(walked)
    /\ idle' = [s \in Slot |-> IF conn'[s].flag THEN idle[s] ELSE 0]
    /\ since' = 0
    /\ pc' = "agent"
    /\ UNCHANGED <<batch, s_index>>

TimeoutNotDue ==
    /\ pc = "timeout"
    /\ since <= max_timeout
    /\ pc' = "agent"
    /\ UNCHANGED <<conn, idle, batch, s_index, i_start, max_timeout, since>>

TimeoutWalk ==
    /\ pc = "timeout"
    /\ since > max_timeout
    /\ max_timeout = Period
    /\ Walk(WalkWindow)
    /\ i_start' = WalkEnd
    /\ UNCHANGED max_timeout

TimeoutSweep ==
    /\ pc = "timeout"
    /\ since > max_timeout
    /\ max_timeout # Period
    /\ Walk(Slot)
    /\ max_timeout' = Period
    /\ UNCHANGED i_start

-----------------------------------------------------------------------------
(* The peers and the network, as the sockets show them.                     *)

Peer(s, x) ==
    /\ conn[s].sock[x].st # "none"
    /\ ~conn[s].sock[x].rst
    /\ UNCHANGED <<idle, pc, batch, s_index, i_start, max_timeout, since>>

PeerSends(s, x) ==
    LET k == conn[s].sock[x] IN
    /\ Peer(s, x)
    /\ k.st = "est" /\ ~k.fin
    /\ k.sent < Len(PeerBytes(conn[s], x))
    /\ conn' = [conn EXCEPT ![s].sock[x] =
         [k EXCEPT !.rx = Append(k.rx, PeerBytes(conn[s], x)[k.sent + 1]),
                   !.sent = k.sent + 1]]

PeerShutsDown(s, x) ==
    /\ Peer(s, x)
    /\ conn[s].sock[x].st = "est" /\ ~conn[s].sock[x].fin
    /\ conn' = [conn EXCEPT ![s].sock[x].fin = TRUE]

\* A reset, a refused connection or a connection that timed out.
PeerResets(s, x) ==
    /\ Peer(s, x) /\ Resets
    /\ conn' = [conn EXCEPT ![s].sock[x].rst = TRUE]

\* What is in the kernel's send buffer reaches the peer, or some of it.
PeerReceives(s, x) ==
    /\ Peer(s, x)
    /\ conn[s].sock[x].st = "est"
    /\ \E n \in conn[s].sock[x].room + 1 .. SndBuf :
         conn' = [conn EXCEPT ![s].sock[x].room = n]

HandshakeDone(s, x) ==
    /\ Peer(s, x)
    /\ conn[s].sock[x].st = "syn"
    /\ conn' = [conn EXCEPT ![s].sock[x].st = "est"]

PeerStep ==
    \E s \in Slot, x \in Side :
        \/ PeerSends(s, x)
        \/ PeerShutsDown(s, x)
        \/ PeerResets(s, x)
        \/ PeerReceives(s, x)
        \/ HandshakeDone(s, x)

-----------------------------------------------------------------------------
(* The steps of the loop that are the same in both programs.                *)

AgentStep ==
    \/ AgentInterrupted
    \/ \E d \in Elapsed : AgentNoSession(d) \/ AgentRefuses(d)

TimeoutStep == TimeoutNotDue \/ TimeoutWalk \/ TimeoutSweep

-----------------------------------------------------------------------------
(* Fairness.                                                                *)

\* The loop goes on: a step of it that is possible is taken.  The clock
\* advances again and again, and signals do not interrupt every epoll_wait.
\* The fairness of handling events is stated of the batch alone: whatever an
\* event does to its session, it is taken out of the batch.
ClockAdvance == \E d \in Elapsed \ {0} : AgentNoSession(d)

LoopFairness ==
    /\ WF_vars(AgentStep)
    /\ SF_vars(ClockAdvance)
    /\ SF_vars(EpollWait)
    /\ WF_batch(\E e \in batch : EventDone(e))
    /\ WF_vars(TimeoutStep)

\* Both peers keep reading what the program writes, and handshakes end.
PeersRead ==
    \A s \in Slot, x \in Side :
        WF_vars(PeerReceives(s, x)) /\ WF_vars(HandshakeDone(s, x))

\* An exhausted pool keeps refusing browsers.
BrowsersKeepComing == SF_vars(\E d \in Elapsed : AgentRefuses(d))

-----------------------------------------------------------------------------
(* Properties of both programs.                                             *)

TypeOK ==
    /\ conn \in [Slot -> SlotType]
    /\ idle \in [Slot -> 0 .. Alive]
    /\ pc \in {"agent", "wait", "dispatch", "timeout"}
    /\ batch \subseteq EventType
    /\ s_index \in Slot
    /\ i_start \in Slot
    /\ max_timeout \in {Period, Fast}
    /\ since \in 0 .. Period + 1

\* No descriptor, epoll registration or packet outlives its session: a kernel
\* socket exists exactly while the session holds its descriptor, it is then
\* registered, and a slot that is not in use holds nothing.  This is what the
\* frees on the error paths (on_session_err, epoll_ctl failures, timeouts)
\* have to achieve together.
SlotHoldsWhatItOwns(c) ==
    /\ \A x \in Side :
         /\ c.fd[x] <=> c.sock[x].st # "none"
         /\ c.fd[x] <=> c.reg[x].on
         /\ c.fd[x] => c.flag
    /\ c.flag \/ (c.data = [x \in Side |-> <<>>] /\ ~c.h)

NoLeak == \A s \in Slot : SlotHoldsWhatItOwns(conn[s])

\* A session one side of which is closed survives only to flush: the other
\* side is open and something waits for it; and the descriptor of a side is
\* gone exactly when the session's status says so.
ClosedOnlyToFlush ==
    \A s \in Slot : conn[s].flag =>
        \A x \in Side :
            conn[s].status[x] = "CLOSE" =>
                /\ ~conn[s].fd[x]
                /\ conn[s].fd[Other(x)]
                /\ conn[s].data[x] # <<>>

\* No lost wakeup and no spinning: EPOLLOUT is armed on a side exactly while
\* something waits to be written to it, and EPOLLIN is armed unless the
\* session is being flushed.  With level-triggered epoll a missing bit stalls
\* the connection and a superfluous EPOLLOUT keeps the loop busy.
ArmedForWhatIsPending ==
    \A s \in Slot, x \in Side :
        conn[s].fd[x] =>
            /\ EPOLLOUT \in conn[s].reg[x].events
                 <=> conn[s].data[Other(x)] # <<>>
            /\ conn[s].status[Other(x)] # "CLOSE"
                 => EPOLLIN \in conn[s].reg[x].events

\* An event still to be handled, of a session that is in use, is about a
\* descriptor that is open: on_data_relay never gets a closed one although
\* earlier events of the same batch close descriptors and free sessions.
BatchNamesOpenFds ==
    \A e \in batch : conn[e.slot].flag => conn[e.slot].fd[e.fd]

\* A slot freed by an event stays as it is for the rest of the batch: later
\* events of the dead session do not touch it, and it is not handed out
\* again before the array of events has been used up.
FreedSlotUntouched ==
    [][pc = "dispatch" =>
         \A s \in Slot : ~conn[s].flag => conn'[s] = conn[s]]_vars

\* A session without events for SESSION_ALIVE_MS does not keep its slot: the
\* rotating 20% walk comes round to it, unless it has an event meanwhile.
IdleReaped ==
    \A s \in Slot :
        conn[s].flag /\ idle[s] = Alive
            ~> (~conn[s].flag \/ idle[s] < Alive)

\* A slot seen as a ProxySession: its phase, and the side that has closed.
Phase(c) ==
    IF ~c.flag THEN "free"
    ELSE IF \E x \in Side : c.status[x] = "CLOSE" THEN "flushing"
    ELSE IF c.fd[Svr] THEN "relaying"
    ELSE "waiting"

ClosedSide(c) ==
    IF c.flag /\ \E x \in Side : c.status[x] = "CLOSE"
    THEN CHOOSE x \in Side : c.status[x] = "CLOSE"
    ELSE "nobody"

-----------------------------------------------------------------------------
(* What a comment of the source says and the program does not do.           *)

\* client.c:91-93: once the server side is closed and everything received from
\* it has been sent on, the session is closed.  With a browser that reads, a
\* session whose server side is closed therefore ends.
ServerGoneFreed ==
    \A s \in Slot :
        conn[s].flag /\ conn[s].status[Svr] = "CLOSE" ~> ~conn[s].flag
=============================================================================
