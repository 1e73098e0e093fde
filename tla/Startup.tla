------------------------------- MODULE Startup -------------------------------
(***************************************************************************)
(* main() of both programs: what is acquired in which order before the     *)
(* loop, what happens when a step of it fails, and what the label `error`  *)
(* gives back.  The loop itself is EventLoop; here it takes and closes     *)
(* descriptors for its sessions until one of its epoll_waits fails.        *)
(*                                                                         *)
(* Descriptors are the kernel's numbers, the lowest free one first, because*)
(* the code takes "greater than 0" for "open".  Line references are to the *)
(* client; the server's main() differs only in the configuration.          *)
(***************************************************************************)
EXTENDS Base64, FiniteSetsExt

CONSTANTS
    MaxFd,          \* descriptors are 0..MaxFd
    TickRate,       \* ticks the counter really makes in a millisecond
    SampleTimes,    \* TICKS_SAMPLE_TIMES
    SampleSleep,    \* TICKS_SAMPLE_SLEEP
    Samples         \* ticks that may be counted while sleeping that long

ASSUME ClockAssumption ==
    /\ TickRate \in Nat \ {0}
    /\ SampleTimes \in Nat \ {0} /\ SampleSleep \in Nat \ {0}
    /\ Samples \subseteq Nat
ASSUME DescriptorAssumption == MaxFd \in Nat /\ MaxFd >= 7

VARIABLES
    program,        \* "client" or "server"
    inherited,      \* standard descriptors that were open when it started
    pc,             \* the next statement of main(), or "loop", "error", "exit"
    failed,         \* the call on which main() gave up
    p,              \* the program's variables and what the kernel holds for it
    ticks_per_ms,   \* g_ticks
    disturbed,      \* a signal has cut a sleep of timer_ticks_init short
    ret             \* main()'s ret

vars == <<decoder, program, inherited, pc, failed, p, ticks_per_ms, disturbed,
          ret>>

Fd == 0 .. MaxFd
Closed == -1        \* also the NULL of the two FILE pointers
Standard == {0, 1, 2}

Allocation == {"local_addr", "server_addr", "sessions", "events"}
Descriptor ==
    {"L.fd", "L.fault_fd", "agent_fd", "agent_epfd", "session_epfd", "session"}

\* open and heap are the kernel's and malloc()'s view; wrong (history) names
\* what was given back without being held.
ProcessType ==
    [fault_log : Fd \cup {Closed}, log : Fd \cup {Closed},
     local_addr : BOOLEAN, server_addr : BOOLEAN,
     g_sessions : BOOLEAN, sockets : SUBSET Fd,
     agent_fd : Fd \cup {Closed}, agent_epfd : Fd \cup {Closed},
     session_epfd : Fd \cup {Closed}, registered : BOOLEAN,
     open : SUBSET Fd, heap : SUBSET Allocation, wrong : SUBSET (Descriptor \cup Allocation)]

\* g_agent_server is static: its fd is 0 until init_agent_service sets it.
Init ==
    /\ DecodeInit
    /\ program \in {"client", "server"}
    /\ inherited \in {Standard, {1, 2}, {}}
    /\ pc = "ldlog_init"
    /\ failed = "nothing"
    /\ p = [fault_log |-> Closed, log |-> Closed, local_addr |-> FALSE,
            server_addr |-> FALSE, g_sessions |-> FALSE, sockets |-> {},
            agent_fd |-> 0, agent_epfd |-> Closed, session_epfd |-> Closed,
            registered |-> FALSE, open |-> {}, heap |-> {}, wrong |-> {}]
    /\ ticks_per_ms = 0
    /\ disturbed = FALSE
    /\ ret = 0

-----------------------------------------------------------------------------
(* The kernel and the heap.                                                 *)

Unused(q) == Fd \ (q.open \cup inherited)
NewFd(q) == Min(Unused(q))
Opened(q, d) == [q EXCEPT !.open = @ \cup {d}]

Close(q, d, name) ==
    IF d \in q.open THEN [q EXCEPT !.open = @ \ {d}]
    ELSE [q EXCEPT !.wrong = @ \cup {name}]

Malloc(q, name) == [q EXCEPT !.heap = @ \cup {name}]
Free(q, name) ==
    IF name \in q.heap THEN [q EXCEPT !.heap = @ \ {name}]
    ELSE [q EXCEPT !.wrong = @ \cup {name}]

-----------------------------------------------------------------------------
(* The functions main() calls, from a process to a process.                 *)

FcloseLog(q) == IF q.log = Closed THEN q ELSE Close(q, q.log, "L.fd")
FcloseFaultLog(q) ==
    IF q.fault_log = Closed THEN q ELSE Close(q, q.fault_log, "L.fault_fd")

\* The two fopen()s of ldlog_init; faults and logs: which of them succeeds.
FopenLogs(faults, logs) ==
    LET q == IF faults
             THEN [Opened(p, NewFd(p)) EXCEPT !.fault_log = NewFd(p)] ELSE p
    IN  IF logs THEN [Opened(q, NewFd(q)) EXCEPT !.log = NewFd(q)] ELSE q

\* After a failed fopen() the other file is closed; the pointers stay.
LdlogInit(faults, logs) ==
    LET q == FopenLogs(faults, logs)
    IN  IF faults /\ logs THEN q ELSE FcloseFaultLog(FcloseLog(q))

LdlogUninit(q) == FcloseFaultLog(FcloseLog(q))

FreeLocalAddr(q) ==
    IF q.local_addr THEN [Free(q, "local_addr") EXCEPT !.local_addr = FALSE]
    ELSE q
FreeServerAddr(q) ==
    IF q.server_addr THEN [Free(q, "server_addr") EXCEPT !.server_addr = FALSE]
    ELSE q

\* Slip: the descriptor is tested with >= 0.
CloseAgentServerZero(q) ==
    [(IF q.agent_fd >= 0 THEN Close(q, q.agent_fd, "agent_fd") ELSE q)
        EXCEPT !.agent_fd = Closed, !.registered = FALSE]
CloseAgentServer(q) ==
    [(IF q.agent_fd > 0 THEN Close(q, q.agent_fd, "agent_fd") ELSE q)
        EXCEPT !.agent_fd = Closed, !.registered = FALSE]

CloseAgentService(q) ==
    CloseAgentServer(
        IF q.agent_epfd > 0
        THEN [Close(q, q.agent_epfd, "agent_epfd") EXCEPT !.agent_epfd = Closed]
        ELSE q)

\* create_agent_server; stop: the call that fails.  What fails after socket()
\* closes the socket, if its number is above 0; server->fd is set last.
CreateAgentServer(q, stop) ==
    CASE stop = "socket" -> q
      [] stop = "listen" -> IF NewFd(q) > 0 THEN q ELSE Opened(q, NewFd(q))
      [] OTHER -> [Opened(q, NewFd(q)) EXCEPT !.agent_fd = NewFd(q)]

InitAgentService(q, stop) ==
    LET created == CreateAgentServer([q EXCEPT !.agent_fd = Closed], stop)
        polled == [Opened(created, NewFd(created))
                     EXCEPT !.agent_epfd = NewFd(created)]
    IN  CASE stop \in {"socket", "listen", "epoll_create"} ->
               CloseAgentService(created)
          [] stop = "epoll_ctl" -> CloseAgentService(polled)
          [] OTHER -> [polled EXCEPT !.registered = TRUE]

SessionPoolInit(q) == [Malloc(q, "sessions") EXCEPT !.g_sessions = TRUE]

\* *_session_pool_uninit frees the sessions, with their descriptors, and the
\* pool.  Slip: without the loop over the sessions.
SessionPoolDropped(q) ==
    IF q.g_sessions THEN [Free(q, "sessions") EXCEPT !.g_sessions = FALSE,
                                                     !.sockets = {}]
    ELSE q
SessionPoolUninit(q) ==
    IF q.g_sessions
    THEN [Free(q, "sessions") EXCEPT
            !.g_sessions = FALSE, !.sockets = {},
            !.open = @ \ {d \in q.sockets : d > 0}]
    ELSE q

CloseSessionEpfd(q) ==
    IF q.session_epfd > 0
    THEN [Close(q, q.session_epfd, "session_epfd") EXCEPT !.session_epfd = Closed]
    ELSE q

-----------------------------------------------------------------------------
(* The statements of main().                                                *)

At(here) == pc = here
Continue(next, q) == pc' = next /\ p' = q /\ UNCHANGED failed
GiveUp(what, q) == pc' = "error" /\ p' = q /\ failed' = what
Set(value) == ret' = value

SameProcess == UNCHANGED <<program, inherited>>
SameClock == UNCHANGED <<ticks_per_ms, disturbed>>

\* ldlog_init: mkdir() or one of the fopen()s may fail.
InitLog ==
    /\ At("ldlog_init")
    /\ \/ GiveUp("ldlog_init", p) /\ Set(-1)                  \* mkdir
       \/ \E faults, logs \in BOOLEAN :
            IF faults /\ logs
            THEN Continue("timer_ticks_init", LdlogInit(TRUE, TRUE)) /\ Set(0)
            ELSE GiveUp("ldlog_init", LdlogInit(faults, logs)) /\ Set(-1)
    /\ SameProcess /\ SameClock /\ UNCHANGED decoder

SumOf(sample) ==
    LET upto[n \in 0 .. SampleTimes] ==
            IF n = 0 THEN 0 ELSE upto[n - 1] + sample[n]
    IN  upto[SampleTimes]

\* timer_ticks_init: the mean of the samples.  Slip: the first one is not
\* summed up.
PerMsOneShort(sample) ==
    ((SumOf(sample) - sample[1]) \div SampleTimes) \div SampleSleep
PerMs(sample) == (SumOf(sample) \div SampleTimes) \div SampleSleep

\* usleep() sleeps at least as long as it is told, unless a signal that is
\* already installed arrives.
TimerTicksInit ==
    /\ At("timer_ticks_init")
    /\ \E sample \in [1 .. SampleTimes -> Samples] :
         /\ ticks_per_ms' = PerMs(sample)
         /\ disturbed' = \E i \in 1 .. SampleTimes :
                            sample[i] < SampleSleep * TickRate
    /\ ticks_per_ms' > 0              \* assert(g_ticks.ticks_per_ms)
    /\ Continue("load", p)
    /\ SameProcess /\ UNCHANGED <<decoder, ret>>

\* load_cli_proxy up to the key.  json_validate makes sure that the fields
\* are there, with values of the right kind; strdup() may fail, ports be 0.
LoadCliProxy ==
    /\ program = "client" /\ At("load")
    /\ LET local == [Malloc(p, "local_addr") EXCEPT !.local_addr = TRUE]
           server == [Malloc(local, "server_addr") EXCEPT !.server_addr = TRUE]
       IN  \/ \E q \in {p, local, server} :
                GiveUp("load", FreeServerAddr(FreeLocalAddr(q))) /\ Set(-1)
           \/ Continue("decode", server) /\ UNCHANGED ret
    /\ SameProcess /\ SameClock /\ UNCHANGED decoder

LoadSerProxy ==
    /\ program = "server" /\ At("load")
    /\ LET local == [Malloc(p, "local_addr") EXCEPT !.local_addr = TRUE]
       IN  \/ \E q \in {p, local} :
                GiveUp("load", FreeLocalAddr(q)) /\ Set(-1)
           \/ Continue("decode", local) /\ UNCHANGED ret
    /\ SameProcess /\ SameClock /\ UNCHANGED decoder

DecodeKey ==
    /\ At("decode")
    /\ Decode
    /\ SameProcess /\ SameClock /\ UNCHANGED <<pc, failed, p, ret>>

\* Slip: the result of Base64Decode is not looked at.
KeyDecodedUnseen(prog) ==
    /\ program = prog /\ At("decode") /\ result # Busy
    /\ Continue("ciper_init", p) /\ Set(0)
    /\ SameProcess /\ SameClock /\ UNCHANGED decoder

\* The rest of load_*_proxy.
KeyDecoded(prog) ==
    /\ program = prog /\ At("decode") /\ result # Busy
    /\ IF result < 0
       THEN GiveUp("load", FreeServerAddr(FreeLocalAddr(p))) /\ Set(-1)
       ELSE Continue("ciper_init", p) /\ Set(0)
    /\ SameProcess /\ SameClock /\ UNCHANGED decoder

ClientKeyDecoded == KeyDecoded("client")
ServerKeyDecoded == KeyDecoded("server")

\* ciper_init: the length is the constant it is compared with.
CiperInit ==
    /\ At("ciper_init")
    /\ Continue("pool_init", p) /\ Set(0)
    /\ SameProcess /\ SameClock /\ UNCHANGED decoder

PoolInit(prog) ==
    /\ program = prog /\ At("pool_init")
    /\ \/ GiveUp("pool_init", p) /\ Set(-1)
       \/ Continue("agent_service", SessionPoolInit(p)) /\ Set(0)
    /\ SameProcess /\ SameClock /\ UNCHANGED decoder

ClientPoolInit == PoolInit("client")
ServerPoolInit == PoolInit("server")

\* Slip: the result of init_agent_service is looked at but not kept in ret.
AgentServiceUnset(prog) ==
    /\ program = prog /\ At("agent_service")
    /\ \/ \E stop \in {"socket", "listen", "epoll_create", "epoll_ctl"} :
            GiveUp("agent_service", InitAgentService(p, stop)) /\ Set(0)
       \/ Continue("epoll_create", InitAgentService(p, "nowhere")) /\ Set(0)
    /\ SameProcess /\ SameClock /\ UNCHANGED decoder

AgentService(prog) ==
    /\ program = prog /\ At("agent_service")
    /\ \/ \E stop \in {"socket", "listen", "epoll_create", "epoll_ctl"} :
            GiveUp("agent_service", InitAgentService(p, stop)) /\ Set(-1)
       \/ Continue("epoll_create", InitAgentService(p, "nowhere")) /\ Set(0)
    /\ SameProcess /\ SameClock /\ UNCHANGED decoder

ClientAgentService == AgentService("client")
ServerAgentService == AgentService("server")

\* When epoll_create() or the malloc() after it fails, ret is still 0.
EpollCreate ==
    /\ At("epoll_create")
    /\ \/ GiveUp("epoll_create", p)
       \/ Continue("events", [Opened(p, NewFd(p)) EXCEPT !.session_epfd = NewFd(p)])
    /\ SameProcess /\ SameClock /\ UNCHANGED <<decoder, ret>>

EventsMalloc ==
    /\ At("events")
    /\ \/ GiveUp("events", p)
       \/ Continue("loop", Malloc(p, "events"))
    /\ SameProcess /\ SameClock /\ UNCHANGED <<decoder, ret>>

-----------------------------------------------------------------------------
(* The loop, as far as descriptors go.                                      *)

\* A session gets a descriptor, by accept() or by socket(); or gives it back.
SessionTakes ==
    /\ At("loop") /\ Unused(p) # {}
    /\ Continue("loop", [Opened(p, NewFd(p)) EXCEPT !.sockets = @ \cup {NewFd(p)}])
    /\ SameProcess /\ SameClock /\ UNCHANGED <<decoder, ret>>

SessionCloses ==
    /\ At("loop")
    /\ \E d \in p.sockets :
         Continue("loop", [Close(p, d, "session") EXCEPT !.sockets = @ \ {d}])
    /\ SameProcess /\ SameClock /\ UNCHANGED <<decoder, ret>>

\* epoll_wait fails otherwise than with EINTR: handle_agent_event closes its
\* epoll descriptor, handle_connections_event nothing.
LoopFails(prog) ==
    /\ program = prog /\ At("loop")
    /\ \/ GiveUp("handle_agent_event",
                 [Close(p, p.agent_epfd, "agent_epfd") EXCEPT !.agent_epfd = Closed])
       \/ GiveUp("handle_connections_event", p)
    /\ Set(-1)
    /\ SameProcess /\ SameClock /\ UNCHANGED decoder

ClientLoopFails == LoopFails("client")
ServerLoopFails == LoopFails("server")

-----------------------------------------------------------------------------
(* The label error.                                                         *)

\* close_agent_service(), *_session_pool_uninit(), ldlog_uninit().
CloseDown(q) == LdlogUninit(SessionPoolUninit(CloseAgentService(q)))

ClientError ==
    /\ program = "client" /\ At("error")
    /\ pc' = "exit"
    /\ p' = CloseDown(FreeServerAddr(FreeLocalAddr(CloseSessionEpfd(p))))
    /\ SameProcess /\ SameClock /\ UNCHANGED <<decoder, failed, ret>>

ServerError ==
    /\ program = "server" /\ At("error")
    /\ pc' = "exit"
    /\ p' = CloseDown(FreeLocalAddr(CloseSessionEpfd(p)))
    /\ SameProcess /\ SameClock /\ UNCHANGED <<decoder, failed, ret>>

Next ==
    \/ InitLog
    \/ TimerTicksInit
    \/ LoadCliProxy \/ LoadSerProxy
    \/ DecodeKey \/ ClientKeyDecoded \/ ServerKeyDecoded
    \/ CiperInit
    \/ ClientPoolInit \/ ServerPoolInit
    \/ ClientAgentService \/ ServerAgentService
    \/ EpollCreate
    \/ EventsMalloc
    \/ SessionTakes \/ SessionCloses
    \/ ClientLoopFails \/ ServerLoopFails
    \/ ClientError \/ ServerError

Spec == Init /\ [][Next]_vars

-----------------------------------------------------------------------------
(* Properties.                                                              *)

\* Nothing is given back that is not held: no address freed twice, although
\* load_*_proxy and main() both free them; no descriptor closed twice,
\* although init_agent_service and main() both call close_agent_service and
\* handle_agent_event closes what that closes; and not the standard input,
\* although g_agent_server.fd is 0 as long as nothing has set it.  The
\* exception is ldlog_init: after one failed fopen() it closes the other file,
\* keeps the pointer, and ldlog_uninit closes the file again.
ReleasedOnce ==
    p.wrong # {} => failed = "ldlog_init" /\ p.wrong \subseteq {"L.fd", "L.fault_fd"}

\* When main() returns everything is given back, whichever call failed, but
\* for the array of events, which nobody frees.  As closing depends on the
\* descriptor being greater than 0, this also says that none of the sockets
\* and epoll descriptors ever gets the number 0, even if the program is
\* started without a standard input.
NothingKept == pc = "exit" => p.open = {} /\ p.heap \subseteq {"events"}

\* The loop is entered, and goes on, only with everything it needs: a
\* listening socket registered with its epoll, an epoll for the sessions, a
\* pool, events, the addresses that g_agent_server points to, a decoded key.
RunsFullyBuilt ==
    pc = "loop" =>
        /\ p.registered
        /\ {p.agent_fd, p.agent_epfd, p.session_epfd} \subseteq p.open \ p.sockets
        /\ Cardinality({p.agent_fd, p.agent_epfd, p.session_epfd}) = 3
        /\ p.g_sessions /\ {"sessions", "events", "local_addr"} \subseteq p.heap
        /\ program = "client" => "server_addr" \in p.heap
        /\ result = 1

\* The program never ends on purpose, and its status says that it failed;
\* except when epoll_create() or the malloc() of the events fails: then it
\* returns the 0 of the call before.
ExitStatus ==
    pc = "exit" => (ret = 0 <=> failed \in {"epoll_create", "events"})

\* timer_ticks2ms.
Ticks2Ms(n) == n \div ticks_per_ms

\* Unless a signal disturbs the calibration, the program's clock is never
\* fast, so that no timeout comes too early: sleeping longer than asked only
\* makes a millisecond longer.
ClockNeverFast ==
    ticks_per_ms # 0 /\ ~disturbed =>
        \A n \in 0 .. 4 * TickRate : Ticks2Ms(n) <= n \div TickRate
=============================================================================
