---------------------------- MODULE StartupProofs ----------------------------
(***************************************************************************)
(* main() of both programs, for every number of descriptors it may have,   *)
(* every text in the configuration, every size of the key and every        *)
(* reading of the clock: what it acquires it gives back once, whichever    *)
(* call fails; the loop has what it needs; the key arrives as it was       *)
(* generated and stays in its buffer; the clock is never fast.             *)
(***************************************************************************)
EXTENDS Startup, TLAPS, FiniteSetTheorems, SequenceTheorems,
        WellFoundedInduction

-----------------------------------------------------------------------------
(* Who holds what.                                                          *)

\* The descriptors held for the sessions and the service.  0 stands for none:
\* that is what the code takes it for.
Held(q) == q.sockets \cup ({q.agent_fd, q.agent_epfd, q.session_epfd} \ {0, Closed})

\* Apart from the files of the log, of which those in L are open, the process
\* holds what its variables name, each descriptor in one of them.
Tidy(q, L) ==
    /\ q \in ProcessType
    /\ q.wrong = {}
    /\ 0 \notin q.sockets /\ q.agent_epfd # 0 /\ q.session_epfd # 0
    /\ q.open = L \cup Held(q)
    /\ L \cap Held(q) = {}
    /\ \A d \in {q.agent_fd, q.agent_epfd, q.session_epfd} : d \notin q.sockets
    /\ q.agent_fd > 0 => q.agent_fd \notin {q.agent_epfd, q.session_epfd}
    /\ q.agent_epfd > 0 => q.agent_epfd # q.session_epfd
    /\ q.local_addr <=> "local_addr" \in q.heap
    /\ q.server_addr <=> "server_addr" \in q.heap
    /\ q.g_sessions <=> "sessions" \in q.heap
    /\ ~q.g_sessions => q.sockets = {}

\* Both files of the log are open, and so nothing else gets the number 0.
Logs(q) == {q.log, q.fault_log}
Logged(q) ==
    /\ Tidy(q, Logs(q))
    /\ Closed \notin Logs(q) /\ q.log # q.fault_log
    /\ 0 \in Logs(q) \cup inherited

NoSessions(q) == ~q.g_sessions /\ "events" \notin q.heap
NoService(q) ==
    q.agent_fd = 0 /\ q.agent_epfd = Closed /\ ~q.registered
NoEpoll(q) == q.session_epfd = Closed /\ q.sockets = {}
Nowhere(q) == NoSessions(q) /\ NoService(q) /\ NoEpoll(q)

Addressed(q) ==
    q.local_addr /\ (program = "client" => q.server_addr)
Serving(q) == q.agent_fd > 0 /\ q.agent_epfd > 0 /\ q.registered

\* What main() has built when it comes to a statement.
Built ==
    CASE pc = "ldlog_init" ->
           /\ Tidy(p, {}) /\ Nowhere(p) /\ p.log = Closed /\ p.fault_log = Closed
           /\ ~p.local_addr /\ ~p.server_addr
      [] pc \in {"timer_ticks_init", "load"} ->
           Logged(p) /\ Nowhere(p) /\ ~p.local_addr /\ ~p.server_addr
      [] pc = "decode" -> Logged(p) /\ Nowhere(p) /\ Addressed(p)
      [] pc \in {"ciper_init", "pool_init"} ->
           Logged(p) /\ Nowhere(p) /\ Addressed(p) /\ result = 1
      [] pc = "agent_service" ->
           /\ Logged(p) /\ Addressed(p) /\ result = 1
           /\ p.g_sessions /\ "events" \notin p.heap /\ NoService(p) /\ NoEpoll(p)
      [] pc = "epoll_create" ->
           /\ Logged(p) /\ Addressed(p) /\ result = 1
           /\ p.g_sessions /\ "events" \notin p.heap /\ Serving(p) /\ NoEpoll(p)
      [] pc = "events" ->
           /\ Logged(p) /\ Addressed(p) /\ result = 1
           /\ p.g_sessions /\ "events" \notin p.heap /\ Serving(p)
           /\ p.session_epfd > 0 /\ p.sockets = {}
      [] pc = "loop" ->
           /\ Logged(p) /\ Addressed(p) /\ result = 1
           /\ p.g_sessions /\ "events" \in p.heap /\ Serving(p)
           /\ p.session_epfd > 0
      [] pc = "error" ->
           IF failed = "ldlog_init" THEN Tidy(p, {}) ELSE Logged(p)
      [] OTHER -> ReleasedOnce /\ p.open = {} /\ p.heap \subseteq {"events"}

Status ==
    CASE pc \in {"error", "exit"} -> ret = 0 <=> failed \in {"epoll_create", "events"}
      [] pc \in {"ldlog_init", "timer_ticks_init", "load", "decode"} -> failed = "nothing"
      [] OTHER -> ret = 0 /\ failed = "nothing"

Statement ==
    {"ldlog_init", "timer_ticks_init", "load", "decode", "ciper_init", "pool_init",
     "agent_service", "epoll_create", "events", "loop", "error", "exit"}

MainType ==
    /\ program \in {"client", "server"}
    /\ inherited \in {Standard, {1, 2}, {}}
    /\ pc \in Statement
    /\ program = "server" => ~p.server_addr

MainInv == MainType /\ Built /\ Status

-----------------------------------------------------------------------------
(* The lowest free descriptor.                                              *)

\* Every set of naturals that is not empty has a least element.
LEMMA LeastElement ==
    ASSUME NEW T \in SUBSET Nat, T # {}
    PROVE  \E n \in T : \A m \in T : n <= m
<1>1. PICK n \in T : \A m \in T : ~(<<m, n>> \in OpToRel(<, Nat))
  BY NatLessThanWellFounded, WFMin
<1>2. \A m \in T : ~(m < n)
  BY <1>1 DEF OpToRel
<1> QED
  BY <1>2

\* The kernel gives the lowest descriptor that is free.
LEMMA LowestIsFree ==
    ASSUME NEW q, Unused(q) # {}
    PROVE  /\ NewFd(q) \in Unused(q)
           /\ \A d \in Unused(q) : NewFd(q) <= d
<1>1. Unused(q) \in SUBSET Nat
  BY DescriptorAssumption DEF Unused, Fd
<1>2. \E d \in Unused(q) : \A e \in Unused(q) : d <= e
  BY <1>1, LeastElement
<1> QED
  BY <1>2 DEF NewFd, Min

\* With the standard descriptors and four more there is a free one.
LEMMA OneIsFree ==
    ASSUME NEW q, NEW a, NEW b, NEW c, NEW d,
           inherited \subseteq Standard, q.open \subseteq {a, b, c, d}
    PROVE  Unused(q) # {}
<1>1. {3, 4, 5, 6, 7} \subseteq Fd
  BY DescriptorAssumption DEF Fd
<1>2. \E e \in {3, 4, 5, 6, 7} : e \notin {a, b, c, d}
  OBVIOUS
<1>3. \A e \in {3, 4, 5, 6, 7} : e \notin inherited
  BY DEF Standard
<1> QED
  BY <1>1, <1>2, <1>3 DEF Unused

\* A new descriptor is a descriptor that nothing holds; it is 0 only when the
\* standard input was closed and 0 is free.
LEMMA NewFdIsNew ==
    ASSUME NEW q, Unused(q) # {}
    PROVE  /\ NewFd(q) \in Fd /\ NewFd(q) \in Nat
           /\ NewFd(q) \notin q.open /\ NewFd(q) \notin inherited
           /\ 0 \in q.open \cup inherited => NewFd(q) > 0
           /\ 0 \notin q.open \cup inherited => NewFd(q) = 0
<1>1. NewFd(q) \in Unused(q) /\ \A d \in Unused(q) : NewFd(q) <= d
  BY LowestIsFree
<1>2. 0 \in Fd /\ Fd \subseteq Nat
  BY DescriptorAssumption DEF Fd
<1>3. 0 \notin q.open \cup inherited => 0 \in Unused(q)
  BY <1>2 DEF Unused
<1> QED
  BY <1>1, <1>2, <1>3, DescriptorAssumption DEF Unused, Fd

-----------------------------------------------------------------------------
(* What is given back.                                                      *)

\* close() of the descriptor of the service.
LEMMA CloseServerTidy ==
    ASSUME NEW q, NEW L, Tidy(q, L)
    PROVE  LET r == CloseAgentServer(q) IN
           /\ Tidy(r, L)
           /\ r.agent_fd = Closed /\ ~r.registered
           /\ r = [q EXCEPT !.agent_fd = r.agent_fd, !.registered = r.registered,
                            !.open = r.open]
<1> DEFINE r == CloseAgentServer(q)
<1>1. q \in ProcessType /\ -1 \in Fd \cup {Closed}
  BY DEF Tidy, Closed
<1>2. CASE q.agent_fd > 0
  <2>1. q.agent_fd \in q.open
    BY <1>2 DEF Tidy, Held, Closed
  <2>2. r = [q EXCEPT !.agent_fd = Closed, !.registered = FALSE,
                      !.open = q.open \ {q.agent_fd}]
    BY <1>1, <1>2, <2>1 DEF CloseAgentServer, Close, ProcessType
  <2>3. r \in ProcessType /\ r.agent_fd = Closed /\ r.registered = FALSE
        /\ r.open = q.open \ {q.agent_fd}
        /\ r.agent_epfd = q.agent_epfd /\ r.session_epfd = q.session_epfd
        /\ r.sockets = q.sockets /\ r.wrong = q.wrong /\ r.heap = q.heap
        /\ r.local_addr = q.local_addr /\ r.server_addr = q.server_addr
        /\ r.g_sessions = q.g_sessions
    BY <1>1, <2>2 DEF ProcessType
  <2>4. Held(r) = Held(q) \ {q.agent_fd}
    BY <1>1, <1>2, <2>3 DEF Held, Tidy, Closed
  <2>5. q.agent_fd \notin L
    BY <1>2 DEF Tidy, Held, Closed
  <2>6. \A d \in q.sockets : d # -1
    BY <1>1, DescriptorAssumption DEF ProcessType, Fd
  <2>7. Tidy(r, L)
    BY <1>2, <2>3, <2>4, <2>5, <2>6 DEF Tidy, Closed
  <2> QED
    BY <1>1, <2>2, <2>3, <2>7 DEF ProcessType
<1>3. CASE ~(q.agent_fd > 0)
  <2>2. r = [q EXCEPT !.agent_fd = Closed, !.registered = FALSE]
    BY <1>1, <1>3 DEF CloseAgentServer, ProcessType
  <2>3. r \in ProcessType /\ r.agent_fd = Closed /\ r.registered = FALSE
        /\ r.open = q.open
        /\ r.agent_epfd = q.agent_epfd /\ r.session_epfd = q.session_epfd
        /\ r.sockets = q.sockets /\ r.wrong = q.wrong /\ r.heap = q.heap
        /\ r.local_addr = q.local_addr /\ r.server_addr = q.server_addr
        /\ r.g_sessions = q.g_sessions
    BY <1>1, <2>2 DEF ProcessType
  <2>4. q.agent_fd \in {0, Closed}
    BY <1>1, <1>3, DescriptorAssumption DEF ProcessType, Fd
  <2>5. Held(r) = Held(q)
    BY <2>3, <2>4 DEF Held
  <2>6. \A d \in q.sockets : d # -1
    BY <1>1, DescriptorAssumption DEF ProcessType, Fd
  <2>7. Tidy(r, L)
    BY <2>3, <2>5, <2>6 DEF Tidy, Closed
  <2> QED
    BY <1>1, <2>2, <2>3, <2>7 DEF ProcessType
<1> QED
  BY <1>1, <1>2, <1>3, DescriptorAssumption DEF ProcessType, Fd, Closed

\* close_agent_service(), from whichever state of the service.
LEMMA CloseServiceTidy ==
    ASSUME NEW q, NEW L, Tidy(q, L)
    PROVE  LET r == CloseAgentService(q) IN
           /\ Tidy(r, L)
           /\ r.agent_fd = Closed /\ ~r.registered /\ r.agent_epfd = Closed
           /\ r = [q EXCEPT !.agent_fd = r.agent_fd, !.registered = r.registered,
                            !.agent_epfd = r.agent_epfd, !.open = r.open]
<1> DEFINE m == IF q.agent_epfd > 0
                THEN [Close(q, q.agent_epfd, "agent_epfd") EXCEPT !.agent_epfd = Closed]
                ELSE q
<1> DEFINE r == CloseAgentServer(m)
<1>0. r = CloseAgentService(q)
  BY DEF CloseAgentService
<1>1. q \in ProcessType /\ -1 \in Fd \cup {Closed}
  BY DEF Tidy, Closed
<1>2. Tidy(m, L) /\ m.agent_epfd = Closed
      /\ m = [q EXCEPT !.agent_epfd = m.agent_epfd, !.open = m.open]
  <2>1. CASE q.agent_epfd > 0
    <3>1. q.agent_epfd \in q.open /\ q.agent_epfd \notin L
      BY <2>1 DEF Tidy, Held, Closed
    <3>2. m = [q EXCEPT !.agent_epfd = Closed, !.open = q.open \ {q.agent_epfd}]
      BY <1>1, <2>1, <3>1 DEF Close, ProcessType
    <3>3. m \in ProcessType /\ m.agent_epfd = Closed
          /\ m.open = q.open \ {q.agent_epfd}
          /\ m.agent_fd = q.agent_fd /\ m.session_epfd = q.session_epfd
          /\ m.sockets = q.sockets /\ m.wrong = q.wrong /\ m.heap = q.heap
          /\ m.local_addr = q.local_addr /\ m.server_addr = q.server_addr
          /\ m.g_sessions = q.g_sessions
      BY <1>1, <3>2 DEF ProcessType
    <3> HIDE DEF m
    <3>4. q.agent_epfd # q.agent_fd
      BY <1>1, <2>1, DescriptorAssumption DEF Tidy, ProcessType, Fd
    <3>5. Held(m) = Held(q) \ {q.agent_epfd}
      BY <1>1, <2>1, <3>3, <3>4 DEF Held, Tidy, Closed
    <3>6. \A d \in q.sockets : d # -1
      BY <1>1, DescriptorAssumption DEF ProcessType, Fd
    <3>7. Tidy(m, L)
      BY <2>1, <3>1, <3>3, <3>5, <3>6 DEF Tidy, Closed
    <3> QED
      BY <1>1, <3>2, <3>3, <3>7 DEF ProcessType
  <2>2. CASE ~(q.agent_epfd > 0)
    <3>1. q.agent_epfd = Closed
      BY <1>1, <2>2, DescriptorAssumption DEF Tidy, ProcessType, Fd
    <3>2. m = q
      BY <2>2
    <3> QED
      BY <1>1, <3>1, <3>2 DEF ProcessType
  <2> QED
    BY <1>1, <2>1, <2>2
<1> HIDE DEF m
<1>3. /\ Tidy(r, L) /\ r.agent_fd = Closed /\ ~r.registered
      /\ r = [m EXCEPT !.agent_fd = r.agent_fd, !.registered = r.registered,
                       !.open = r.open]
  BY <1>2, CloseServerTidy
<1> HIDE DEF r
<1>4. m \in ProcessType
  BY <1>2 DEF Tidy
<1>5. r.agent_epfd = m.agent_epfd
  BY <1>3, <1>4 DEF ProcessType
<1>6. r = [q EXCEPT !.agent_fd = r.agent_fd, !.registered = r.registered,
                    !.agent_epfd = r.agent_epfd, !.open = r.open]
  BY <1>1, <1>2, <1>3, <1>4, <1>5 DEF ProcessType
<1> QED
  BY <1>0, <1>2, <1>3, <1>5, <1>6

\* close() of the sessions' epoll.
LEMMA CloseEpfdTidy ==
    ASSUME NEW q, NEW L, Tidy(q, L)
    PROVE  LET r == CloseSessionEpfd(q) IN
           /\ Tidy(r, L)
           /\ r.session_epfd = Closed
           /\ r = [q EXCEPT !.session_epfd = r.session_epfd, !.open = r.open]
<1> DEFINE r == CloseSessionEpfd(q)
<1>1. q \in ProcessType /\ -1 \in Fd \cup {Closed}
  BY DEF Tidy, Closed
<1>2. CASE q.session_epfd > 0
  <2>1. q.session_epfd \in q.open /\ q.session_epfd \notin L
    BY <1>2 DEF Tidy, Held, Closed
  <2>2. r = [q EXCEPT !.session_epfd = Closed, !.open = q.open \ {q.session_epfd}]
    BY <1>1, <1>2, <2>1 DEF CloseSessionEpfd, Close, ProcessType
  <2>3. r \in ProcessType /\ r.session_epfd = Closed
        /\ r.open = q.open \ {q.session_epfd}
        /\ r.agent_fd = q.agent_fd /\ r.agent_epfd = q.agent_epfd
        /\ r.sockets = q.sockets /\ r.wrong = q.wrong /\ r.heap = q.heap
        /\ r.local_addr = q.local_addr /\ r.server_addr = q.server_addr
        /\ r.g_sessions = q.g_sessions
    BY <1>1, <2>2 DEF ProcessType
  <2> HIDE DEF r
  <2>4. q.session_epfd \notin {q.agent_fd, q.agent_epfd}
    BY <1>1, <1>2, DescriptorAssumption DEF Tidy, ProcessType, Fd
  <2>5. Held(r) = Held(q) \ {q.session_epfd}
    BY <1>1, <1>2, <2>3, <2>4 DEF Held, Tidy, Closed
  <2>6. \A d \in q.sockets : d # -1
    BY <1>1, DescriptorAssumption DEF ProcessType, Fd
  <2>7. Tidy(r, L)
    BY <1>2, <2>1, <2>3, <2>5, <2>6 DEF Tidy, Closed
  <2> QED
    BY <1>1, <2>2, <2>3, <2>7 DEF ProcessType, r
<1>3. CASE ~(q.session_epfd > 0)
  <2>1. q.session_epfd = Closed
    BY <1>1, <1>3, DescriptorAssumption DEF Tidy, ProcessType, Fd
  <2>2. r = q
    BY <1>3 DEF CloseSessionEpfd
  <2> QED
    BY <1>1, <2>1, <2>2 DEF ProcessType
<1> QED
  BY <1>2, <1>3

\* *_session_pool_uninit() gives the pool and every session's sockets back.
LEMMA PoolUninitTidy ==
    ASSUME NEW q, NEW L, Tidy(q, L)
    PROVE  LET r == SessionPoolUninit(q) IN
           /\ Tidy(r, L)
           /\ ~r.g_sessions /\ r.sockets = {}
           /\ r = [q EXCEPT !.g_sessions = r.g_sessions, !.sockets = r.sockets,
                            !.heap = r.heap, !.open = r.open]
<1> DEFINE r == SessionPoolUninit(q)
<1>1. q \in ProcessType
  BY DEF Tidy
<1>2. CASE q.g_sessions
  <2>1. "sessions" \in q.heap
    BY <1>2 DEF Tidy
  <2>2. {d \in q.sockets : d > 0} = q.sockets
    BY <1>1, DescriptorAssumption DEF Tidy, ProcessType, Fd
  <2>3. r = [q EXCEPT !.g_sessions = FALSE, !.sockets = {},
                      !.heap = q.heap \ {"sessions"}, !.open = q.open \ q.sockets]
    BY <1>1, <1>2, <2>1, <2>2 DEF SessionPoolUninit, Free, ProcessType
  <2>4. r \in ProcessType /\ r.g_sessions = FALSE /\ r.sockets = {}
        /\ r.heap = q.heap \ {"sessions"} /\ r.open = q.open \ q.sockets
        /\ r.agent_fd = q.agent_fd /\ r.agent_epfd = q.agent_epfd
        /\ r.session_epfd = q.session_epfd /\ r.wrong = q.wrong
        /\ r.local_addr = q.local_addr /\ r.server_addr = q.server_addr
    BY <1>1, <2>3 DEF ProcessType
  <2> HIDE DEF r
  <2>5. Held(r) = Held(q) \ q.sockets
    BY <2>4 DEF Held, Tidy
  <2>6. L \cap q.sockets = {}
    BY DEF Tidy, Held
  <2>7. Tidy(r, L)
    BY <1>2, <2>1, <2>4, <2>5, <2>6 DEF Tidy
  <2> QED
    BY <1>1, <2>3, <2>4, <2>7 DEF ProcessType, r
<1>3. CASE ~q.g_sessions
  <2>1. r = q
    BY <1>3 DEF SessionPoolUninit
  <2> QED
    BY <1>1, <1>3, <2>1 DEF ProcessType, Tidy
<1> QED
  BY <1>2, <1>3

\* free() of the two addresses, whether they were ever allocated or not.
LEMMA FreeLocalTidy ==
    ASSUME NEW q, NEW L, Tidy(q, L)
    PROVE  LET r == FreeLocalAddr(q) IN
           /\ Tidy(r, L)
           /\ ~r.local_addr
           /\ r = [q EXCEPT !.local_addr = r.local_addr, !.heap = r.heap]
           /\ "events" \in r.heap => "events" \in q.heap
           /\ "sessions" \in r.heap => "sessions" \in q.heap
<1> DEFINE r == FreeLocalAddr(q)
<1>1. q \in ProcessType
  BY DEF Tidy
<1>2. CASE q.local_addr
  <2>1. "local_addr" \in q.heap
    BY <1>2 DEF Tidy
  <2>2. r = [q EXCEPT !.local_addr = FALSE, !.heap = q.heap \ {"local_addr"}]
    BY <1>1, <1>2, <2>1 DEF FreeLocalAddr, Free, ProcessType
  <2>3. r \in ProcessType /\ r.local_addr = FALSE
        /\ r.heap = q.heap \ {"local_addr"} /\ r.open = q.open
        /\ r.sockets = q.sockets /\ r.g_sessions = q.g_sessions
        /\ r.agent_fd = q.agent_fd /\ r.agent_epfd = q.agent_epfd
        /\ r.session_epfd = q.session_epfd /\ r.wrong = q.wrong
        /\ r.server_addr = q.server_addr
    BY <1>1, <2>2 DEF ProcessType
  <2> HIDE DEF r
  <2>4. Held(r) = Held(q)
    BY <2>3 DEF Held
  <2>5. Tidy(r, L)
    BY <2>3, <2>4 DEF Tidy
  <2> QED
    BY <1>1, <2>2, <2>3, <2>5 DEF ProcessType, r
<1>3. CASE ~q.local_addr
  <2>1. r = q
    BY <1>3 DEF FreeLocalAddr
  <2> QED
    BY <1>1, <1>3, <2>1 DEF ProcessType
<1> QED
  BY <1>2, <1>3

LEMMA FreeServerTidy ==
    ASSUME NEW q, NEW L, Tidy(q, L)
    PROVE  LET r == FreeServerAddr(q) IN
           /\ Tidy(r, L)
           /\ ~r.server_addr
           /\ r = [q EXCEPT !.server_addr = r.server_addr, !.heap = r.heap]
           /\ "events" \in r.heap => "events" \in q.heap
           /\ "sessions" \in r.heap => "sessions" \in q.heap
<1> DEFINE r == FreeServerAddr(q)
<1>1. q \in ProcessType
  BY DEF Tidy
<1>2. CASE q.server_addr
  <2>1. "server_addr" \in q.heap
    BY <1>2 DEF Tidy
  <2>2. r = [q EXCEPT !.server_addr = FALSE, !.heap = q.heap \ {"server_addr"}]
    BY <1>1, <1>2, <2>1 DEF FreeServerAddr, Free, ProcessType
  <2>3. r \in ProcessType /\ r.server_addr = FALSE
        /\ r.heap = q.heap \ {"server_addr"} /\ r.open = q.open
        /\ r.sockets = q.sockets /\ r.g_sessions = q.g_sessions
        /\ r.agent_fd = q.agent_fd /\ r.agent_epfd = q.agent_epfd
        /\ r.session_epfd = q.session_epfd /\ r.wrong = q.wrong
        /\ r.local_addr = q.local_addr
    BY <1>1, <2>2 DEF ProcessType
  <2> HIDE DEF r
  <2>4. Held(r) = Held(q)
    BY <2>3 DEF Held
  <2>5. Tidy(r, L)
    BY <2>3, <2>4 DEF Tidy
  <2> QED
    BY <1>1, <2>2, <2>3, <2>5 DEF ProcessType, r
<1>3. CASE ~q.server_addr
  <2>1. r = q
    BY <1>3 DEF FreeServerAddr
  <2> QED
    BY <1>1, <1>3, <2>1 DEF ProcessType
<1> QED
  BY <1>2, <1>3

\* ldlog_uninit() closes what is open of the two files, and a pointer that
\* ldlog_init left behind once more.
LEMMA LogUninitCloses ==
    ASSUME NEW q, NEW L, Tidy(q, L), Held(q) = {},
           \/ L = {}
           \/ L = Logs(q) /\ Closed \notin L /\ q.log # q.fault_log
    PROVE  LET r == LdlogUninit(q) IN
           /\ r.open = {} /\ r.heap = q.heap
           /\ r.wrong \subseteq {"L.fd", "L.fault_fd"}
           /\ L # {} => r.wrong = {}
<1> DEFINE m == FcloseLog(q)
           r == FcloseFaultLog(m)
<1>1. q \in ProcessType /\ q.open = L /\ q.wrong = {}
  BY DEF Tidy
<1>2. CASE L = {}
  <2> DEFINE e == [q EXCEPT !.wrong = {"L.fd"}]
  <2>0. m = q \/ m = e
    BY <1>1, <1>2 DEF FcloseLog, Close, ProcessType
  <2>3. e \in ProcessType /\ e.open = {} /\ e.heap = q.heap /\ e.wrong = {"L.fd"}
    BY <1>1, <1>2 DEF ProcessType, Descriptor
  <2> HIDE DEF e, m
  <2>1. m \in ProcessType /\ m.open = {} /\ m.heap = q.heap
        /\ m.wrong \subseteq {"L.fd"}
    BY <1>1, <1>2, <2>0, <2>3
  <2>2. r.open = {} /\ r.heap = q.heap /\ r.wrong \subseteq {"L.fd", "L.fault_fd"}
    BY <2>1 DEF FcloseFaultLog, Close, ProcessType
  <2> QED
    BY <1>2, <2>2 DEF LdlogUninit, m
<1>3. CASE L = Logs(q) /\ Closed \notin L /\ q.log # q.fault_log
  <2>1. m = [q EXCEPT !.open = q.open \ {q.log}]
    BY <1>1, <1>3 DEF FcloseLog, Close, Logs, ProcessType
  <2>2. m \in ProcessType /\ m.open = {q.fault_log} /\ m.heap = q.heap
        /\ m.wrong = {} /\ m.fault_log = q.fault_log
    BY <1>1, <1>3, <2>1 DEF ProcessType, Logs
  <2> HIDE DEF m
  <2>3. r = [m EXCEPT !.open = m.open \ {q.fault_log}]
    BY <1>3, <2>2 DEF FcloseFaultLog, Close, Logs, ProcessType
  <2>4. r.open = {} /\ r.heap = q.heap /\ r.wrong = {}
    BY <2>2, <2>3 DEF ProcessType
  <2> QED
    BY <2>4 DEF LdlogUninit, m
<1> QED
  BY <1>2, <1>3

\* Everything the label error does, up to the log: nothing of the service and
\* of the sessions is left, and the addresses of the program are free.
LEMMA ErrorReleases ==
    ASSUME NEW q, NEW L, Tidy(q, L),
           \/ L = {}
           \/ L = Logs(q) /\ Closed \notin L /\ q.log # q.fault_log
    PROVE  LET r == CloseDown(q) IN
           q.session_epfd = Closed /\ ~q.local_addr /\ ~q.server_addr =>
             /\ r.open = {} /\ r.heap \subseteq {"events"}
             /\ r.wrong \subseteq {"L.fd", "L.fault_fd"}
             /\ L # {} => r.wrong = {}
<1> DEFINE a == CloseAgentService(q)
           b == SessionPoolUninit(a)
           r == LdlogUninit(b)
<1> SUFFICES ASSUME q.session_epfd = Closed, ~q.local_addr, ~q.server_addr
             PROVE  /\ r.open = {} /\ r.heap \subseteq {"events"}
                    /\ r.wrong \subseteq {"L.fd", "L.fault_fd"}
                    /\ L # {} => r.wrong = {}
  BY DEF CloseDown
<1>1. /\ Tidy(a, L) /\ a.agent_fd = Closed /\ a.agent_epfd = Closed
      /\ a = [q EXCEPT !.agent_fd = a.agent_fd, !.registered = a.registered,
                       !.agent_epfd = a.agent_epfd, !.open = a.open]
  BY CloseServiceTidy
<1> HIDE DEF a
<1>2. /\ Tidy(b, L) /\ ~b.g_sessions /\ b.sockets = {}
      /\ b = [a EXCEPT !.g_sessions = b.g_sessions, !.sockets = b.sockets,
                       !.heap = b.heap, !.open = b.open]
  BY <1>1, PoolUninitTidy
<1> HIDE DEF b
<1>3. q \in ProcessType /\ a \in ProcessType /\ b \in ProcessType
  BY <1>1, <1>2 DEF Tidy
<1>4. /\ a.session_epfd = Closed /\ ~a.local_addr /\ ~a.server_addr
      /\ a.log = q.log /\ a.fault_log = q.fault_log
  BY <1>1, <1>3 DEF ProcessType
<1>5. /\ b.session_epfd = Closed /\ ~b.local_addr /\ ~b.server_addr
      /\ b.log = q.log /\ b.fault_log = q.fault_log
      /\ b.agent_fd = Closed /\ b.agent_epfd = Closed
  BY <1>1, <1>2, <1>3, <1>4 DEF ProcessType
<1>6. Held(b) = {}
  BY <1>2, <1>5 DEF Held
<1>7. b.heap \subseteq {"events"}
  BY <1>2, <1>3, <1>5 DEF Tidy, ProcessType, Allocation
<1>8. L = {} \/ (L = Logs(b) /\ Closed \notin L /\ b.log # b.fault_log)
  BY <1>5 DEF Logs
<1> QED
  BY <1>2, <1>6, <1>7, <1>8, LogUninitCloses

-----------------------------------------------------------------------------
(* What is acquired.                                                        *)

\* The two fopen()s and what follows when one of them fails.
LEMMA LogOpened ==
    ASSUME MainInv, pc = "ldlog_init"
    PROVE  LET r == LdlogInit(TRUE, TRUE) IN
           /\ Logged(r) /\ Nowhere(r) /\ ~r.local_addr /\ ~r.server_addr
<1> DEFINE a == NewFd(p)
           q == [p EXCEPT !.open = p.open \cup {a}, !.fault_log = a]
           b == NewFd(q)
           r == [q EXCEPT !.open = q.open \cup {b}, !.log = b]
<1>1. /\ Tidy(p, {}) /\ Nowhere(p) /\ p.log = Closed /\ p.fault_log = Closed
      /\ ~p.local_addr /\ ~p.server_addr
      /\ p \in ProcessType /\ p.open = {} /\ Held(p) = {}
  BY DEF MainInv, Built, Tidy, Held, Nowhere, NoService, NoEpoll
<1>2. inherited \subseteq Standard
  BY DEF MainInv, MainType, Standard
<1>3. Unused(p) # {}
  BY <1>1, <1>2, OneIsFree
<1>4. /\ a \in Fd /\ a \in Nat /\ a \notin inherited
      /\ 0 \in inherited => a > 0
      /\ 0 \notin inherited => a = 0
  BY <1>1, <1>3, NewFdIsNew
<1> HIDE DEF a
<1>5. q \in ProcessType /\ q.open = {a} /\ q.fault_log = a /\ q.log = Closed
  BY <1>1, <1>4 DEF ProcessType
<1>6. Unused(q) # {}
  BY <1>2, <1>5, OneIsFree
<1>7. b \in Fd /\ b \in Nat /\ b \notin {a} /\ b \notin inherited
  BY <1>5, <1>6, NewFdIsNew
<1>8. r = LdlogInit(TRUE, TRUE)
  BY <1>1 DEF LdlogInit, FopenLogs, Opened, a, ProcessType
<1> HIDE DEF b
<1>9. /\ r \in ProcessType /\ r.open = {a, b} /\ r.fault_log = a /\ r.log = b
      /\ r.agent_fd = p.agent_fd /\ r.agent_epfd = p.agent_epfd
      /\ r.session_epfd = p.session_epfd /\ r.sockets = p.sockets
      /\ r.heap = p.heap /\ r.wrong = p.wrong /\ r.registered = p.registered
      /\ r.local_addr = p.local_addr /\ r.server_addr = p.server_addr
      /\ r.g_sessions = p.g_sessions
  BY <1>1, <1>5, <1>7 DEF ProcessType
<1> HIDE DEF r
<1>10. Held(r) = {}
  BY <1>1, <1>9 DEF Held
<1>11. Tidy(r, Logs(r))
  BY <1>1, <1>9, <1>10 DEF Tidy, Logs
<1>12. Logged(r)
  BY <1>4, <1>7, <1>9, <1>11 DEF Logged, Logs, Closed
<1> QED
  BY <1>1, <1>8, <1>9, <1>12 DEF Nowhere, NoSessions, NoService, NoEpoll

LEMMA LogNotOpened ==
    ASSUME MainInv, pc = "ldlog_init", NEW faults \in BOOLEAN, NEW logs \in BOOLEAN,
           ~(faults /\ logs)
    PROVE  LET r == LdlogInit(faults, logs) IN
           Tidy(r, {}) /\ r.server_addr = p.server_addr
<1> DEFINE a == NewFd(p)
           r == LdlogInit(faults, logs)
<1>1. /\ Tidy(p, {}) /\ Nowhere(p) /\ p.log = Closed /\ p.fault_log = Closed
      /\ ~p.local_addr /\ ~p.server_addr
      /\ p \in ProcessType /\ p.open = {} /\ Held(p) = {}
  BY DEF MainInv, Built, Tidy, Held, Nowhere, NoService, NoEpoll
<1>2. inherited \subseteq Standard
  BY DEF MainInv, MainType, Standard
<1>3. Unused(p) # {}
  BY <1>1, <1>2, OneIsFree
<1>4. a \in Fd /\ a # Closed
  BY <1>1, <1>3, NewFdIsNew DEF Closed
<1>5. r \in {p, [p EXCEPT !.fault_log = a], [p EXCEPT !.log = a]}
  <2>1. CASE ~faults /\ ~logs
    BY <1>1, <2>1 DEF LdlogInit, FopenLogs, FcloseLog, FcloseFaultLog
  <2>2. CASE faults /\ ~logs
    <3> DEFINE q == [Opened(p, a) EXCEPT !.fault_log = a]
    <3>1. /\ q = [p EXCEPT !.open = {a}, !.fault_log = a]
          /\ q.log = Closed /\ q.fault_log = a /\ q.open = {a} /\ q \in ProcessType
      BY <1>1, <1>4 DEF Opened, ProcessType
    <3>2. r = FcloseFaultLog(FcloseLog(q))
      BY <2>2 DEF LdlogInit, FopenLogs
    <3> HIDE DEF q, a
    <3>3. FcloseLog(q) = q
      BY <3>1 DEF FcloseLog
    <3>4. FcloseFaultLog(q) = [q EXCEPT !.open = {}]
      BY <1>4, <3>1 DEF FcloseFaultLog, Close, ProcessType
    <3>5. [q EXCEPT !.open = {}] = [p EXCEPT !.fault_log = a]
      BY <1>1, <1>4, <3>1 DEF ProcessType
    <3> QED
      BY <3>2, <3>3, <3>4, <3>5
  <2>3. CASE ~faults /\ logs
    <3> DEFINE q == [Opened(p, a) EXCEPT !.log = a]
    <3>1. /\ q = [p EXCEPT !.open = {a}, !.log = a]
          /\ q.fault_log = Closed /\ q.log = a /\ q.open = {a} /\ q \in ProcessType
      BY <1>1, <1>4 DEF Opened, ProcessType
    <3>2. r = FcloseFaultLog(FcloseLog(q))
      BY <2>3 DEF LdlogInit, FopenLogs
    <3> HIDE DEF q, a
    <3>3. FcloseLog(q) = [q EXCEPT !.open = {}]
      BY <1>4, <3>1 DEF FcloseLog, Close, ProcessType
    <3>4. [q EXCEPT !.open = {}] = [p EXCEPT !.log = a]
      BY <1>1, <1>4, <3>1 DEF ProcessType
    <3>5. [p EXCEPT !.log = a].fault_log = Closed
      BY <1>1 DEF ProcessType
    <3> QED
      BY <3>2, <3>3, <3>4, <3>5 DEF FcloseFaultLog
  <2> QED
    BY <2>1, <2>2, <2>3
<1> HIDE DEF r, a
<1>6. /\ r \in ProcessType
      /\ r.agent_fd = p.agent_fd /\ r.agent_epfd = p.agent_epfd
      /\ r.session_epfd = p.session_epfd /\ r.sockets = p.sockets
      /\ r.heap = p.heap /\ r.wrong = p.wrong /\ r.open = p.open
      /\ r.local_addr = p.local_addr /\ r.server_addr = p.server_addr
      /\ r.g_sessions = p.g_sessions
  BY <1>1, <1>4, <1>5 DEF ProcessType
<1>7. Held(r) = Held(p)
  BY <1>6 DEF Held
<1> QED
  BY <1>1, <1>6, <1>7 DEF Tidy, r

\* A process like one whose log is open, with the same files and at least the
\* descriptors of the log open, is one whose log is open.
LEMMA StaysLogged ==
    ASSUME NEW q, NEW r, Logged(q), Tidy(r, Logs(q)),
           r.log = q.log, r.fault_log = q.fault_log
    PROVE  Logged(r)
BY DEF Logged, Logs

\* A process whose log is open gets no descriptor 0, nor one that it holds.
LEMMA LoggedGetsNew ==
    ASSUME NEW q, Logged(q), Unused(q) # {}
    PROVE  /\ NewFd(q) \in Fd /\ NewFd(q) \in Nat /\ NewFd(q) > 0
           /\ NewFd(q) \notin q.open
           /\ NewFd(q) \notin Logs(q) /\ NewFd(q) \notin Held(q)
           /\ NewFd(q) \notin {q.agent_fd, q.agent_epfd, q.session_epfd}
           /\ NewFd(q) \notin q.sockets
<1>1. 0 \in q.open \cup inherited
  BY DEF Logged, Tidy
<1>2. NewFd(q) \in Fd /\ NewFd(q) \in Nat /\ NewFd(q) \notin q.open /\ NewFd(q) > 0
  BY <1>1, NewFdIsNew
<1> QED
  BY <1>2 DEF Logged, Tidy, Held, Closed

\* Every way out of create_agent_server() and init_agent_service().
LEMMA ServiceBuiltOrNot ==
    ASSUME NEW q, Logged(q), NoService(q), NoEpoll(q), inherited \subseteq Standard,
           NEW stop \in {"socket", "listen", "epoll_create", "epoll_ctl", "nowhere"}
    PROVE  LET r == InitAgentService(q, stop) IN
           /\ Logged(r)
           /\ stop = "nowhere" => Serving(r)
           /\ r.session_epfd = q.session_epfd /\ r.sockets = q.sockets
           /\ r.heap = q.heap /\ r.g_sessions = q.g_sessions
           /\ r.local_addr = q.local_addr /\ r.server_addr = q.server_addr
<1> DEFINE r == InitAgentService(q, stop)
           L == Logs(q)
           q0 == [q EXCEPT !.agent_fd = Closed]
           a == NewFd(q0)
           q1 == [q EXCEPT !.agent_fd = a, !.open = q.open \cup {a}]
           created == CreateAgentServer(q0, stop)
           b == NewFd(created)
           polled == [created EXCEPT !.agent_epfd = b, !.open = created.open \cup {b}]
<1>1. /\ q \in ProcessType /\ Tidy(q, L) /\ Held(q) = {} /\ q.open = L
      /\ L = {q.log, q.fault_log} /\ Closed \notin L
      /\ q.agent_epfd = Closed /\ q.session_epfd = Closed /\ q.sockets = {}
  BY DEF Logged, Tidy, NoService, NoEpoll, Held, Logs
<1>2. /\ q0 \in ProcessType /\ q0.open = q.open /\ q0.agent_fd = Closed
      /\ q0.log = q.log /\ q0.fault_log = q.fault_log
      /\ q0.agent_epfd = q.agent_epfd /\ q0.session_epfd = q.session_epfd
      /\ q0.sockets = q.sockets /\ q0.heap = q.heap /\ q0.wrong = q.wrong
      /\ q0.local_addr = q.local_addr /\ q0.server_addr = q.server_addr
      /\ q0.g_sessions = q.g_sessions
  BY <1>1 DEF ProcessType
<1>3. Held(q0) = {} /\ Tidy(q0, L) /\ Logged(q0)
  <2>1. Held(q0) = {}
    BY <1>1, <1>2 DEF Held
  <2>2. Tidy(q0, L)
    BY <1>1, <1>2, <2>1 DEF Tidy
  <2> QED
    BY <1>2, <2>1, <2>2, StaysLogged
<1>4. Unused(q0) # {}
  <2>1. q0.open \subseteq {q.log, q.fault_log, q.log, q.log}
    BY <1>1, <1>2
  <2> QED
    BY <2>1, OneIsFree
<1>5. a \in Fd /\ a \in Nat /\ a > 0 /\ a \notin q.open
  BY <1>2, <1>3, <1>4, LoggedGetsNew
<1>6. q1 = [Opened(q0, a) EXCEPT !.agent_fd = a]
  BY <1>1, <1>2 DEF Opened, ProcessType
<1>7. created = q0 \/ created = q1
  BY <1>5, <1>6 DEF CreateAgentServer
<1>8. stop \notin {"socket", "listen"} => created = q1
  BY <1>6 DEF CreateAgentServer
<1> HIDE DEF a, q0
<1>10. /\ q1 \in ProcessType /\ q1.open = q.open \cup {a} /\ q1.agent_fd = a
       /\ q1.log = q.log /\ q1.fault_log = q.fault_log
       /\ q1.agent_epfd = q.agent_epfd /\ q1.session_epfd = q.session_epfd
       /\ q1.sockets = q.sockets /\ q1.heap = q.heap /\ q1.wrong = q.wrong
       /\ q1.local_addr = q.local_addr /\ q1.server_addr = q.server_addr
       /\ q1.g_sessions = q.g_sessions
  BY <1>1, <1>5 DEF ProcessType
<1> HIDE DEF q1
<1>11. Held(q1) = {a} /\ Tidy(q1, L) /\ Logged(q1)
  <2>1. Held(q1) = {a}
    BY <1>1, <1>5, <1>10 DEF Held, Closed
  <2>2. Tidy(q1, L)
    BY <1>1, <1>5, <1>10, <2>1 DEF Tidy, Closed
  <2> QED
    BY <1>10, <2>1, <2>2, StaysLogged
<1>12. /\ created \in ProcessType /\ Tidy(created, L) /\ Logged(created)
       /\ created.log = q.log /\ created.fault_log = q.fault_log
       /\ created.session_epfd = q.session_epfd /\ created.sockets = q.sockets
       /\ created.heap = q.heap /\ created.g_sessions = q.g_sessions
       /\ created.local_addr = q.local_addr /\ created.server_addr = q.server_addr
       /\ created.agent_epfd = Closed /\ created.wrong = q.wrong
       /\ created.open \subseteq {q.log, q.fault_log, a}
  BY <1>1, <1>2, <1>3, <1>7, <1>10, <1>11
<1>9. r = IF stop \in {"socket", "listen", "epoll_create"} THEN CloseAgentService(created)
          ELSE IF stop = "epoll_ctl" THEN CloseAgentService(polled)
          ELSE [polled EXCEPT !.registered = TRUE]
  <2>2. polled = [Opened(created, b) EXCEPT !.agent_epfd = b]
    BY <1>12 DEF Opened, ProcessType
  <2> QED
    BY <2>2, Zenon DEF InitAgentService, q0
<1>13. created.open \subseteq {q.log, q.fault_log, a, a}
  BY <1>12
<1>14. Unused(created) # {}
  BY <1>13, OneIsFree
<1> HIDE DEF created
<1>15. /\ b \in Fd /\ b \in Nat /\ b > 0 /\ b \notin created.open
       /\ b \notin {created.agent_fd, created.session_epfd} /\ b \notin L
       /\ b \notin Held(created)
  BY <1>12, <1>14, LoggedGetsNew DEF Logs
<1> HIDE DEF b
<1>16. /\ polled \in ProcessType /\ polled.open = created.open \cup {b}
       /\ polled.agent_fd = created.agent_fd /\ polled.agent_epfd = b
       /\ polled.log = q.log /\ polled.fault_log = q.fault_log
       /\ polled.session_epfd = q.session_epfd /\ polled.sockets = q.sockets
       /\ polled.heap = q.heap /\ polled.g_sessions = q.g_sessions
       /\ polled.local_addr = q.local_addr /\ polled.server_addr = q.server_addr
       /\ polled.wrong = q.wrong
  BY <1>12, <1>15 DEF ProcessType
<1> HIDE DEF polled
<1>17. Held(polled) = Held(created) \cup {b}
  BY <1>12, <1>15, <1>16 DEF Held, Closed
<1>18. Tidy(polled, L)
  BY <1>1, <1>12, <1>15, <1>16, <1>17 DEF Tidy, Closed
<1>19. CASE stop = "nowhere"
  <2>1. r = [polled EXCEPT !.registered = TRUE]
    BY <1>9, <1>19
  <2>2. /\ r \in ProcessType /\ r.open = polled.open /\ r.registered = TRUE
        /\ r.agent_fd = a /\ r.agent_epfd = b
        /\ r.log = q.log /\ r.fault_log = q.fault_log
        /\ r.session_epfd = q.session_epfd /\ r.sockets = q.sockets
        /\ r.heap = q.heap /\ r.g_sessions = q.g_sessions
        /\ r.local_addr = q.local_addr /\ r.server_addr = q.server_addr
        /\ r.wrong = q.wrong
    BY <1>8, <1>10, <1>16, <1>19, <2>1 DEF ProcessType
  <2> HIDE DEF r
  <2>3. Held(r) = Held(polled)
    BY <1>8, <1>10, <1>16, <1>19, <2>2 DEF Held
  <2>4. Tidy(r, L)
    <3>1. r.agent_fd = polled.agent_fd /\ r.agent_epfd = polled.agent_epfd
      BY <1>8, <1>10, <1>16, <1>19, <2>2
    <3> QED
      BY <1>16, <1>18, <2>2, <2>3, <3>1 DEF Tidy
  <2> QED
    BY <1>5, <1>15, <2>2, <2>4, StaysLogged DEF Serving, r
<1> HIDE DEF r
<1>20. ASSUME NEW s, s = created \/ s = polled, r = CloseAgentService(s)
       PROVE  /\ Logged(r)
              /\ r.session_epfd = q.session_epfd /\ r.sockets = q.sockets
              /\ r.heap = q.heap /\ r.g_sessions = q.g_sessions
              /\ r.local_addr = q.local_addr /\ r.server_addr = q.server_addr
  <2>1. /\ s \in ProcessType /\ Tidy(s, L)
        /\ s.log = q.log /\ s.fault_log = q.fault_log
        /\ s.session_epfd = q.session_epfd /\ s.sockets = q.sockets
        /\ s.heap = q.heap /\ s.g_sessions = q.g_sessions
        /\ s.local_addr = q.local_addr /\ s.server_addr = q.server_addr
    BY <1>12, <1>16, <1>18, <1>20
  <2>2. /\ Tidy(r, L)
        /\ r = [s EXCEPT !.agent_fd = r.agent_fd, !.registered = r.registered,
                         !.agent_epfd = r.agent_epfd, !.open = r.open]
    BY <1>20, <2>1, CloseServiceTidy
  <2>3. /\ r.log = q.log /\ r.fault_log = q.fault_log
        /\ r.session_epfd = q.session_epfd /\ r.sockets = q.sockets
        /\ r.heap = q.heap /\ r.g_sessions = q.g_sessions
        /\ r.local_addr = q.local_addr /\ r.server_addr = q.server_addr
    BY <2>1, <2>2 DEF ProcessType
  <2> QED
    BY <2>2, <2>3, StaysLogged
<1> QED
  BY <1>9, <1>19, <1>20 DEF r

-----------------------------------------------------------------------------
(* The statements of main().                                                *)

\* What main() has built does not depend on anything but the process.
LEMMA InitLogOK ==
    ASSUME MainInv, InitLog
    PROVE  MainInv'
<1>1. pc = "ldlog_init" /\ program' = program /\ inherited' = inherited
  BY DEF InitLog, At, SameProcess
<1>2. Tidy(p, {}) /\ ~p.server_addr /\ failed = "nothing"
  BY <1>1 DEF MainInv, Built, Status
<1>3. CASE GiveUp("ldlog_init", p) /\ Set(-1)
  BY <1>1, <1>2, <1>3 DEF MainInv, MainType, Built, Status, GiveUp, Set, Statement
<1>4. ASSUME NEW faults \in BOOLEAN, NEW logs \in BOOLEAN,
             IF faults /\ logs
             THEN Continue("timer_ticks_init", LdlogInit(TRUE, TRUE)) /\ Set(0)
             ELSE GiveUp("ldlog_init", LdlogInit(faults, logs)) /\ Set(-1)
      PROVE  MainInv'
  <2>1. CASE faults /\ logs
    <3>1. pc' = "timer_ticks_init" /\ p' = LdlogInit(TRUE, TRUE) /\ failed' = failed
      BY <1>4, <2>1 DEF Continue
    <3>2. Logged(p') /\ Nowhere(p') /\ ~p'.local_addr /\ ~p'.server_addr
      BY <1>1, <3>1, LogOpened
    <3>3. Built'
      BY <1>1, <3>1, <3>2 DEF Built, Logged
    <3> QED
      BY <1>1, <1>2, <3>1, <3>2, <3>3 DEF MainInv, MainType, Status, Statement
  <2>2. CASE ~(faults /\ logs)
    <3>1. pc' = "error" /\ p' = LdlogInit(faults, logs) /\ failed' = "ldlog_init"
          /\ ret' = -1
      BY <1>4, <2>2 DEF GiveUp, Set
    <3>2. Tidy(p', {}) /\ p'.server_addr = p.server_addr
      BY <1>1, <2>2, <3>1, LogNotOpened
    <3>3. Built'
      BY <3>1, <3>2 DEF Built
    <3> QED
      BY <1>1, <1>2, <3>1, <3>2, <3>3 DEF MainInv, MainType, Status, Statement
  <2> QED
    BY <2>1, <2>2
<1> QED
  BY <1>1, <1>3, <1>4 DEF InitLog

LEMMA TimerTicksInitOK ==
    ASSUME MainInv, TimerTicksInit
    PROVE  MainInv'
<1>1. /\ pc = "timer_ticks_init" /\ pc' = "load" /\ p' = p /\ failed' = failed
      /\ program' = program /\ inherited' = inherited /\ ret' = ret
  BY DEF TimerTicksInit, At, SameProcess, Continue
<1>2. Logged(p) /\ Nowhere(p) /\ ~p.local_addr /\ ~p.server_addr
  BY <1>1 DEF MainInv, Built
<1>3. Built'
  BY <1>1, <1>2 DEF Built, Logged
<1> QED
  BY <1>1, <1>2, <1>3 DEF MainInv, MainType, Status, Statement

\* strdup() of an address.
LEMMA AddressTidy ==
    ASSUME NEW q, Logged(q), NEW name \in {"local_addr", "server_addr"}
    PROVE  LET r == IF name = "local_addr"
                    THEN [Malloc(q, name) EXCEPT !.local_addr = TRUE]
                    ELSE [Malloc(q, name) EXCEPT !.server_addr = TRUE] IN
           /\ Logged(r)
           /\ r.local_addr <=> name = "local_addr" \/ q.local_addr
           /\ r.server_addr <=> name = "server_addr" \/ q.server_addr
           /\ Nowhere(q) => Nowhere(r)
<1> DEFINE r == IF name = "local_addr"
                THEN [Malloc(q, name) EXCEPT !.local_addr = TRUE]
                ELSE [Malloc(q, name) EXCEPT !.server_addr = TRUE]
<1>1. q \in ProcessType /\ Tidy(q, Logs(q))
  BY DEF Logged, Tidy
<1> DEFINE Fields ==
             /\ r \in ProcessType /\ r.open = q.open /\ r.heap = q.heap \cup {name}
             /\ r.local_addr <=> name = "local_addr" \/ q.local_addr
             /\ r.server_addr <=> name = "server_addr" \/ q.server_addr
             /\ r.agent_fd = q.agent_fd /\ r.agent_epfd = q.agent_epfd
             /\ r.log = q.log /\ r.fault_log = q.fault_log
             /\ r.registered = q.registered
             /\ r.session_epfd = q.session_epfd /\ r.sockets = q.sockets
             /\ r.g_sessions = q.g_sessions /\ r.wrong = q.wrong
<1>2. ASSUME name = "local_addr" PROVE Fields
  <2>1. r = [q EXCEPT !.heap = q.heap \cup {name}, !.local_addr = TRUE]
    BY <1>1, <1>2 DEF Malloc, ProcessType
  <2> QED
    BY <1>1, <1>2, <2>1 DEF ProcessType, Allocation
<1>3. ASSUME name = "server_addr" PROVE Fields
  <2>1. r = [q EXCEPT !.heap = q.heap \cup {name}, !.server_addr = TRUE]
    BY <1>1, <1>3 DEF Malloc, ProcessType
  <2> QED
    BY <1>1, <1>3, <2>1 DEF ProcessType, Allocation
<1>7. Fields
  BY <1>2, <1>3
<1> HIDE DEF r
<1>4. Held(r) = Held(q)
  BY <1>7 DEF Held
<1>5. Tidy(r, Logs(q))
  BY <1>1, <1>7, <1>4 DEF Tidy
<1>8. Logged(r)
  BY <1>7, <1>5, StaysLogged
<1> QED
  BY <1>7, <1>8 DEF r, Nowhere, NoSessions, NoService, NoEpoll

\* Giving up in load_*_proxy frees what it had of the addresses.
LEMMA AddressesFreed ==
    ASSUME NEW q, Logged(q)
    PROVE  /\ Logged(FreeLocalAddr(q)) /\ Logged(FreeServerAddr(q))
           /\ FreeLocalAddr(q).server_addr = q.server_addr
           /\ ~FreeServerAddr(q).server_addr
<1>1. Tidy(q, Logs(q)) /\ q \in ProcessType
  BY DEF Logged, Tidy
<1> DEFINE a == FreeLocalAddr(q)
           b == FreeServerAddr(q)
<1>2. Tidy(a, Logs(q)) /\ a = [q EXCEPT !.local_addr = a.local_addr, !.heap = a.heap]
  BY <1>1, FreeLocalTidy
<1>3. /\ Tidy(b, Logs(q)) /\ ~b.server_addr
      /\ b = [q EXCEPT !.server_addr = b.server_addr, !.heap = b.heap]
  BY <1>1, FreeServerTidy
<1> HIDE DEF a, b
<1>4. /\ a.log = q.log /\ a.fault_log = q.fault_log /\ a.server_addr = q.server_addr
      /\ b.log = q.log /\ b.fault_log = q.fault_log
  BY <1>1, <1>2, <1>3 DEF ProcessType
<1> QED
  BY <1>2, <1>3, <1>4, StaysLogged DEF a, b

LEMMA LoadCliProxyOK ==
    ASSUME MainInv, LoadCliProxy
    PROVE  MainInv'
<1> DEFINE local == [Malloc(p, "local_addr") EXCEPT !.local_addr = TRUE]
           server == [Malloc(local, "server_addr") EXCEPT !.server_addr = TRUE]
<1>1. /\ pc = "load" /\ program = "client"
      /\ program' = program /\ inherited' = inherited
  BY DEF LoadCliProxy, At, SameProcess
<1>2. Logged(p) /\ Nowhere(p) /\ failed = "nothing"
  BY <1>1 DEF MainInv, Built, Status
<1>3. Logged(local) /\ Nowhere(local) /\ local.local_addr
  BY <1>2, AddressTidy
<1> HIDE DEF local
<1>4. /\ Logged(server) /\ Nowhere(server) /\ server.local_addr /\ server.server_addr
  BY <1>3, AddressTidy
<1> HIDE DEF server
<1>5. ASSUME NEW q \in {p, local, server},
             GiveUp("load", FreeServerAddr(FreeLocalAddr(q))) /\ Set(-1)
      PROVE  MainInv'
  <2>1. /\ pc' = "error" /\ p' = FreeServerAddr(FreeLocalAddr(q))
        /\ failed' = "load" /\ ret' = -1
    BY <1>5 DEF GiveUp, Set
  <2>2. Logged(q)
    BY <1>2, <1>3, <1>4
  <2>3. Logged(p')
    BY <2>1, <2>2, AddressesFreed
  <2>4. Built'
    BY <1>1, <2>1, <2>3 DEF Built, Logged
  <2> QED
    BY <1>1, <2>1, <2>4 DEF MainInv, MainType, Status, Statement
<1>6. CASE Continue("decode", server) /\ UNCHANGED ret
  <2>1. pc' = "decode" /\ p' = server /\ failed' = failed
    BY <1>6 DEF Continue
  <2>2. Logged(p') /\ Nowhere(p') /\ p'.local_addr /\ p'.server_addr
    BY <1>4, <2>1
  <2>3. Built'
    BY <1>1, <2>1, <2>2 DEF Built, Logged, Addressed
  <2> QED
    BY <1>1, <1>2, <2>1, <2>3 DEF MainInv, MainType, Status, Statement
<1> QED
  BY <1>5, <1>6 DEF LoadCliProxy, local, server

LEMMA LoadSerProxyOK ==
    ASSUME MainInv, LoadSerProxy
    PROVE  MainInv'
<1> DEFINE local == [Malloc(p, "local_addr") EXCEPT !.local_addr = TRUE]
<1>1. /\ pc = "load" /\ program = "server"
      /\ program' = program /\ inherited' = inherited
  BY DEF LoadSerProxy, At, SameProcess
<1>2. Logged(p) /\ Nowhere(p) /\ failed = "nothing" /\ ~p.server_addr
  BY <1>1 DEF MainInv, Built, Status
<1>3. Logged(local) /\ Nowhere(local) /\ local.local_addr
      /\ ~local.server_addr
  BY <1>2, AddressTidy
<1> HIDE DEF local
<1>4. ASSUME NEW q \in {p, local}, GiveUp("load", FreeLocalAddr(q)) /\ Set(-1)
      PROVE  MainInv'
  <2>1. /\ pc' = "error" /\ p' = FreeLocalAddr(q) /\ failed' = "load" /\ ret' = -1
    BY <1>4 DEF GiveUp, Set
  <2>2. Logged(q) /\ ~q.server_addr
    BY <1>2, <1>3
  <2>3. Logged(p') /\ ~p'.server_addr
    BY <2>1, <2>2, AddressesFreed
  <2>4. Built'
    BY <1>1, <2>1, <2>3 DEF Built, Logged
  <2> QED
    BY <1>1, <2>1, <2>3, <2>4 DEF MainInv, MainType, Status, Statement
<1>5. CASE Continue("decode", local) /\ UNCHANGED ret
  <2>1. pc' = "decode" /\ p' = local /\ failed' = failed
    BY <1>5 DEF Continue
  <2>2. Logged(p') /\ Nowhere(p') /\ p'.local_addr /\ ~p'.server_addr
    BY <1>2, <1>3, <2>1
  <2>3. Built'
    BY <1>1, <2>1, <2>2 DEF Built, Logged, Addressed
  <2> QED
    BY <1>1, <1>2, <2>1, <2>2, <2>3 DEF MainInv, MainType, Status, Statement
<1> QED
  BY <1>4, <1>5 DEF LoadSerProxy, local

\* A step of the decoder keeps what the rest of main() has built.
LEMMA DecodeKeyOK ==
    ASSUME MainInv, DecodeKey
    PROVE  MainInv'
<1>1. /\ pc = "decode" /\ pc' = pc /\ p' = p /\ failed' = failed
      /\ program' = program /\ inherited' = inherited /\ ret' = ret
  BY DEF DecodeKey, At, SameProcess
<1>2. Logged(p) /\ Nowhere(p) /\ Addressed(p)
  BY <1>1 DEF MainInv, Built
<1>3. Built'
  BY <1>1, <1>2 DEF Built, Logged, Addressed
<1> QED
  BY <1>1, <1>2, <1>3 DEF MainInv, MainType, Status, Statement

LEMMA KeyDecodedOK ==
    ASSUME MainInv, result \in {Busy, 1, -1}, NEW prog, KeyDecoded(prog)
    PROVE  MainInv'
<1>1. /\ pc = "decode" /\ result # Busy /\ result' = result
      /\ program' = program /\ inherited' = inherited
  BY DEF KeyDecoded, At, SameProcess, decoder
<1>2. Logged(p) /\ Nowhere(p) /\ Addressed(p) /\ failed = "nothing"
  BY <1>1 DEF MainInv, Built, Status
<1>3. CASE result < 0
  <2>1. /\ pc' = "error" /\ p' = FreeServerAddr(FreeLocalAddr(p))
        /\ failed' = "load" /\ ret' = -1
    BY <1>3 DEF KeyDecoded, GiveUp, Set
  <2>2. Logged(p') /\ ~p'.server_addr
    BY <1>2, <2>1, AddressesFreed
  <2>3. Built'
    BY <1>1, <2>1, <2>2 DEF Built, Logged
  <2> QED
    BY <1>1, <2>1, <2>2, <2>3 DEF MainInv, MainType, Status, Statement
<1>4. CASE ~(result < 0)
  <2>1. pc' = "ciper_init" /\ p' = p /\ failed' = failed /\ ret' = 0
    BY <1>4 DEF KeyDecoded, Continue, Set
  <2>2. result = 1
    BY <1>1, <1>4 DEF Busy
  <2>3. Built'
    BY <1>1, <1>2, <2>1, <2>2 DEF Built, Logged, Addressed
  <2> QED
    BY <1>1, <1>2, <2>1, <2>3 DEF MainInv, MainType, Status, Statement
<1> QED
  BY <1>3, <1>4

LEMMA CiperInitOK ==
    ASSUME MainInv, CiperInit
    PROVE  MainInv'
<1>1. /\ pc = "ciper_init" /\ pc' = "pool_init" /\ p' = p /\ failed' = failed
      /\ result' = result /\ ret' = 0
      /\ program' = program /\ inherited' = inherited
  BY DEF CiperInit, At, SameProcess, Continue, Set, decoder
<1>2. Logged(p) /\ Nowhere(p) /\ Addressed(p) /\ failed = "nothing" /\ result = 1
  BY <1>1 DEF MainInv, Built, Status
<1>3. Built'
  BY <1>1, <1>2 DEF Built, Logged, Addressed
<1> QED
  BY <1>1, <1>2, <1>3 DEF MainInv, MainType, Status, Statement

LEMMA PoolInitOK ==
    ASSUME MainInv, NEW prog, PoolInit(prog)
    PROVE  MainInv'
<1>1. /\ pc = "pool_init" /\ result' = result
      /\ program' = program /\ inherited' = inherited
  BY DEF PoolInit, At, SameProcess, decoder
<1>2. Logged(p) /\ Nowhere(p) /\ Addressed(p) /\ failed = "nothing" /\ result = 1
  BY <1>1 DEF MainInv, Built, Status
<1>3. CASE GiveUp("pool_init", p) /\ Set(-1)
  <2>1. pc' = "error" /\ p' = p /\ failed' = "pool_init" /\ ret' = -1
    BY <1>3 DEF GiveUp, Set
  <2>2. Built'
    BY <1>1, <1>2, <2>1 DEF Built, Logged
  <2> QED
    BY <1>1, <2>1, <2>2 DEF MainInv, MainType, Status, Statement
<1>4. CASE Continue("agent_service", SessionPoolInit(p)) /\ Set(0)
  <2> DEFINE q == SessionPoolInit(p)
  <2>1. pc' = "agent_service" /\ p' = q /\ failed' = failed /\ ret' = 0
    BY <1>4 DEF Continue, Set
  <2>2. p \in ProcessType /\ Tidy(p, Logs(p))
    BY <1>2 DEF Logged, Tidy
  <2>3. q = [p EXCEPT !.heap = p.heap \cup {"sessions"}, !.g_sessions = TRUE]
    BY <2>2 DEF SessionPoolInit, Malloc, ProcessType
  <2>4. /\ q \in ProcessType /\ q.open = p.open /\ q.heap = p.heap \cup {"sessions"}
        /\ q.local_addr = p.local_addr /\ q.server_addr = p.server_addr
        /\ q.agent_fd = p.agent_fd /\ q.agent_epfd = p.agent_epfd
        /\ q.log = p.log /\ q.fault_log = p.fault_log /\ q.registered = p.registered
        /\ q.session_epfd = p.session_epfd /\ q.sockets = p.sockets
        /\ q.g_sessions = TRUE /\ q.wrong = p.wrong
    BY <2>2, <2>3 DEF ProcessType, Allocation
  <2> HIDE DEF q
  <2>5. Held(q) = Held(p)
    BY <2>4 DEF Held
  <2>6. Tidy(q, Logs(p))
    BY <2>2, <2>4, <2>5 DEF Tidy
  <2>7. Logged(q)
    BY <1>2, <2>4, <2>6, StaysLogged
  <2>8. /\ NoService(q) /\ NoEpoll(q) /\ Addressed(q)
        /\ q.g_sessions /\ "events" \notin q.heap
    BY <1>2, <2>4 DEF Nowhere, NoSessions, NoService, NoEpoll, Addressed
  <2>9. Built'
    BY <1>1, <1>2, <2>1, <2>7, <2>8 DEF Built, Logged, Addressed
  <2> QED
    BY <1>1, <1>2, <2>1, <2>4, <2>9 DEF MainInv, MainType, Status, Statement
<1> QED
  BY <1>3, <1>4 DEF PoolInit

LEMMA AgentServiceOK ==
    ASSUME MainInv, NEW prog, AgentService(prog)
    PROVE  MainInv'
<1>1. /\ pc = "agent_service" /\ result' = result
      /\ program' = program /\ inherited' = inherited
      /\ inherited \subseteq Standard
  BY DEF AgentService, At, SameProcess, decoder, MainInv, MainType, Standard
<1>2. /\ Logged(p) /\ Addressed(p) /\ failed = "nothing" /\ result = 1
      /\ p.g_sessions /\ "events" \notin p.heap /\ NoService(p) /\ NoEpoll(p)
  BY <1>1 DEF MainInv, Built, Status
<1>3. ASSUME NEW stop \in {"socket", "listen", "epoll_create", "epoll_ctl"},
             GiveUp("agent_service", InitAgentService(p, stop)) /\ Set(-1)
      PROVE  MainInv'
  <2>1. /\ pc' = "error" /\ p' = InitAgentService(p, stop)
        /\ failed' = "agent_service" /\ ret' = -1
    BY <1>3 DEF GiveUp, Set
  <2>2. Logged(p') /\ p'.server_addr = p.server_addr
    BY <1>1, <1>2, <2>1, ServiceBuiltOrNot
  <2>3. Built'
    BY <1>1, <2>1, <2>2 DEF Built, Logged
  <2> QED
    BY <1>1, <2>1, <2>2, <2>3 DEF MainInv, MainType, Status, Statement
<1>4. CASE Continue("epoll_create", InitAgentService(p, "nowhere")) /\ Set(0)
  <2>1. /\ pc' = "epoll_create" /\ p' = InitAgentService(p, "nowhere")
        /\ failed' = failed /\ ret' = 0
    BY <1>4 DEF Continue, Set
  <2>2. /\ Logged(p') /\ Serving(p')
        /\ p'.session_epfd = p.session_epfd /\ p'.sockets = p.sockets
        /\ p'.heap = p.heap /\ p'.g_sessions = p.g_sessions
        /\ p'.local_addr = p.local_addr /\ p'.server_addr = p.server_addr
    BY <1>1, <1>2, <2>1, ServiceBuiltOrNot
  <2>3. Built'
    BY <1>1, <1>2, <2>1, <2>2 DEF Built, Logged, Addressed, NoEpoll
  <2> QED
    BY <1>1, <1>2, <2>1, <2>2, <2>3 DEF MainInv, MainType, Status, Statement
<1> QED
  BY <1>3, <1>4 DEF AgentService

LEMMA EpollCreateOK ==
    ASSUME MainInv, EpollCreate
    PROVE  MainInv'
<1>1. /\ pc = "epoll_create" /\ result' = result /\ ret' = ret
      /\ program' = program /\ inherited' = inherited
      /\ inherited \subseteq Standard
  BY DEF EpollCreate, At, SameProcess, decoder, MainInv, MainType, Standard
<1>2. /\ Logged(p) /\ Addressed(p) /\ failed = "nothing" /\ result = 1 /\ ret = 0
      /\ p.g_sessions /\ "events" \notin p.heap /\ Serving(p) /\ NoEpoll(p)
  BY <1>1 DEF MainInv, Built, Status
<1>3. CASE GiveUp("epoll_create", p)
  <2>1. pc' = "error" /\ p' = p /\ failed' = "epoll_create"
    BY <1>3 DEF GiveUp
  <2>2. Built'
    BY <1>1, <1>2, <2>1 DEF Built, Logged
  <2> QED
    BY <1>1, <1>2, <2>1, <2>2 DEF MainInv, MainType, Status, Statement
<1>4. CASE Continue("events", [Opened(p, NewFd(p)) EXCEPT !.session_epfd = NewFd(p)])
  <2> DEFINE d == NewFd(p)
             q == [Opened(p, d) EXCEPT !.session_epfd = d]
  <2>1. pc' = "events" /\ p' = q /\ failed' = failed
    BY <1>4 DEF Continue
  <2>2. p \in ProcessType /\ Tidy(p, Logs(p))
    BY <1>2 DEF Logged, Tidy
  <2>3. p.open \subseteq {p.log, p.fault_log, p.agent_fd, p.agent_epfd}
    BY <1>2 DEF Logged, Tidy, Logs, Held, NoEpoll
  <2>4. Unused(p) # {}
    BY <1>1, <2>3, OneIsFree
  <2>5. /\ d \in Fd /\ d \in Nat /\ d > 0 /\ d \notin p.open /\ d \notin Logs(p)
        /\ d \notin Held(p) /\ d \notin {p.agent_fd, p.agent_epfd, p.session_epfd}
    BY <1>2, <2>4, LoggedGetsNew
  <2>6. q = [p EXCEPT !.open = p.open \cup {d}, !.session_epfd = d]
    BY <2>2 DEF Opened, ProcessType
  <2> HIDE DEF d, q
  <2>7. /\ q \in ProcessType /\ q.open = p.open \cup {d} /\ q.session_epfd = d
        /\ q.agent_fd = p.agent_fd /\ q.agent_epfd = p.agent_epfd
        /\ q.log = p.log /\ q.fault_log = p.fault_log /\ q.registered = p.registered
        /\ q.sockets = p.sockets /\ q.heap = p.heap /\ q.wrong = p.wrong
        /\ q.local_addr = p.local_addr /\ q.server_addr = p.server_addr
        /\ q.g_sessions = p.g_sessions
    BY <2>2, <2>5, <2>6 DEF ProcessType
  <2>8. Held(q) = Held(p) \cup {d}
    BY <1>2, <2>5, <2>7 DEF Held, NoEpoll, Closed
  <2>9. Tidy(q, Logs(p))
    BY <1>2, <2>2, <2>5, <2>7, <2>8 DEF Tidy, NoEpoll
  <2>10. Logged(q)
    BY <1>2, <2>7, <2>9, StaysLogged
  <2>11. Built'
    BY <1>1, <1>2, <2>1, <2>5, <2>7, <2>10
       DEF Built, Logged, Addressed, Serving, NoEpoll
  <2> QED
    BY <1>1, <1>2, <2>1, <2>7, <2>11 DEF MainInv, MainType, Status, Statement
<1> QED
  BY <1>3, <1>4 DEF EpollCreate

LEMMA EventsMallocOK ==
    ASSUME MainInv, EventsMalloc
    PROVE  MainInv'
<1>1. /\ pc = "events" /\ result' = result /\ ret' = ret
      /\ program' = program /\ inherited' = inherited
  BY DEF EventsMalloc, At, SameProcess, decoder
<1>2. /\ Logged(p) /\ Addressed(p) /\ failed = "nothing" /\ result = 1 /\ ret = 0
      /\ p.g_sessions /\ Serving(p) /\ p.session_epfd > 0
  BY <1>1 DEF MainInv, Built, Status
<1>3. CASE GiveUp("events", p)
  <2>1. pc' = "error" /\ p' = p /\ failed' = "events"
    BY <1>3 DEF GiveUp
  <2>2. Built'
    BY <1>1, <1>2, <2>1 DEF Built, Logged
  <2> QED
    BY <1>1, <1>2, <2>1, <2>2 DEF MainInv, MainType, Status, Statement
<1>4. CASE Continue("loop", Malloc(p, "events"))
  <2> DEFINE q == Malloc(p, "events")
  <2>1. pc' = "loop" /\ p' = q /\ failed' = failed
    BY <1>4 DEF Continue
  <2>2. p \in ProcessType /\ Tidy(p, Logs(p))
    BY <1>2 DEF Logged, Tidy
  <2>3. /\ q \in ProcessType /\ q.open = p.open /\ q.heap = p.heap \cup {"events"}
        /\ q.agent_fd = p.agent_fd /\ q.agent_epfd = p.agent_epfd
        /\ q.log = p.log /\ q.fault_log = p.fault_log /\ q.registered = p.registered
        /\ q.sockets = p.sockets /\ q.session_epfd = p.session_epfd
        /\ q.local_addr = p.local_addr /\ q.server_addr = p.server_addr
        /\ q.g_sessions = p.g_sessions /\ q.wrong = p.wrong
    BY <2>2 DEF Malloc, ProcessType, Allocation
  <2> HIDE DEF q
  <2>4. Held(q) = Held(p)
    BY <2>3 DEF Held
  <2>5. Tidy(q, Logs(p))
    BY <2>2, <2>3, <2>4 DEF Tidy
  <2>6. Logged(q)
    BY <1>2, <2>3, <2>5, StaysLogged
  <2>7. Built'
    BY <1>1, <1>2, <2>1, <2>3, <2>6 DEF Built, Logged, Addressed, Serving
  <2> QED
    BY <1>1, <1>2, <2>1, <2>3, <2>7 DEF MainInv, MainType, Status, Statement
<1> QED
  BY <1>3, <1>4 DEF EventsMalloc

\* What a step of the loop may do to the process.
LEMMA LoopKeeps ==
    ASSUME MainInv, pc = "loop", pc' = "loop", failed' = failed, ret' = ret,
           result' = result, program' = program, inherited' = inherited,
           Tidy(p', Logs(p)), p'.log = p.log, p'.fault_log = p.fault_log,
           p'.agent_fd = p.agent_fd, p'.agent_epfd = p.agent_epfd,
           p'.session_epfd = p.session_epfd, p'.heap = p.heap,
           p'.local_addr = p.local_addr, p'.server_addr = p.server_addr,
           p'.g_sessions = p.g_sessions, p'.registered = p.registered
    PROVE  MainInv'
<1>1. /\ Logged(p) /\ Addressed(p) /\ failed = "nothing" /\ result = 1 /\ ret = 0
      /\ p.g_sessions /\ "events" \in p.heap /\ Serving(p) /\ p.session_epfd > 0
  BY DEF MainInv, Built, Status
<1>2. Logged(p')
  BY <1>1, StaysLogged
<1>3. Built'
  BY <1>1, <1>2 DEF Built, Logged, Addressed, Serving
<1> QED
  BY <1>1, <1>3 DEF MainInv, MainType, Status, Statement

LEMMA SessionTakesOK ==
    ASSUME MainInv, SessionTakes
    PROVE  MainInv'
<1> DEFINE d == NewFd(p)
           q == [Opened(p, d) EXCEPT !.sockets = @ \cup {d}]
<1>1. /\ pc = "loop" /\ pc' = "loop" /\ p' = q /\ failed' = failed
      /\ result' = result /\ ret' = ret /\ Unused(p) # {}
      /\ program' = program /\ inherited' = inherited
  BY DEF SessionTakes, At, SameProcess, decoder, Continue
<1>2. Logged(p) /\ p.g_sessions /\ Tidy(p, Logs(p)) /\ p \in ProcessType
  BY <1>1 DEF MainInv, Built, Logged, Tidy
<1>3. /\ d \in Fd /\ d \in Nat /\ d > 0 /\ d \notin p.open /\ d \notin Logs(p)
      /\ d \notin Held(p) /\ d \notin {p.agent_fd, p.agent_epfd, p.session_epfd}
  BY <1>1, <1>2, LoggedGetsNew
<1>4. q = [p EXCEPT !.open = p.open \cup {d}, !.sockets = p.sockets \cup {d}]
  BY <1>2 DEF Opened, ProcessType
<1> HIDE DEF d, q
<1>5. /\ q \in ProcessType /\ q.open = p.open \cup {d} /\ q.sockets = p.sockets \cup {d}
      /\ q.session_epfd = p.session_epfd
      /\ q.agent_fd = p.agent_fd /\ q.agent_epfd = p.agent_epfd
      /\ q.log = p.log /\ q.fault_log = p.fault_log /\ q.registered = p.registered
      /\ q.heap = p.heap /\ q.wrong = p.wrong
      /\ q.local_addr = p.local_addr /\ q.server_addr = p.server_addr
      /\ q.g_sessions = p.g_sessions
  BY <1>2, <1>3, <1>4 DEF ProcessType
<1>6. Held(q) = Held(p) \cup {d}
  BY <1>3, <1>5 DEF Held
<1>7. Tidy(q, Logs(p))
  BY <1>2, <1>3, <1>5, <1>6 DEF Tidy
<1> QED
  BY <1>1, <1>5, <1>7, LoopKeeps

LEMMA SessionClosesOK ==
    ASSUME MainInv, SessionCloses
    PROVE  MainInv'
<1>1. PICK d \in p.sockets :
        Continue("loop", [Close(p, d, "session") EXCEPT !.sockets = @ \ {d}])
  BY DEF SessionCloses
<1> DEFINE q == [Close(p, d, "session") EXCEPT !.sockets = @ \ {d}]
<1>2. /\ pc = "loop" /\ pc' = "loop" /\ p' = q /\ failed' = failed
      /\ result' = result /\ ret' = ret
      /\ program' = program /\ inherited' = inherited
  BY <1>1 DEF SessionCloses, At, SameProcess, decoder, Continue
<1>3. Logged(p) /\ p.g_sessions /\ Tidy(p, Logs(p)) /\ p \in ProcessType
  BY <1>2 DEF MainInv, Built, Logged, Tidy
<1>4. d \in p.open /\ d \notin Logs(p) /\ d \in Held(p)
      /\ d \notin {p.agent_fd, p.agent_epfd, p.session_epfd}
  BY <1>3 DEF Tidy, Held
<1>5. q = [p EXCEPT !.open = p.open \ {d}, !.sockets = p.sockets \ {d}]
  BY <1>3, <1>4 DEF Close, ProcessType
<1>6. /\ q \in ProcessType /\ q.open = p.open \ {d} /\ q.sockets = p.sockets \ {d}
      /\ q.session_epfd = p.session_epfd
      /\ q.agent_fd = p.agent_fd /\ q.agent_epfd = p.agent_epfd
      /\ q.log = p.log /\ q.fault_log = p.fault_log /\ q.registered = p.registered
      /\ q.heap = p.heap /\ q.wrong = p.wrong
      /\ q.local_addr = p.local_addr /\ q.server_addr = p.server_addr
      /\ q.g_sessions = p.g_sessions
  BY <1>3, <1>5 DEF ProcessType
<1> HIDE DEF q
<1>7. Held(q) = Held(p) \ {d}
  BY <1>4, <1>6 DEF Held
<1>8. Tidy(q, Logs(p))
  BY <1>3, <1>4, <1>6, <1>7 DEF Tidy
<1> QED
  BY <1>2, <1>6, <1>8, LoopKeeps

LEMMA LoopFailsOK ==
    ASSUME MainInv, NEW prog, LoopFails(prog)
    PROVE  MainInv'
<1>1. /\ pc = "loop" /\ result' = result /\ ret' = -1
      /\ program' = program /\ inherited' = inherited
  BY DEF LoopFails, At, SameProcess, decoder, Set
<1>2. /\ Logged(p) /\ Serving(p) /\ Tidy(p, Logs(p)) /\ p \in ProcessType
  BY <1>1 DEF MainInv, Built, Logged, Tidy
<1>3. CASE GiveUp("handle_connections_event", p)
  <2>1. pc' = "error" /\ p' = p /\ failed' = "handle_connections_event"
    BY <1>3 DEF GiveUp
  <2>2. Built'
    BY <1>1, <1>2, <2>1 DEF Built, Logged
  <2> QED
    BY <1>1, <2>1, <2>2 DEF MainInv, MainType, Status, Statement
<1>4. CASE GiveUp("handle_agent_event",
                  [Close(p, p.agent_epfd, "agent_epfd") EXCEPT !.agent_epfd = Closed])
  <2> DEFINE q == [Close(p, p.agent_epfd, "agent_epfd") EXCEPT !.agent_epfd = Closed]
  <2>1. pc' = "error" /\ p' = q /\ failed' = "handle_agent_event"
    BY <1>4 DEF GiveUp
  <2>2. p.agent_epfd > 0 /\ p.agent_epfd \in p.open /\ p.agent_epfd \notin Logs(p)
    BY <1>2 DEF Tidy, Held, Serving, Closed
  <2>3. q = [p EXCEPT !.open = p.open \ {p.agent_epfd}, !.agent_epfd = Closed]
    BY <1>2, <2>2 DEF Close, ProcessType
  <2>4. /\ q \in ProcessType /\ q.open = p.open \ {p.agent_epfd}
        /\ q.agent_epfd = Closed /\ q.sockets = p.sockets
        /\ q.session_epfd = p.session_epfd /\ q.agent_fd = p.agent_fd
        /\ q.log = p.log /\ q.fault_log = p.fault_log
        /\ q.heap = p.heap /\ q.wrong = p.wrong
        /\ q.local_addr = p.local_addr /\ q.server_addr = p.server_addr
        /\ q.g_sessions = p.g_sessions
    BY <1>2, <2>3 DEF ProcessType
  <2> HIDE DEF q
  <2>5. p.agent_epfd \notin {p.agent_fd, p.session_epfd} /\ p.agent_epfd \notin p.sockets
    BY <1>2, <2>2 DEF Tidy, Serving
  <2>6. Held(q) = Held(p) \ {p.agent_epfd}
    BY <2>2, <2>4, <2>5 DEF Held
  <2>7. \A d \in p.sockets : d # -1
    BY <1>2, DescriptorAssumption DEF ProcessType, Fd
  <2>8. Tidy(q, Logs(p))
    BY <1>2, <2>2, <2>4, <2>5, <2>6, <2>7 DEF Tidy, Serving, Closed
  <2>9. Logged(q)
    BY <1>2, <2>4, <2>8, StaysLogged
  <2>10. Built'
    BY <1>1, <2>1, <2>9 DEF Built, Logged
  <2> QED
    BY <1>1, <2>1, <2>4, <2>10 DEF MainInv, MainType, Status, Statement
<1> QED
  BY <1>3, <1>4 DEF LoopFails

\* The statements after the label error, with every address freed.
LEMMA ErrorOK ==
    ASSUME MainInv, pc = "error", pc' = "exit", NEW q, p' = CloseDown(q),
           failed' = failed, ret' = ret, program' = program, inherited' = inherited,
           q.session_epfd = Closed, ~q.local_addr, ~q.server_addr,
           q.log = p.log, q.fault_log = p.fault_log,
           Tidy(q, IF failed = "ldlog_init" THEN {} ELSE Logs(p))
    PROVE  MainInv'
<1> DEFINE L == IF failed = "ldlog_init" THEN {} ELSE Logs(p)
<1>1. failed # "ldlog_init" => Logged(p)
  BY DEF MainInv, Built
<1>2. L = {} \/ (L = Logs(q) /\ Closed \notin L /\ q.log # q.fault_log)
  BY <1>1 DEF Logged, Logs
<1>3. /\ p'.open = {} /\ p'.heap \subseteq {"events"}
      /\ p'.wrong \subseteq {"L.fd", "L.fault_fd"}
      /\ L # {} => p'.wrong = {}
  BY <1>2, ErrorReleases
<1>4. failed # "ldlog_init" => L # {}
  BY DEF Logs
<1>5. Built'
  BY <1>3, <1>4 DEF Built, ReleasedOnce
<1>6. ~p'.server_addr
  <2> DEFINE a == CloseAgentService(q)
             b == SessionPoolUninit(a)
  <2>1. Tidy(a, L) /\ a = [q EXCEPT !.agent_fd = a.agent_fd,
              !.registered = a.registered, !.agent_epfd = a.agent_epfd, !.open = a.open]
    BY CloseServiceTidy
  <2>2. p' = LdlogUninit(b)
    BY DEF CloseDown
  <2> HIDE DEF a
  <2>3. Tidy(b, L) /\ b = [a EXCEPT !.g_sessions = b.g_sessions, !.sockets = b.sockets,
                             !.heap = b.heap, !.open = b.open]
    BY <2>1, PoolUninitTidy
  <2> HIDE DEF b
  <2>4. a \in ProcessType /\ b \in ProcessType /\ q \in ProcessType
    BY <2>1, <2>3 DEF Tidy
  <2>5. ~b.server_addr
    BY <2>1, <2>3, <2>4 DEF ProcessType
  <2>6. ASSUME NEW c \in ProcessType, NEW d, NEW name \in Descriptor
        PROVE  /\ Close(c, d, name) \in ProcessType
               /\ Close(c, d, name).server_addr = c.server_addr
    <3>1. Close(c, d, name) \in {[c EXCEPT !.open = c.open \ {d}],
                                [c EXCEPT !.wrong = c.wrong \cup {name}]}
      BY DEF Close, ProcessType
    <3> HIDE DEF Close
    <3>2. CASE Close(c, d, name) = [c EXCEPT !.open = c.open \ {d}]
      BY <3>2 DEF ProcessType
    <3>3. CASE Close(c, d, name) = [c EXCEPT !.wrong = c.wrong \cup {name}]
      BY <3>3 DEF ProcessType
    <3> QED
      BY <3>1, <3>2, <3>3
  <2>7. FcloseLog(b) \in ProcessType /\ ~FcloseLog(b).server_addr
    BY <2>4, <2>5, <2>6 DEF FcloseLog, Descriptor
  <2> QED
    BY <2>2, <2>6, <2>7 DEF LdlogUninit, FcloseFaultLog, Descriptor
<1> QED
  BY <1>5, <1>6 DEF MainInv, MainType, Status, Statement

LEMMA ClientErrorOK ==
    ASSUME MainInv, ClientError
    PROVE  MainInv'
<1> DEFINE L == IF failed = "ldlog_init" THEN {} ELSE Logs(p)
           a == CloseSessionEpfd(p)
           b == FreeLocalAddr(a)
           c == FreeServerAddr(b)
<1>1. /\ pc = "error" /\ pc' = "exit" /\ p' = CloseDown(c) /\ failed' = failed
      /\ ret' = ret /\ program' = program /\ inherited' = inherited
  BY DEF ClientError, At, SameProcess
<1>2. Tidy(p, L)
  BY <1>1 DEF MainInv, Built, Logged
<1>3. /\ Tidy(a, L) /\ a.session_epfd = Closed
      /\ a = [p EXCEPT !.session_epfd = a.session_epfd, !.open = a.open]
  BY <1>2, CloseEpfdTidy
<1> HIDE DEF a
<1>4. /\ Tidy(b, L) /\ ~b.local_addr
      /\ b = [a EXCEPT !.local_addr = b.local_addr, !.heap = b.heap]
  BY <1>3, FreeLocalTidy
<1> HIDE DEF b
<1>5. /\ Tidy(c, L) /\ ~c.server_addr
      /\ c = [b EXCEPT !.server_addr = c.server_addr, !.heap = c.heap]
  BY <1>4, FreeServerTidy
<1> HIDE DEF c
<1>6. p \in ProcessType /\ a \in ProcessType /\ b \in ProcessType
  BY <1>2, <1>3, <1>4 DEF Tidy
<1>7. /\ c.session_epfd = Closed /\ ~c.local_addr
      /\ c.log = p.log /\ c.fault_log = p.fault_log
  BY <1>3, <1>4, <1>5, <1>6 DEF ProcessType
<1> QED
  BY <1>1, <1>5, <1>7, ErrorOK

\* The server has no address of a server to free.
LEMMA ServerErrorOK ==
    ASSUME MainInv, ServerError
    PROVE  MainInv'
<1> DEFINE L == IF failed = "ldlog_init" THEN {} ELSE Logs(p)
           a == CloseSessionEpfd(p)
           b == FreeLocalAddr(a)
<1>1. /\ pc = "error" /\ pc' = "exit" /\ p' = CloseDown(b) /\ failed' = failed
      /\ ret' = ret /\ program' = program /\ inherited' = inherited
      /\ program = "server"
  BY DEF ServerError, At, SameProcess
<1>2. Tidy(p, L) /\ ~p.server_addr
  BY <1>1 DEF MainInv, MainType, Built, Logged
<1>3. /\ Tidy(a, L) /\ a.session_epfd = Closed
      /\ a = [p EXCEPT !.session_epfd = a.session_epfd, !.open = a.open]
  BY <1>2, CloseEpfdTidy
<1> HIDE DEF a
<1>4. /\ Tidy(b, L) /\ ~b.local_addr
      /\ b = [a EXCEPT !.local_addr = b.local_addr, !.heap = b.heap]
  BY <1>3, FreeLocalTidy
<1> HIDE DEF b
<1>5. p \in ProcessType /\ a \in ProcessType /\ b \in ProcessType
  BY <1>2, <1>3, <1>4 DEF Tidy
<1>6. /\ b.session_epfd = Closed /\ ~b.server_addr
      /\ b.log = p.log /\ b.fault_log = p.fault_log
  BY <1>2, <1>3, <1>4, <1>5 DEF ProcessType
<1> QED
  BY <1>1, <1>4, <1>6, ErrorOK

-----------------------------------------------------------------------------
(* Base64: counting characters.                                             *)

\* What is below the modulus stays, and one round more makes no difference.
LEMMA SmallModulo ==
    ASSUME NEW m \in Nat, NEW n \in Nat, n < m
    PROVE  n % m = n /\ (n + m) % m = n
OBVIOUS

\* One character more.
LEMMA SignificantStep ==
    ASSUME NEW s \in Seq(Char), NEW n \in 0 .. Len(s)
    PROVE  /\ Significant(s, n) \in Nat
           /\ Significant(s, 0) = 0
           /\ n < Len(s) =>
                Significant(s, n + 1) =
                  IF s[n + 1] = Noise THEN Significant(s, n) ELSE Significant(s, n) + 1
           /\ Significant(s, n) <= Significant(s, Len(s))
<1> DEFINE P(m) == {k \in 1 .. m : s[k] # Noise}
<1>1. \A m \in Nat : IsFiniteSet(P(m)) /\ Cardinality(P(m)) \in Nat
  <2> TAKE m \in Nat
  <2>1. P(m) \in SUBSET (1 .. m) /\ IsFiniteSet(1 .. m)
    BY FS_Interval
  <2> QED
    BY <2>1, FS_Subset, FS_CardinalityType
<1>2. P(0) = {}
  OBVIOUS
<1>3. P(n) \in SUBSET P(Len(s))
  OBVIOUS
<1>4. n < Len(s) => P(n + 1) = IF s[n + 1] = Noise THEN P(n) ELSE P(n) \cup {n + 1}
  OBVIOUS
<1>5. n + 1 \notin P(n)
  OBVIOUS
<1>6. n \in Nat /\ Len(s) \in Nat
  OBVIOUS
<1>7. \A m : Significant(s, m) = Cardinality(P(m))
  BY DEF Significant
<1> HIDE DEF P
<1>8. Cardinality(P(n)) <= Cardinality(P(Len(s)))
  BY <1>1, <1>3, <1>6, FS_Subset
<1>9. Cardinality(P(n) \cup {n + 1}) = Cardinality(P(n)) + 1
  BY <1>1, <1>5, <1>6, FS_AddElement
<1>10. Cardinality(P(0)) = 0
  BY <1>2, FS_EmptySet
<1>11. /\ Significant(s, n) = Cardinality(P(n))
       /\ Significant(s, 0) = Cardinality(P(0))
       /\ Significant(s, n + 1) = Cardinality(P(n + 1))
       /\ Significant(s, Len(s)) = Cardinality(P(Len(s)))
  BY <1>7
<1>12. n < Len(s) => Significant(s, n + 1) =
         IF s[n + 1] = Noise THEN Significant(s, n) ELSE Significant(s, n) + 1
  BY <1>4, <1>9, <1>11
<1> QED
  BY <1>1, <1>6, <1>8, <1>10, <1>11, <1>12

\* The padding among the first n characters.
LEMMA PadsStep ==
    ASSUME NEW s \in Seq(Char), NEW n \in 0 .. Len(s), text = s
    PROVE  /\ Cardinality(Pads(n)) \in Nat
           /\ Cardinality(Pads(0)) = 0
           /\ n < Len(s) =>
                Cardinality(Pads(n + 1)) =
                  IF s[n + 1] = Pad THEN Cardinality(Pads(n)) + 1
                  ELSE Cardinality(Pads(n))
           /\ Cardinality(Pads(n)) <= Cardinality(Pads(Len(s)))
<1>1. \A m \in Nat : IsFiniteSet(Pads(m)) /\ Cardinality(Pads(m)) \in Nat
  <2> TAKE m \in Nat
  <2>1. Pads(m) \in SUBSET (1 .. m) /\ IsFiniteSet(1 .. m)
    BY FS_Interval DEF Pads
  <2> QED
    BY <2>1, FS_Subset, FS_CardinalityType
<1>2. Pads(0) = {}
  BY DEF Pads
<1>3. Pads(n) \in SUBSET Pads(Len(s))
  BY DEF Pads
<1>4. n < Len(s) => Pads(n + 1) = IF s[n + 1] = Pad THEN Pads(n) \cup {n + 1} ELSE Pads(n)
  BY DEF Pads
<1>5. n + 1 \notin Pads(n) /\ n \in Nat /\ Len(s) \in Nat
  BY DEF Pads
<1>8. Cardinality(Pads(n)) <= Cardinality(Pads(Len(s)))
  BY <1>1, <1>3, <1>5, FS_Subset
<1>9. Cardinality(Pads(n) \cup {n + 1}) = Cardinality(Pads(n)) + 1
  BY <1>1, <1>5, FS_AddElement
<1>10. Cardinality(Pads(0)) = 0
  BY <1>2, FS_EmptySet
<1> QED
  BY <1>1, <1>4, <1>5, <1>8, <1>9, <1>10

\* A group of digits becomes one, two or three bytes.
FirstByte(d) == (d \div 65536) % 256
SecondByte(d) == (d \div 256) % 256
ThirdByte(d) == d % 256
StoredLen(n) == IF n > 2 THEN 3 ELSE IF n > 1 THEN 2 ELSE 1

\* s is a, or a and b, or a, b and c.
AreStored(s, m, a, b, c) ==
    /\ s \in Seq(Octet) /\ Len(s) = m
    /\ s[1] = a /\ (m > 1 => s[2] = b) /\ (m > 2 => s[3] = c)

LEMMA StoredBytes ==
    ASSUME NEW d \in Nat, NEW n \in Nat
    PROVE  AreStored(Stored(d, n), StoredLen(n), FirstByte(d), SecondByte(d), ThirdByte(d))
<1> DEFINE b == <<FirstByte(d), SecondByte(d), ThirdByte(d)>>
<1>1. FirstByte(d) \in Octet /\ SecondByte(d) \in Octet /\ ThirdByte(d) \in Octet
  BY DEF Octet, FirstByte, SecondByte, ThirdByte
<1>2. b \in Seq(Octet) /\ Len(b) = 3
  BY <1>1
<1>3. StoredLen(n) \in 1 .. 3
  BY DEF StoredLen
<1>4. Stored(d, n) = SubSeq(b, 1, StoredLen(n))
  BY DEF Stored, StoredLen, FirstByte, SecondByte, ThirdByte
<1>5. b[1] = FirstByte(d) /\ b[2] = SecondByte(d) /\ b[3] = ThirdByte(d)
  OBVIOUS
<1> HIDE DEF b
<1>6. /\ SubSeq(b, 1, StoredLen(n)) \in Seq(Octet)
      /\ Len(SubSeq(b, 1, StoredLen(n))) = StoredLen(n)
      /\ \A i \in 1 .. StoredLen(n) : SubSeq(b, 1, StoredLen(n))[i] = b[i]
  <2>1. \A i \in 1 .. StoredLen(n) : b[i] \in Octet
    <3> TAKE i \in 1 .. StoredLen(n)
    <3>1. i \in 1 .. 3
      BY <1>3
    <3> QED
      BY <1>1, <1>5, <3>1
  <2> QED
    BY <1>3, <2>1, SubSeqProperties
<1> QED
  BY <1>3, <1>4, <1>5, <1>6 DEF AreStored

LEMMA StoredTyped ==
    \A d \in Nat, n \in Nat :
        Stored(d, n) \in Seq(Octet) /\ Len(Stored(d, n)) = StoredLen(n)
BY StoredBytes DEF AreStored

-----------------------------------------------------------------------------
(* Base64: the decoder.                                                     *)

\* With no more than two '=' in the text, g says how many bytes the next group
\* has, and the test for room is exact.
Padding ==
    Cardinality(Pads(Len(text))) <= 2 =>
        g = 3 - Cardinality(Pads(x)) /\ Len(pOut) <= OutMax

IsKey(k) == k \in Seq(Octet)

\* Group w of k in digits; where k has ended, 0 stands for a byte.
ByteOf(k, w, i) == IF 3 * w + i <= Len(k) THEN k[3 * w + i] ELSE 0
Group(k, w) == Digits(ByteOf(k, w, 1), ByteOf(k, w, 2), ByteOf(k, w, 3))

\* What the first r of four digits make up.
Bits(d, r) ==
    CASE r = 0 -> 0
      [] r = 1 -> d[1]
      [] r = 2 -> d[1] * 64 + d[2]
      [] r = 3 -> (d[1] * 64 + d[2]) * 64 + d[3]
      [] OTHER -> ((d[1] * 64 + d[2]) * 64 + d[3]) * 64 + d[4]

\* How many bytes of a key of len bytes the first w groups make up, how many
\* the next one adds, and 3 less the padding there is when r digits of that one
\* are read.
BytesIn(len, w) == IF 3 * w <= len THEN 3 * w ELSE len
GroupLen(len, w) == IF 3 * w + 3 <= len THEN 3 ELSE len - 3 * w
Room(len, w, r) ==
    IF 3 * w > len THEN 3 - (3 * w - len)
    ELSE IF r = 3 /\ 3 * w + 2 > len THEN 2 ELSE 3

\* The decoder has read w groups of k and r digits of the next.
HasRead(k, w, r, digits, bits, room, out) ==
    /\ digits = r /\ bits = Bits(Group(k, w), r) /\ room = Room(Len(k), w, r)
    /\ out = SubSeq(k, 1, BytesIn(Len(k), w)) /\ Len(out) <= OutMax

\* What the characters read so far make up of the key has been stored.
KeySoFar ==
    source.key # <<>> =>
        /\ result = Busy =>
             \A w \in Nat, r \in 0 .. 3 : Significant(text, x) = 4 * w + r =>
                 HasRead(source.key, w, r, y, t, g, pOut)
        /\ result = 1 => pOut = source.key /\ Len(source.key) <= OutMax
        /\ result = -1 => Len(source.key) > OutMax

DecoderInv == DecoderType /\ Padding /\ KeySoFar

\* The four digits of three bytes, put together again, are those bytes.
LEMMA DigitsTogether ==
    ASSUME NEW a \in Octet, NEW b \in Octet, NEW c \in Octet
    PROVE  LET d == Digits(a, b, c)
               full == Bits(d, 4)
           IN  /\ \A i \in 1 .. 4 : d[i] \in 0 .. 63
               /\ full \in Nat
               /\ FirstByte(full) = a
               /\ SecondByte(full) = b
               /\ ThirdByte(full) = c
               /\ b = 0 /\ c = 0 => d[3] = 0
               /\ c = 0 => d[4] = 0
<1> DEFINE d == Digits(a, b, c)
           full == Bits(d, 4)
<1>1. a \in 0 .. 255 /\ b \in 0 .. 255 /\ c \in 0 .. 255
  BY DEF Octet
<1>2. /\ d[1] = a \div 4 /\ d[2] = (a % 4) * 16 + b \div 16
      /\ d[3] = (b % 16) * 4 + c \div 64 /\ d[4] = c % 64
  BY DEF Digits
<1> HIDE DEF d
<1>3. a = 4 * (a \div 4) + (a % 4) /\ a \div 4 \in 0 .. 63 /\ a % 4 \in 0 .. 3
  BY <1>1
<1>4. b = 16 * (b \div 16) + (b % 16) /\ b \div 16 \in 0 .. 15 /\ b % 16 \in 0 .. 15
  BY <1>1
<1>5. c = 64 * (c \div 64) + (c % 64) /\ c \div 64 \in 0 .. 3 /\ c % 64 \in 0 .. 63
  BY <1>1
<1>0. full = ((d[1] * 64 + d[2]) * 64 + d[3]) * 64 + d[4]
  BY DEF Bits
<1>6. full = 65536 * a + 256 * b + c
  BY <1>0, <1>1, <1>2, <1>3, <1>4, <1>5
<1>7. \A i \in 1 .. 4 : d[i] \in 0 .. 63
  <2>1. d[1] \in 0 .. 63 /\ d[2] \in 0 .. 63 /\ d[3] \in 0 .. 63 /\ d[4] \in 0 .. 63
    BY <1>2, <1>3, <1>4, <1>5
  <2> QED
    BY <2>1
<1> HIDE DEF full
<1>8. /\ full \in Nat /\ FirstByte(full) = a
      /\ SecondByte(full) = b /\ ThirdByte(full) = c
  BY <1>1, <1>6 DEF FirstByte, SecondByte, ThirdByte
<1>9. b = 0 /\ c = 0 => d[3] = 0
  BY <1>2
<1>10. c = 0 => d[4] = 0
  BY <1>2
<1> QED
  BY <1>7, <1>8, <1>9, <1>10 DEF d, full

\* So they, or the first ones of them, are what is stored of a group.
LEMMA DigitsStored ==
    ASSUME NEW a \in Octet, NEW b \in Octet, NEW c \in Octet, NEW m \in 1 .. 3
    PROVE  AreStored(Stored(Bits(Digits(a, b, c), 4), m), m, a, b, c)
<1> DEFINE full == Bits(Digits(a, b, c), 4)
<1>1. FirstByte(full) = a /\ SecondByte(full) = b /\ ThirdByte(full) = c
  BY DigitsTogether
<1>3. full \in Nat
  BY DigitsTogether
<1>4. StoredLen(m) = m
  BY DEF StoredLen
<1> HIDE DEF full
<1>2. AreStored(Stored(full, m), StoredLen(m), FirstByte(full), SecondByte(full),
                ThirdByte(full))
  BY <1>3, StoredBytes
<1> QED
  BY <1>1, <1>2, <1>4 DEF full

LEMMA ByteTyped ==
    ASSUME NEW k, IsKey(k), NEW w \in Nat
    PROVE  \A i \in 1 .. 3 : ByteOf(k, w, i) \in Octet
<1> TAKE i \in 1 .. 3
<1>1. 0 \in Octet
  BY DEF Octet
<1>2. 3 * w + i \in Nat \ {0}
  OBVIOUS
<1>3. 3 * w + i <= Len(k) => k[3 * w + i] \in Octet
  BY <1>2 DEF IsKey
<1> QED
  BY <1>1, <1>3 DEF ByteOf

LEMMA DivMod ==
    ASSUME NEW w \in Nat, NEW r \in 0 .. 3
    PROVE  (4 * w + r) \div 4 = w /\ (4 * w + r) % 4 = r
OBVIOUS

LEMMA PlaceExists ==
    ASSUME NEW n \in Nat
    PROVE  \E w \in Nat, r \in 0 .. 3 : n = 4 * w + r
<1>1. n \div 4 \in Nat /\ n % 4 \in 0 .. 3 /\ n = 4 * (n \div 4) + (n % 4)
  OBVIOUS
<1> QED
  BY <1>1

LEMMA GroupDigits ==
    ASSUME NEW k, IsKey(k), NEW w \in Nat
    PROVE  LET d == Group(k, w) IN
           /\ d[1] \in 0 .. 63 /\ d[2] \in 0 .. 63 /\ d[3] \in 0 .. 63 /\ d[4] \in 0 .. 63
           /\ d[1] \in Nat
           /\ ByteOf(k, w, 2) = 0 /\ ByteOf(k, w, 3) = 0 => d[3] = 0
           /\ ByteOf(k, w, 3) = 0 => d[4] = 0
<1> DEFINE b1 == ByteOf(k, w, 1)
           b2 == ByteOf(k, w, 2)
           b3 == ByteOf(k, w, 3)
<1>1. b1 \in Octet /\ b2 \in Octet /\ b3 \in Octet
  BY ByteTyped
<1>2. Group(k, w) = Digits(b1, b2, b3)
  BY DEF Group
<1> HIDE DEF b1, b2, b3
<1>3. LET d == Digits(b1, b2, b3) IN
      /\ d[1] \in 0 .. 63 /\ d[2] \in 0 .. 63 /\ d[3] \in 0 .. 63 /\ d[4] \in 0 .. 63
      /\ d[1] \in Nat
      /\ b2 = 0 /\ b3 = 0 => d[3] = 0
      /\ b3 = 0 => d[4] = 0
  <2>1. ASSUME NEW a \in Octet, NEW b \in Octet, NEW c \in Octet
        PROVE  LET d == Digits(a, b, c) IN
               /\ d[1] \in 0 .. 63 /\ d[2] \in 0 .. 63 /\ d[3] \in 0 .. 63 /\ d[4] \in 0 .. 63
               /\ d[1] \in Nat
               /\ b = 0 /\ c = 0 => d[3] = 0
               /\ c = 0 => d[4] = 0
    <3> DEFINE d == Digits(a, b, c)
    <3>1. \A i \in 1 .. 4 : d[i] \in 0 .. 63
      BY DigitsTogether
    <3>2. (b = 0 /\ c = 0 => d[3] = 0) /\ (c = 0 => d[4] = 0)
      BY DigitsTogether
    <3> HIDE DEF d
    <3>3. d[1] \in 0 .. 63 /\ d[2] \in 0 .. 63 /\ d[3] \in 0 .. 63 /\ d[4] \in 0 .. 63
      BY <3>1
    <3>4. d[1] \in Nat
      BY <3>3
    <3> QED
      BY <3>2, <3>3, <3>4 DEF d
  <2> QED
    BY <1>1, <2>1
<1> QED
  BY <1>2, <1>3 DEF b2, b3

\* What Base64Encode printed at a place, and that it says so with '=' where
\* the key has ended.
LEMMA EncodedPlace ==
    ASSUME NEW k, IsKey(k), NEW w \in Nat, NEW r \in 0 .. 3,
           4 * w + r < EncodedLen(Len(k))
    PROVE  LET d == Group(k, w)
               c == Encode(k)[4 * w + r + 1]
           IN  /\ 3 * w < Len(k)
               /\ d[r + 1] \in 0 .. 63
               /\ IF r > 1 /\ 3 * w + r > Len(k) THEN c = Pad /\ d[r + 1] = 0
                  ELSE c = d[r + 1]
<1> DEFINE d == Group(k, w)
           c == Encode(k)[4 * w + r + 1]
<1>0. Len(k) \in Nat
  BY DEF IsKey
<1>1. 3 * w < Len(k)
  BY <1>0 DEF EncodedLen
<1>3. /\ d[1] \in 0 .. 63 /\ d[2] \in 0 .. 63 /\ d[3] \in 0 .. 63 /\ d[4] \in 0 .. 63
      /\ ByteOf(k, w, 2) = 0 /\ ByteOf(k, w, 3) = 0 => d[3] = 0
      /\ ByteOf(k, w, 3) = 0 => d[4] = 0
  BY GroupDigits
<1>4. c = IF r > 1 /\ 3 * w + r > Len(k) THEN Pad ELSE d[r + 1]
  <2> DEFINE j == 4 * w + r + 1
  <2>1. j \in 1 .. EncodedLen(Len(k)) /\ j - 1 = 4 * w + r
    BY <1>0 DEF EncodedLen
  <2>2. (j - 1) \div 4 = w /\ (j - 1) % 4 = r
    BY <2>1, DivMod
  <2>3. c = Encode(k)[j]
    OBVIOUS
  <2> HIDE DEF j
  <2>4. Encode(k)[j] =
          LET first == 3 * ((j - 1) \div 4)
              place == (j - 1) % 4
              At1(i) == IF first + i <= Len(k) THEN k[first + i] ELSE 0
          IN  IF place > 1 /\ first + place > Len(k) THEN Pad
              ELSE Digits(At1(1), At1(2), At1(3))[place + 1]
    BY <2>1 DEF Encode
  <2> QED
    BY <2>2, <2>3, <2>4 DEF Group, ByteOf
<1> HIDE DEF d, c
<1>5. r > 1 /\ 3 * w + r > Len(k) => d[r + 1] = 0
  <2>1. CASE r = 2 /\ 3 * w + 2 > Len(k)
    <3>1. ByteOf(k, w, 2) = 0 /\ ByteOf(k, w, 3) = 0
      BY <1>0, <1>1, <2>1 DEF ByteOf
    <3> QED
      BY <1>3, <2>1, <3>1
  <2>2. CASE r = 3 /\ 3 * w + 3 > Len(k)
    <3>1. ByteOf(k, w, 3) = 0
      BY <1>0, <1>1, <2>2 DEF ByteOf
    <3> QED
      BY <1>3, <2>2, <3>1
  <2> QED
    BY <1>0, <1>1, <2>1, <2>2
<1>6. d[r + 1] \in 0 .. 63
  <2>1. r + 1 = 1 \/ r + 1 = 2 \/ r + 1 = 3 \/ r + 1 = 4
    OBVIOUS
  <2> QED
    BY <1>3, <2>1
<1> QED
  BY <1>1, <1>4, <1>5, <1>6 DEF d, c

\* A character that is not skipped is shifted in, '=' as a 0 that counts g down.
LEMMA CharRead ==
    ASSUME DecodeChar
    PROVE  LET c == text[x + 1] IN
           /\ result = Busy /\ x < Len(text) /\ x' = x + 1 /\ source' = source
           /\ IF c = Noise THEN UNCHANGED <<t, y, g, pOut, result>>
              ELSE Shift(IF c = Pad THEN 0 ELSE c,
                         IF c = Pad THEN (g + Word - 1) % Word ELSE g)
<1>1. CASE text[x + 1] = Noise
  BY <1>1 DEF DecodeChar, Noise, Pad
<1>2. CASE text[x + 1] = Pad
  BY <1>2 DEF DecodeChar, Noise, Pad
<1>3. CASE text[x + 1] # Noise /\ text[x + 1] # Pad
  BY <1>3 DEF DecodeChar
<1> QED
  BY <1>1, <1>2, <1>3

LEMMA DecoderTyped ==
    ASSUME DecoderType, Decode
    PROVE  DecoderType'
<1>1. /\ source \in Texts /\ text \in Seq(Char) /\ text' = source'.text
      /\ x \in 0 .. Len(text) /\ t \in Nat /\ y \in 0 .. 3 /\ g \in 0 .. Word - 1
      /\ pOut \in Seq(Octet) /\ Word \in Nat /\ Word > 4
  BY TextAssumption, RoomAssumption DEF DecoderType, text, TextType
<1>2. CASE DecodeEnd
  BY <1>1, <1>2 DEF DecodeEnd, DecoderType, text, Busy
<1>3. CASE DecodeChar
  <2> DEFINE c == text[x + 1]
             v == IF c = Pad THEN 0 ELSE c
             n == IF c = Pad THEN (g + Word - 1) % Word ELSE g
  <2>1. /\ result = Busy /\ x < Len(text) /\ x' = x + 1 /\ source' = source
        /\ IF c = Noise THEN UNCHANGED <<t, y, g, pOut, result>> ELSE Shift(v, n)
    BY <1>3, CharRead
  <2>2. x' \in 0 .. Len(text) /\ text' = text /\ c \in Char
    BY <1>1, <2>1 DEF text
  <2>3. n \in 0 .. Word - 1
    BY <1>1
  <2> HIDE DEF c
  <2>4. c # Noise => v \in Nat
    BY <2>2 DEF Char
  <2> HIDE DEF v, n
  <2>5. CASE c = Noise
    BY <1>1, <2>1, <2>2, <2>5 DEF DecoderType
  <2>6. CASE c # Noise
    <3>1. Shift(v, n)
      BY <2>1, <2>6
    <3> DEFINE u == t * 64 + v
               s == Stored(u, n)
    <3>2. u \in Nat /\ n \in Nat
      BY <1>1, <2>3, <2>4, <2>6
    <3> HIDE DEF u
    <3>3. s \in Seq(Octet)
      BY <3>2, StoredTyped
    <3>6. pOut' = pOut \/ pOut' = pOut \o s
      BY <3>1 DEF Shift, u
    <3> HIDE DEF s
    <3>4. pOut' \in Seq(Octet) /\ result' \in {Busy, 1, -1}
      <4>1. pOut \o s \in Seq(Octet)
        BY <1>1, <3>3
      <4>2. result' \in {Busy, 1, -1}
        BY <2>1, <3>1 DEF Shift
      <4> QED
        BY <1>1, <3>6, <4>1, <4>2
    <3>5. t' \in Nat /\ y' \in 0 .. 3 /\ g' = n
      BY <1>1, <3>1, <3>2 DEF Shift, u
    <3> QED
      BY <1>1, <2>1, <2>2, <2>3, <3>4, <3>5 DEF DecoderType
  <2> QED
    BY <2>5, <2>6
<1> QED
  BY <1>2, <1>3 DEF Decode

\* The test for room, where g is small.
LEMMA RoomTested ==
    ASSUME NEW len \in 0 .. OutMax, NEW n \in 0 .. 3
    PROVE  TooLong(len, n) <=> len + n > OutMax
<1>1. OutMax \in Nat /\ Word \in Nat /\ Word > OutMax + 3
  BY RoomAssumption
<1>2. len + n \in Nat /\ len + n < Word
  BY <1>1
<1> QED
  BY <1>1, <1>2, SmallModulo DEF TooLong

\* Counting g down does not wrap around while it is positive.
LEMMA CountedDown ==
    ASSUME NEW n \in 1 .. 3
    PROVE  (n + Word - 1) % Word = n - 1
<1>1. Word \in Nat /\ n - 1 \in Nat /\ n - 1 < Word
  BY RoomAssumption
<1>2. n + Word - 1 = (n - 1) + Word
  BY <1>1
<1> QED
  BY <1>1, <1>2, SmallModulo

LEMMA PaddingCounted ==
    ASSUME DecoderType, Padding, Decode
    PROVE  Padding'
<1> SUFFICES ASSUME (Cardinality(Pads(Len(text))) <= 2)'
             PROVE  (g = 3 - Cardinality(Pads(x)) /\ Len(pOut) <= OutMax)'
  BY DEF Padding
<1>1. /\ text \in Seq(Char) /\ source' = source /\ text' = text
      /\ x \in 0 .. Len(text) /\ t \in Nat /\ y \in 0 .. 3
      /\ pOut \in Seq(Octet) /\ OutMax \in Nat
  BY TextAssumption, RoomAssumption
     DEF DecoderType, text, TextType, Decode, DecodeChar, DecodeEnd
<1>2. \A m : Pads(m)' = Pads(m)
  BY <1>1 DEF Pads
<1>3. Cardinality(Pads(Len(text))) <= 2
  BY <1>1, <1>2
<1>4. g = 3 - Cardinality(Pads(x)) /\ Len(pOut) <= OutMax
  BY <1>3 DEF Padding
<1>5. Cardinality(Pads(x)) \in 0 .. 2
  BY <1>1, <1>3, PadsStep
<1>6. CASE DecodeEnd
  BY <1>2, <1>4, <1>6 DEF DecodeEnd
<1>7. CASE DecodeChar
  <2> DEFINE c == text[x + 1]
             v == IF c = Pad THEN 0 ELSE c
             n == IF c = Pad THEN (g + Word - 1) % Word ELSE g
  <2>1. /\ x < Len(text) /\ x' = x + 1
        /\ IF c = Noise THEN UNCHANGED <<t, y, g, pOut, result>> ELSE Shift(v, n)
    BY <1>7, CharRead
  <2>2. x + 1 \in 0 .. Len(text) /\ c \in Char
    BY <1>1, <2>1
  <2>3. Cardinality(Pads(x + 1)) \in 0 .. 2
    BY <1>1, <1>3, <2>2, PadsStep
  <2>4. Cardinality(Pads(x + 1)) =
          IF c = Pad THEN Cardinality(Pads(x)) + 1 ELSE Cardinality(Pads(x))
    BY <1>1, <2>1, PadsStep
  <2>5. n = 3 - Cardinality(Pads(x + 1))
    <3>1. CASE c = Pad
      <4>1. g \in 1 .. 3
        BY <1>4, <1>5
      <4>2. n = g - 1
        BY <3>1, <4>1, CountedDown
      <4> QED
        BY <1>4, <1>5, <2>4, <3>1, <4>2
    <3>2. CASE c # Pad
      BY <1>4, <2>4, <3>2
    <3> QED
      BY <3>1, <3>2
  <2>6. c # Noise => v \in Nat
    <3> HIDE DEF c
    <3> QED
      BY <2>2 DEF Char
  <2>7. CASE c = Noise
    <3>1. c # Pad
      BY <2>7 DEF Pad, Noise
    <3>2. g' = g /\ pOut' = pOut
      BY <2>1, <2>7
    <3> QED
      BY <1>2, <1>4, <2>1, <2>4, <3>1, <3>2
  <2> HIDE DEF c, v, n
  <2>8. CASE c # Noise
    <3> DEFINE u == t * 64 + v
               s == Stored(u, n)
    <3>1. Shift(v, n) /\ u \in Nat /\ n \in 1 .. 3 /\ n \in Nat
      BY <1>1, <2>1, <2>3, <2>5, <2>6, <2>8
    <3>6. \/ pOut' = pOut
          \/ pOut' = pOut \o s /\ ~TooLong(Len(pOut), n)
      BY <3>1 DEF Shift
    <3> HIDE DEF u
    <3>2. s \in Seq(Octet) /\ Len(s) = n
      <4>1. StoredLen(n) = n
        BY <3>1 DEF StoredLen
      <4>2. u \in Nat /\ n \in Nat
        BY <3>1
      <4>3. Stored(u, n) \in Seq(Octet) /\ Len(Stored(u, n)) = StoredLen(n)
        BY <4>2, StoredTyped
      <4> QED
        BY <4>1, <4>3
    <3> HIDE DEF s
    <3>3. TooLong(Len(pOut), n) <=> Len(pOut) + n > OutMax
      BY <1>1, <1>4, <3>1, RoomTested
    <3>4. Len(pOut') <= OutMax
      <4>1. Len(pOut \o s) = Len(pOut) + n
        BY <1>1, <3>2
      <4> QED
        BY <1>1, <1>4, <3>1, <3>3, <3>6, <4>1
    <3>5. g' = n
      BY <3>1 DEF Shift
    <3> QED
      BY <1>2, <2>1, <2>5, <3>4, <3>5
  <2> QED
    BY <2>7, <2>8
<1> QED
  BY <1>6, <1>7 DEF Decode

\* 3 less the padding, one digit later.
LEMMA RoomStep ==
    ASSUME NEW len \in Nat, NEW w \in Nat, NEW r \in 0 .. 3, 3 * w < len
    PROVE  LET m == IF r = 3 THEN Room(len, w + 1, 0) ELSE Room(len, w, r + 1)
           IN  /\ Room(len, w, r) \in 1 .. 3
               /\ m = (IF r > 1 /\ 3 * w + r > len THEN Room(len, w, r) - 1
                       ELSE Room(len, w, r))
               /\ r = 3 => m = GroupLen(len, w)
BY DEF Room, GroupLen

LEMMA GroupLenOK ==
    ASSUME NEW len \in Nat, NEW w \in Nat, 3 * w < len
    PROVE  /\ GroupLen(len, w) \in 1 .. 3 /\ 3 * w + GroupLen(len, w) <= len
           /\ BytesIn(len, w) = 3 * w
           /\ BytesIn(len, w + 1) = 3 * w + GroupLen(len, w)
BY DEF GroupLen, BytesIn

\* Some more bytes join the ones there are.
LEMMA BytesJoined ==
    ASSUME NEW k \in Seq(Octet), NEW a \in Nat, NEW s \in Seq(Octet),
           a + Len(s) <= Len(k), \A i \in 1 .. Len(s) : s[i] = k[a + i]
    PROVE  /\ Len(SubSeq(k, 1, a)) = a
           /\ SubSeq(k, 1, a) \o s = SubSeq(k, 1, a + Len(s))
           /\ Len(SubSeq(k, 1, a + Len(s))) = a + Len(s)
<1> DEFINE p1 == SubSeq(k, 1, a)
           p2 == SubSeq(k, 1, a + Len(s))
<1>1. /\ p1 \in Seq(Octet) /\ Len(p1) = a
      /\ \A i \in 1 .. a : p1[i] = k[i]
  <2>1. \A i \in 1 .. a : k[i] \in Octet
    OBVIOUS
  <2> QED
    BY <2>1, SubSeqProperties
<1>2. /\ p2 \in Seq(Octet) /\ Len(p2) = a + Len(s)
      /\ \A i \in 1 .. a + Len(s) : p2[i] = k[i]
  <2>1. \A i \in 1 .. a + Len(s) : k[i] \in Octet
    OBVIOUS
  <2> QED
    BY <2>1, SubSeqProperties
<1> HIDE DEF p1, p2
<1>3. /\ p1 \o s \in Seq(Octet) /\ Len(p1 \o s) = a + Len(s)
      /\ \A i \in 1 .. a + Len(s) :
           (p1 \o s)[i] = IF i <= a THEN p1[i] ELSE s[i - a]
  BY <1>1, ConcatProperties
<1>4. \A i \in 1 .. a + Len(s) : (p1 \o s)[i] = p2[i]
  <2> TAKE i \in 1 .. a + Len(s)
  <2>1. CASE i <= a
    BY <1>1, <1>2, <1>3, <2>1
  <2>2. CASE i > a
    <3>1. i - a \in 1 .. Len(s) /\ a + (i - a) = i
      BY <2>2
    <3>2. s[i - a] = k[a + (i - a)]
      BY <3>1
    <3>3. (p1 \o s)[i] = s[i - a] /\ p2[i] = k[i]
      BY <1>2, <1>3, <2>2
    <3> QED
      BY <3>1, <3>2, <3>3
  <2>3. i <= a \/ i > a
    OBVIOUS
  <2> QED
    BY <2>1, <2>2, <2>3
<1>5. p1 \o s = p2
  BY <1>2, <1>3, <1>4
<1> QED
  BY <1>1, <1>2, <1>5 DEF p1, p2

\* The bytes of one more group join those of the groups before.
LEMMA GroupStored ==
    ASSUME NEW k, IsKey(k), NEW w \in Nat, 3 * w < Len(k)
    PROVE  /\ Len(SubSeq(k, 1, BytesIn(Len(k), w))) = 3 * w
           /\ SubSeq(k, 1, BytesIn(Len(k), w))
                \o Stored(Bits(Group(k, w), 4), GroupLen(Len(k), w))
                  = SubSeq(k, 1, BytesIn(Len(k), w + 1))
           /\ Len(SubSeq(k, 1, BytesIn(Len(k), w + 1))) = 3 * w + GroupLen(Len(k), w)
<1>0. Len(k) \in Nat
  BY DEF IsKey
<1>1. PICK m \in 1 .. 3 :
        /\ m = GroupLen(Len(k), w) /\ 3 * w + m <= Len(k)
        /\ BytesIn(Len(k), w) = 3 * w /\ BytesIn(Len(k), w + 1) = 3 * w + m
  BY <1>0, GroupLenOK
<1> DEFINE s == Stored(Bits(Group(k, w), 4), m)
<1>3. AreStored(s, m, ByteOf(k, w, 1), ByteOf(k, w, 2), ByteOf(k, w, 3))
  BY ByteTyped, DigitsStored DEF Group
<1> HIDE DEF s
<1>2. /\ s \in Seq(Octet) /\ Len(s) = m
      /\ s[1] = ByteOf(k, w, 1)
      /\ m > 1 => s[2] = ByteOf(k, w, 2)
      /\ m > 2 => s[3] = ByteOf(k, w, 3)
  BY <1>3 DEF AreStored
<1>4. \A i \in 1 .. m : ByteOf(k, w, i) = k[3 * w + i]
  BY <1>0, <1>1 DEF ByteOf
<1>5. \A i \in 1 .. Len(s) : s[i] = k[3 * w + i]
  <2> TAKE i \in 1 .. Len(s)
  <2>1. i = 1 \/ (i = 2 /\ m > 1) \/ (i = 3 /\ m > 2)
    BY <1>2
  <2>2. i \in 1 .. m
    BY <1>2
  <2> QED
    BY <1>2, <1>4, <2>1, <2>2
<1>6. 3 * w \in Nat /\ 3 * w + Len(s) <= Len(k)
  BY <1>0, <1>1, <1>2
<1>7. /\ Len(SubSeq(k, 1, 3 * w)) = 3 * w
      /\ SubSeq(k, 1, 3 * w) \o s = SubSeq(k, 1, 3 * w + Len(s))
      /\ Len(SubSeq(k, 1, 3 * w + Len(s))) = 3 * w + Len(s)
  BY <1>2, <1>5, <1>6, BytesJoined DEF IsKey
<1> QED
  BY <1>1, <1>2, <1>7 DEF s

\* The next digit of a group.
LEMMA DigitRead ==
    ASSUME DecoderType, result = Busy,
           NEW k, IsKey(k), NEW w \in Nat, NEW r \in 0 .. 2, 3 * w < Len(k),
           HasRead(k, w, r, y, t, g, pOut),
           Shift(Group(k, w)[r + 1], Room(Len(k), w, r + 1))
    PROVE  HasRead(k, w, r + 1, y', t', g', pOut') /\ result' = Busy
<1>1. /\ y = r /\ t = Bits(Group(k, w), r) /\ g = Room(Len(k), w, r)
      /\ pOut = SubSeq(k, 1, BytesIn(Len(k), w)) /\ Len(pOut) <= OutMax
  BY DEF HasRead
<1>2. /\ t' = t * 64 + Group(k, w)[r + 1] /\ y' = r + 1
      /\ g' = Room(Len(k), w, r + 1) /\ pOut' = pOut /\ result' = Busy
  BY <1>1 DEF Shift
<1>4. Bits(Group(k, w), r + 1) = Bits(Group(k, w), r) * 64 + Group(k, w)[r + 1]
  <2> DEFINE d == Group(k, w)
  <2>1. d[1] \in Nat
    BY GroupDigits
  <2> HIDE DEF d
  <2>2. Bits(d, r + 1) = Bits(d, r) * 64 + d[r + 1]
    <3>1. CASE r = 0
      BY <2>1, <3>1 DEF Bits
    <3>2. CASE r = 1
      BY <3>2 DEF Bits
    <3>3. CASE r = 2
      BY <3>3 DEF Bits
    <3> QED
      BY <3>1, <3>2, <3>3
  <2> QED
    BY <2>2 DEF d
<1> QED
  BY <1>1, <1>2, <1>4 DEF HasRead

\* The last digit of a group.
LEMMA GroupRead ==
    ASSUME DecoderType, result = Busy,
           NEW k, IsKey(k), NEW w \in Nat, 3 * w < Len(k),
           HasRead(k, w, 3, y, t, g, pOut),
           Shift(Group(k, w)[4], Room(Len(k), w + 1, 0))
    PROVE  \/ HasRead(k, w + 1, 0, y', t', g', pOut') /\ result' = Busy
           \/ result' = -1 /\ Len(k) > OutMax
<1> DEFINE m == Room(Len(k), w + 1, 0)
           full == t * 64 + Group(k, w)[4]
<1>1. y = 3 /\ t = Bits(Group(k, w), 3) /\ pOut = SubSeq(k, 1, BytesIn(Len(k), w))
  BY DEF HasRead
<1>10. Len(pOut) <= OutMax
  BY DEF HasRead
<1>2. full = Bits(Group(k, w), 4)
  BY <1>1 DEF Bits
<1>0. Len(k) \in Nat
  BY DEF IsKey
<1>3. m = GroupLen(Len(k), w) /\ m \in 1 .. 3
  BY <1>0, RoomStep, GroupLenOK
<1> HIDE DEF m
<1>4. /\ t' = 0 /\ y' = 0 /\ g' = m
      /\ IF TooLong(Len(pOut), m) THEN result' = -1 /\ pOut' = pOut
         ELSE pOut' = pOut \o Stored(full, m) /\ result' = Busy
  <2>1. Shift(Group(k, w)[4], m)
    BY DEF m
  <2>2. ~(y < 3)
    BY <1>1
  <2> QED
    BY <2>1, <2>2 DEF Shift
<1> HIDE DEF full
<1>5. pOut \o Stored(full, m) = SubSeq(k, 1, BytesIn(Len(k), w + 1))
  BY <1>1, <1>2, <1>3, GroupStored
<1>11. Len(pOut) = 3 * w
  BY <1>1, GroupStored
<1>12. Len(SubSeq(k, 1, BytesIn(Len(k), w + 1))) = 3 * w + m
  BY <1>3, GroupStored
<1>6. OutMax \in Nat /\ 3 * w + m <= Len(k)
  BY <1>0, <1>3, GroupLenOK, RoomAssumption
<1>7. TooLong(Len(pOut), m) <=> 3 * w + m > OutMax
  <2>1. Len(pOut) \in 0 .. OutMax /\ m \in 0 .. 3
    BY <1>3, <1>6, <1>10, <1>11
  <2>2. TooLong(Len(pOut), m) <=> Len(pOut) + m > OutMax
    BY <2>1, RoomTested
  <2> QED
    BY <1>11, <2>2
<1>8. CASE TooLong(Len(pOut), m)
  BY <1>0, <1>3, <1>4, <1>6, <1>7, <1>8
<1>9. CASE ~TooLong(Len(pOut), m)
  <2>1. pOut' = SubSeq(k, 1, BytesIn(Len(k), w + 1)) /\ result' = Busy
    BY <1>4, <1>5, <1>9
  <2>4. Len(pOut') = 3 * w + m
    BY <1>12, <2>1
  <2>2. Len(pOut') <= OutMax
    BY <1>3, <1>6, <1>7, <1>9, <2>4
  <2>3. Bits(Group(k, w + 1), 0) = 0
    BY DEF Bits
  <2> QED
    BY <1>4, <2>1, <2>2, <2>3 DEF HasRead, m
<1> QED
  BY <1>8, <1>9

\* The end of the text.
LEMMA KeyEnds ==
    ASSUME NEW k, IsKey(k), k # <<>>, NEW w \in Nat, NEW r \in 0 .. 3,
           4 * w + r = EncodedLen(Len(k)),
           HasRead(k, w, r, y, t, g, pOut)
    PROVE  pOut = k /\ Len(k) <= OutMax
<1>1. pOut = SubSeq(k, 1, BytesIn(Len(k), w)) /\ Len(pOut) <= OutMax
  BY DEF HasRead
<1>2. BytesIn(Len(k), w) = Len(k)
  BY DEF EncodedLen, BytesIn, IsKey
<1>3. SubSeq(k, 1, Len(k)) = k
  BY SubSeqFull DEF IsKey
<1> QED
  BY <1>1, <1>2, <1>3

\* A character of a text that was made from a key.
LEMMA KeyCharRead ==
    ASSUME DecoderType, result = Busy,
           NEW k, IsKey(k), NEW w \in Nat, NEW r \in 0 .. 3, NEW c,
           4 * w + r < EncodedLen(Len(k)), c = Encode(k)[4 * w + r + 1],
           HasRead(k, w, r, y, t, g, pOut),
           Shift(IF c = Pad THEN 0 ELSE c, IF c = Pad THEN (g + Word - 1) % Word ELSE g)
    PROVE  \/ /\ result' = Busy
              /\ IF r = 3 THEN HasRead(k, w + 1, 0, y', t', g', pOut')
                 ELSE HasRead(k, w, r + 1, y', t', g', pOut')
           \/ result' = -1 /\ Len(k) > OutMax
<1> DEFINE e == Group(k, w)[r + 1]
           next == IF r = 3 THEN Room(Len(k), w + 1, 0) ELSE Room(Len(k), w, r + 1)
<1>1. /\ 3 * w < Len(k) /\ e \in 0 .. 63
      /\ IF r > 1 /\ 3 * w + r > Len(k) THEN c = Pad /\ e = 0 ELSE c = e
  BY EncodedPlace
<1>2. g = Room(Len(k), w, r)
  BY DEF HasRead
<1>0. Len(k) \in Nat
  BY DEF IsKey
<1>3. /\ g \in 1 .. 3
      /\ next = IF r > 1 /\ 3 * w + r > Len(k) THEN g - 1 ELSE g
  BY <1>0, <1>1, <1>2, RoomStep
<1> HIDE DEF e, next
<1>4. (g + Word - 1) % Word = g - 1
  BY <1>3, CountedDown
<1>5. CASE r > 1 /\ 3 * w + r > Len(k)
  <2>1. Shift(e, next)
    BY <1>1, <1>3, <1>4, <1>5
  <2> QED
    BY <2>1, <1>1, DigitRead, GroupRead DEF e, next
<1>6. CASE ~(r > 1 /\ 3 * w + r > Len(k))
  <2>1. c = e /\ c # Pad
    BY <1>1, <1>6 DEF Pad
  <2>2. Shift(e, next)
    BY <1>3, <1>6, <2>1
  <2> QED
    BY <2>2, <1>1, DigitRead, GroupRead DEF e, next
<1> QED
  BY <1>5, <1>6

\* A text that was made from a key, one step further.
LEMMA KeyStored ==
    ASSUME DecoderType, KeySoFar, Decode
    PROVE  KeySoFar'
<1> SUFFICES ASSUME source.key # <<>>, source' = source
             PROVE  KeySoFar'
  <2>1. source' = source
    BY DEF Decode, DecodeChar, DecodeEnd
  <2> QED
    BY <2>1 DEF KeySoFar
<1>1. PICK k : k = source.key
  OBVIOUS
<1>2. /\ text \in Seq(Char) /\ text' = text /\ IsKey(k) /\ k # <<>>
      /\ x \in 0 .. Len(text) /\ result = Busy
  BY <1>1, TextAssumption
     DEF DecoderType, text, TextType, Decode, DecodeChar, DecodeEnd, IsKey
<1>3. /\ Significant(text, Len(text)) = EncodedLen(Len(k))
      /\ \A i \in 1 .. Len(text) : text[i] # Noise =>
           text[i] = Encode(k)[Significant(text, i)]
  BY <1>1, TextAssumption DEF DecoderType, text
<1>4. \A w \in Nat, r \in 0 .. 3 : Significant(text, x) = 4 * w + r =>
          HasRead(k, w, r, y, t, g, pOut)
  BY <1>1, <1>2 DEF KeySoFar
<1>5. Significant(text, x) \in Nat /\ Significant(text, x) <= EncodedLen(Len(k))
  BY <1>2, <1>3, SignificantStep
<1>6. PICK w \in Nat, r \in 0 .. 3 : Significant(text, x) = 4 * w + r
  BY <1>5, PlaceExists
<1>7. HasRead(k, w, r, y, t, g, pOut)
  BY <1>4, <1>6
<1>8. source'.key = k
  BY <1>1
<1>9. CASE DecodeEnd
  <2>1. x = Len(text) /\ pOut' = pOut
    BY <1>9 DEF DecodeEnd
  <2>2. 4 * w + r = EncodedLen(Len(k))
    BY <1>3, <1>6, <2>1
  <2>3. pOut = k /\ Len(k) <= OutMax
    BY <1>2, <1>7, <2>2, KeyEnds
  <2>4. EncodedLen(Len(k)) # 0
    BY <1>2 DEF IsKey, EncodedLen
  <2>5. Len(text) # 0
    BY <1>2, <1>3, <2>4, SignificantStep
  <2>6. result' = 1
    BY <1>9, <2>5 DEF DecodeEnd
  <2> QED
    BY <1>8, <2>1, <2>3, <2>6 DEF KeySoFar, Busy
<1>10. CASE DecodeChar
  <2> DEFINE c == text[x + 1]
             m == IF c = Pad THEN (g + Word - 1) % Word ELSE g
  <2>1. /\ x < Len(text) /\ x' = x + 1
        /\ IF c = Noise THEN UNCHANGED <<t, y, g, pOut, result>>
           ELSE Shift(IF c = Pad THEN 0 ELSE c, m)
    BY <1>10, CharRead
  <2>2. Significant(text, x + 1) =
          IF c = Noise THEN Significant(text, x) ELSE Significant(text, x) + 1
    BY <1>2, <2>1, SignificantStep
  <2>3. Significant(text, x)' = Significant(text, x + 1)
    BY <1>2, <2>1
  <2>4. CASE c = Noise
    <3>1. /\ Significant(text, x)' = Significant(text, x)
          /\ t' = t /\ y' = y /\ g' = g /\ pOut' = pOut /\ result' = Busy
      BY <1>2, <2>1, <2>2, <2>3, <2>4
    <3> QED
      BY <1>4, <1>8, <3>1 DEF KeySoFar, Busy
  <2>5. CASE c # Noise
    <3>1. Significant(text, x + 1) = 4 * w + r + 1
      BY <1>6, <2>2, <2>5
    <3>2. x + 1 \in 1 .. Len(text) /\ x + 1 \in 0 .. Len(text)
      BY <1>2, <2>1
    <3>3. c = Encode(k)[4 * w + r + 1]
      BY <1>3, <2>5, <3>1, <3>2
    <3>4. Significant(text, x + 1) <= EncodedLen(Len(k))
      BY <1>2, <1>3, <3>2, SignificantStep
    <3>5. 4 * w + r < EncodedLen(Len(k))
      BY <1>2, <3>1, <3>4 DEF IsKey, EncodedLen
    <3> HIDE DEF c
    <3>6. \/ /\ result' = Busy
             /\ IF r = 3 THEN HasRead(k, w + 1, 0, y', t', g', pOut')
                ELSE HasRead(k, w, r + 1, y', t', g', pOut')
          \/ result' = -1 /\ Len(k) > OutMax
      BY <1>2, <1>7, <2>1, <2>5, <3>3, <3>5, KeyCharRead
    <3>7. ASSUME NEW v \in Nat, NEW q \in 0 .. 3, 4 * w + r + 1 = 4 * v + q
          PROVE  IF r = 3 THEN v = w + 1 /\ q = 0 ELSE v = w /\ q = r + 1
      BY <3>7
    <3>8. CASE result' = Busy
      <4>1. IF r = 3 THEN HasRead(k, w + 1, 0, y', t', g', pOut')
            ELSE HasRead(k, w, r + 1, y', t', g', pOut')
        BY <3>6, <3>8 DEF Busy
      <4>2. ASSUME NEW v \in Nat, NEW q \in 0 .. 3, Significant(text, x)' = 4 * v + q
            PROVE  HasRead(k, v, q, y', t', g', pOut')
        <5>1. 4 * w + r + 1 = 4 * v + q
          BY <2>3, <3>1, <4>2
        <5> QED
          BY <3>7, <4>1, <5>1
      <4> QED
        BY <1>8, <3>8, <4>2 DEF KeySoFar, Busy
    <3>9. CASE result' = -1 /\ Len(k) > OutMax
      BY <1>8, <3>9 DEF KeySoFar, Busy
    <3> QED
      BY <3>6, <3>8, <3>9
  <2> QED
    BY <2>4, <2>5
<1> QED
  BY <1>9, <1>10 DEF Decode

-----------------------------------------------------------------------------
(* The clock.                                                               *)

LEMMA Division ==
    ASSUME NEW a \in Nat, NEW b \in Nat \ {0}
    PROVE  /\ a \div b \in Nat
           /\ b * (a \div b) <= a /\ a < b * ((a \div b) + 1)
OBVIOUS

LEMMA ProductsOrdered ==
    ASSUME NEW a \in Nat, NEW b \in Nat, NEW c \in Nat, b <= c
    PROVE  a * b <= a * c /\ a * b \in Nat /\ a * c \in Nat
<1>1. a * (c - b) \in Nat
  OBVIOUS
<1>2. a * c = a * b + a * (c - b)
  OBVIOUS
<1>3. a * b \in Nat /\ a * c \in Nat
  OBVIOUS
<1> QED
  BY <1>1, <1>2, <1>3

\* What is at least b times c goes at least c times into b.
LEMMA QuotientBound ==
    ASSUME NEW a \in Nat, NEW b \in Nat \ {0}, NEW c \in Nat, b * c <= a
    PROVE  c <= a \div b
<1> PICK q \in Nat : q = a \div b /\ a < b * (q + 1)
  BY Division
<1>1. CASE q + 1 <= c
  <2>1. b * (q + 1) <= b * c /\ b * (q + 1) \in Nat /\ b * c \in Nat
    BY <1>1, ProductsOrdered
  <2> QED
    BY <2>1
<1> QED
  BY <1>1

\* Dividing by more makes less.
LEMMA QuotientsOrdered ==
    ASSUME NEW n \in Nat, NEW a \in Nat \ {0}, NEW b \in Nat \ {0}, b <= a
    PROVE  n \div a <= n \div b
<1> PICK q \in Nat : q = n \div a /\ a * q <= n
  BY Division
<1>1. q * b <= q * a /\ q * b \in Nat /\ q * a \in Nat
  BY ProductsOrdered
<1>2. b * q <= n
  BY <1>1
<1> QED
  BY <1>2, QuotientBound

\* What the recursive function in SumOf computes.
Sums(f, sample, n) ==
    /\ f \in [0 .. n -> Nat]
    /\ \A i \in 0 .. n : f[i] = IF i = 0 THEN 0 ELSE f[i - 1] + sample[i]

LEMMA SumsExist ==
    ASSUME NEW sample \in [1 .. SampleTimes -> Nat]
    PROVE  \E f : Sums(f, sample, SampleTimes)
<1> DEFINE T == {n \in Nat : n <= SampleTimes /\ ~ \E f : Sums(f, sample, n)}
<1>1. T \in SUBSET Nat /\ SampleTimes \in Nat
  BY ClockAssumption
<1>2. SUFFICES ASSUME ~ \E f : Sums(f, sample, SampleTimes)
               PROVE  FALSE
  OBVIOUS
<1>7. SampleTimes \in T
  BY <1>1, <1>2
<1>3. PICK n \in T : \A m \in T : n <= m
  BY <1>1, <1>7, LeastElement
<1>4. n \in Nat /\ n <= SampleTimes /\ ~ \E f : Sums(f, sample, n)
  BY <1>3
<1>5. CASE n = 0
  <2>1. [i \in 0 .. 0 |-> 0] \in [0 .. 0 -> Nat]
    OBVIOUS
  <2>2. Sums([i \in 0 .. 0 |-> 0], sample, 0)
    BY <2>1 DEF Sums
  <2> QED
    BY <1>4, <1>5, <2>2
<1>6. CASE n # 0
  <2>1. n - 1 \in Nat /\ n - 1 <= SampleTimes /\ n - 1 \notin T
    BY <1>1, <1>3, <1>4, <1>6
  <2>2. PICK f : Sums(f, sample, n - 1)
    BY <2>1
  <2> DEFINE h == [i \in 0 .. n |-> IF i = n THEN f[n - 1] + sample[n] ELSE f[i]]
  <2>3. f \in [0 .. (n - 1) -> Nat] /\ sample[n] \in Nat
    BY <1>1, <1>4, <1>6, <2>2 DEF Sums
  <2>4. f[n - 1] + sample[n] \in Nat
    BY <2>1, <2>3
  <2>5. \A i \in 0 .. n : (IF i = n THEN f[n - 1] + sample[n] ELSE f[i]) \in Nat
    BY <1>4, <2>3, <2>4
  <2>6. h \in [0 .. n -> Nat]
    BY <2>5
  <2>7. \A i \in 0 .. n : h[i] = IF i = 0 THEN 0 ELSE h[i - 1] + sample[i]
    <3> TAKE i \in 0 .. n
    <3>1. CASE i = n
      <4>1. h[n] = f[n - 1] + sample[n] /\ h[n - 1] = f[n - 1]
        BY <1>4, <1>6
      <4> QED
        BY <1>6, <3>1, <4>1
    <3>2. CASE i # n
      <4>1. i \in 0 .. (n - 1)
        BY <1>4, <3>2
      <4>2. h[i] = f[i] /\ (i # 0 => h[i - 1] = f[i - 1])
        BY <1>4, <3>2, <4>1
      <4>3. f[i] = IF i = 0 THEN 0 ELSE f[i - 1] + sample[i]
        BY <2>2, <4>1 DEF Sums
      <4> QED
        BY <4>2, <4>3
    <3> QED
      BY <3>1, <3>2
  <2>8. Sums(h, sample, n)
    BY <2>6, <2>7 DEF Sums
  <2> QED
    BY <1>4, <2>8
<1> QED
  BY <1>5, <1>6

LEMMA SumOfIsSums ==
    ASSUME NEW sample \in [1 .. SampleTimes -> Nat]
    PROVE  \E f : Sums(f, sample, SampleTimes) /\ SumOf(sample) = f[SampleTimes]
<1> DEFINE Equation(f) ==
             f = [n \in 0 .. SampleTimes |-> IF n = 0 THEN 0 ELSE f[n - 1] + sample[n]]
           upto == CHOOSE f : Equation(f)
<1>1. PICK f : Sums(f, sample, SampleTimes)
  BY SumsExist
<1>2. Equation(f)
  BY <1>1 DEF Sums
<1>3. Equation(upto)
  BY <1>2
<1>4. SumOf(sample) = upto[SampleTimes]
  BY DEF SumOf
<1> HIDE DEF upto
<1>5. Sums(upto, sample, SampleTimes)
  <2>1. \A i \in 0 .. SampleTimes : upto[i] = IF i = 0 THEN 0 ELSE upto[i - 1] + sample[i]
    BY <1>3
  <2>2. \A i \in 0 .. SampleTimes : upto[i] = f[i]
    <3> DEFINE T == {i \in 0 .. SampleTimes : upto[i] # f[i]}
    <3>1. T \in SUBSET Nat
      OBVIOUS
    <3>2. SUFFICES ASSUME T # {}
                   PROVE  FALSE
      OBVIOUS
    <3>3. PICK i \in T : \A j \in T : i <= j
      BY <3>1, <3>2, LeastElement
    <3>4. i \in 0 .. SampleTimes /\ upto[i] # f[i]
      BY <3>3
    <3>5. f[i] = IF i = 0 THEN 0 ELSE f[i - 1] + sample[i]
      BY <1>1, <3>4 DEF Sums
    <3>6. i # 0
      BY <2>1, <3>4, <3>5
    <3>7. i - 1 \in 0 .. SampleTimes /\ i - 1 \notin T
      BY <3>3, <3>4, <3>6, ClockAssumption
    <3>8. upto[i - 1] = f[i - 1]
      BY <3>7
    <3> QED
      BY <2>1, <3>4, <3>5, <3>6, <3>8
  <2>3. upto \in [0 .. SampleTimes -> Nat]
    <3>1. \A i \in 0 .. SampleTimes : f[i] \in Nat
      BY <1>1 DEF Sums
    <3>2. upto = [i \in 0 .. SampleTimes |-> upto[i]]
      BY <1>3
    <3> QED
      BY <2>2, <3>1, <3>2
  <2> QED
    BY <2>1, <2>3 DEF Sums
<1> QED
  BY <1>4, <1>5

\* If no sleep is shorter than asked, the samples make up at least the ticks
\* of all of them.
LEMMA SumBound ==
    ASSUME NEW sample \in [1 .. SampleTimes -> Nat], NEW f, NEW least \in Nat,
           Sums(f, sample, SampleTimes),
           \A i \in 1 .. SampleTimes : least <= sample[i]
    PROVE  \A n \in 0 .. SampleTimes : n * least <= f[n]
<1> DEFINE T == {n \in 0 .. SampleTimes : ~(n * least <= f[n])}
<1>1. T \in SUBSET Nat
  OBVIOUS
<1>2. SUFFICES ASSUME T # {}
               PROVE  FALSE
  OBVIOUS
<1>3. PICK n \in T : \A m \in T : n <= m
  BY <1>1, <1>2, LeastElement
<1>4. n \in 0 .. SampleTimes /\ ~(n * least <= f[n])
  BY <1>3
<1>5. f[n] = IF n = 0 THEN 0 ELSE f[n - 1] + sample[n]
  BY <1>4 DEF Sums
<1>6. n # 0
  BY <1>4, <1>5
<1>7. n - 1 \in 0 .. SampleTimes /\ n - 1 \notin T /\ n \in 1 .. SampleTimes
  BY <1>3, <1>4, <1>6, ClockAssumption
<1>8. (n - 1) * least <= f[n - 1]
  BY <1>7
<1>9. f[n - 1] \in Nat /\ sample[n] \in Nat /\ least <= sample[n]
  BY <1>7 DEF Sums
<1>10. n * least = (n - 1) * least + least /\ (n - 1) * least \in Nat
  BY <1>7
<1> QED
  BY <1>4, <1>5, <1>6, <1>8, <1>9, <1>10

\* Milliseconds have at least as many ticks as they really have.
ClockInv ==
    /\ ticks_per_ms \in Nat
    /\ ~disturbed /\ ticks_per_ms # 0 => TickRate <= ticks_per_ms

LEMMA ClockKept ==
    ASSUME ClockInv, Next
    PROVE  ClockInv'
<1>1. CASE TimerTicksInit
  <2>1. PICK sample \in [1 .. SampleTimes -> Samples] :
          /\ ticks_per_ms' = PerMs(sample)
          /\ disturbed' = \E i \in 1 .. SampleTimes : sample[i] < SampleSleep * TickRate
    BY <1>1 DEF TimerTicksInit
  <2>2. sample \in [1 .. SampleTimes -> Nat]
    BY ClockAssumption
  <2>3. PICK f : Sums(f, sample, SampleTimes) /\ SumOf(sample) = f[SampleTimes]
    BY <2>2, SumOfIsSums
  <2>4. /\ SampleTimes \in Nat \ {0} /\ SampleSleep \in Nat \ {0} /\ TickRate \in Nat
        /\ SampleTimes \in 0 .. SampleTimes
    BY ClockAssumption
  <2>5. PICK sum \in Nat : sum = SumOf(sample)
    BY <2>3, <2>4 DEF Sums
  <2>6. PICK mean \in Nat : mean = sum \div SampleTimes
    BY <2>4, Division
  <2>7. ticks_per_ms' = mean \div SampleSleep /\ mean \div SampleSleep \in Nat
    BY <2>1, <2>4, <2>5, <2>6, Division DEF PerMs
  <2>8. ASSUME ~disturbed'
        PROVE  TickRate <= mean \div SampleSleep
    <3> PICK least \in Nat : least = SampleSleep * TickRate
      BY <2>4
    <3>1. \A i \in 1 .. SampleTimes : least <= sample[i]
      <4> TAKE i \in 1 .. SampleTimes
      <4>1. ~(sample[i] < SampleSleep * TickRate) /\ sample[i] \in Nat
        BY <2>1, <2>2, <2>8
      <4> QED
        BY <4>1
    <3>2. SampleTimes * least <= sum
      BY <2>2, <2>3, <2>4, <2>5, <3>1, SumBound
    <3>3. least <= mean
      BY <2>4, <2>6, <3>2, QuotientBound
    <3> QED
      BY <2>4, <3>3, QuotientBound
  <2> QED
    BY <2>7, <2>8 DEF ClockInv
<1>2. CASE ~TimerTicksInit
  <2>1. SameClock
    BY <1>2 DEF Next, InitLog, LoadCliProxy, LoadSerProxy, DecodeKey, ClientKeyDecoded,
           ServerKeyDecoded, KeyDecoded, CiperInit, ClientPoolInit, ServerPoolInit,
           PoolInit, ClientAgentService, ServerAgentService, AgentService,
           EpollCreate, EventsMalloc, SessionTakes, SessionCloses,
           ClientLoopFails, ServerLoopFails, LoopFails, ClientError, ServerError
  <2> QED
    BY <2>1 DEF SameClock, ClockInv
<1> QED
  BY <1>1, <1>2

-----------------------------------------------------------------------------
(* The theorems.                                                            *)

Inv == MainInv /\ DecoderInv /\ ClockInv

LEMMA InitOK ==
    ASSUME Init
    PROVE  Inv
<1>1. /\ source \in Texts /\ text \in Seq(Char) /\ source.key \in Seq(Octet)
      /\ x = 0 /\ t = 0 /\ y = 0 /\ g = 3 /\ pOut = <<>> /\ result = Busy
      /\ OutMax \in Nat /\ Word \in Nat /\ Word > 3
  BY TextAssumption, RoomAssumption DEF Init, DecodeInit, text, TextType
<1>2. DecoderType
  BY <1>1 DEF DecoderType
<1>3. Padding
  <2>1. Cardinality(Pads(0)) = 0
    BY <1>1, PadsStep
  <2> QED
    BY <1>1, <2>1 DEF Padding
<1>4. KeySoFar
  <2> PICK k : k = source.key
    OBVIOUS
  <2>1. Significant(text, 0) = 0
    BY <1>1, SignificantStep
  <2>2. ASSUME NEW w \in Nat, NEW r \in 0 .. 3, 0 = 4 * w + r
        PROVE  w = 0 /\ r = 0
    BY <2>2
  <2>3. Len(k) \in Nat /\ Len(pOut) = 0
    BY <1>1
  <2>4. Room(Len(k), 0, 0) = 3 /\ BytesIn(Len(k), 0) = 0 /\ Bits(Group(k, 0), 0) = 0
    BY <2>3 DEF Room, BytesIn, Bits
  <2>5. SubSeq(k, 1, 0) = <<>>
    BY <1>1, SubSeqEmpty
  <2>6. HasRead(k, 0, 0, y, t, g, pOut)
    BY <1>1, <2>3, <2>4, <2>5 DEF HasRead
  <2> QED
    BY <1>1, <2>1, <2>2, <2>6 DEF KeySoFar, Busy
<1>5. MainInv
  <2>1. /\ pc = "ldlog_init" /\ failed = "nothing" /\ ret = 0
        /\ program \in {"client", "server"} /\ inherited \in {Standard, {1, 2}, {}}
        /\ p = [fault_log |-> Closed, log |-> Closed, local_addr |-> FALSE,
                server_addr |-> FALSE, g_sessions |-> FALSE, sockets |-> {},
                agent_fd |-> 0, agent_epfd |-> Closed, session_epfd |-> Closed,
                registered |-> FALSE, open |-> {}, heap |-> {}, wrong |-> {}]
    BY DEF Init
  <2>2. p \in ProcessType
    <3>1. 0 \in Fd
      BY DescriptorAssumption DEF Fd
    <3> QED
      BY <2>1, <3>1 DEF ProcessType
  <2>3. Held(p) = {}
    BY <2>1 DEF Held
  <2>4. Tidy(p, {})
    BY <2>1, <2>2, <2>3 DEF Tidy, Closed
  <2>5. Nowhere(p)
    BY <2>1 DEF Nowhere, NoSessions, NoService, NoEpoll
  <2>6. Built
    BY <2>1, <2>4, <2>5 DEF Built
  <2> QED
    BY <2>1, <2>6 DEF MainInv, MainType, Status, Statement
<1>6. ClockInv
  BY DEF Init, ClockInv
<1> QED
  BY <1>2, <1>3, <1>4, <1>5, <1>6 DEF Inv, DecoderInv

LEMMA StepOK ==
    ASSUME Inv, [Next]_vars
    PROVE  Inv'
<1>1. MainInv /\ DecoderInv /\ ClockInv /\ result \in {Busy, 1, -1}
  BY DEF Inv, DecoderInv, DecoderType
<1>2. CASE Next
  <2>1. MainInv'
    BY <1>1, <1>2, InitLogOK, TimerTicksInitOK, LoadCliProxyOK, LoadSerProxyOK,
       DecodeKeyOK, KeyDecodedOK, CiperInitOK, PoolInitOK, AgentServiceOK,
       EpollCreateOK, EventsMallocOK, SessionTakesOK, SessionClosesOK, LoopFailsOK,
       ClientErrorOK, ServerErrorOK
       DEF Next, ClientKeyDecoded, ServerKeyDecoded, ClientPoolInit, ServerPoolInit,
           ClientAgentService, ServerAgentService, ClientLoopFails, ServerLoopFails
  <2>2. DecoderInv'
    <3>1. CASE DecodeKey
      BY <1>1, <3>1, DecoderTyped, PaddingCounted, KeyStored DEF DecodeKey, DecoderInv
    <3>2. CASE ~DecodeKey
      <4>1. UNCHANGED decoder
        BY <1>2, <3>2
           DEF Next, InitLog, TimerTicksInit, LoadCliProxy, LoadSerProxy,
               ClientKeyDecoded, ServerKeyDecoded, KeyDecoded, CiperInit,
               ClientPoolInit, ServerPoolInit, PoolInit,
               ClientAgentService, ServerAgentService, AgentService,
               EpollCreate, EventsMalloc, SessionTakes, SessionCloses,
               ClientLoopFails, ServerLoopFails, LoopFails, ClientError, ServerError
      <4> QED
        BY <1>1, <4>1 DEF decoder, DecoderInv, DecoderType, Padding, KeySoFar, Pads,
                          text
    <3> QED
      BY <3>1, <3>2
  <2> QED
    BY <1>1, <1>2, <2>1, <2>2, ClockKept DEF Inv
<1>3. CASE UNCHANGED vars
  <2>1. MainInv'
    BY <1>1, <1>3 DEF vars, decoder, MainInv, MainType, Built, Status, Logged, Addressed,
                      ReleasedOnce
  <2>2. DecoderInv'
    BY <1>1, <1>3 DEF vars, decoder, DecoderInv, DecoderType, Padding, KeySoFar, Pads, text
  <2>3. ClockInv'
    BY <1>1, <1>3 DEF vars, ClockInv
  <2> QED
    BY <2>1, <2>2, <2>3 DEF Inv
<1> QED
  BY <1>2, <1>3

\* The state of main(), of the decoder and of the clock, whatever fails.
THEOREM Invariant == Spec => []Inv
<1>1. Init => Inv
  BY InitOK
<1>2. Inv /\ [Next]_vars => Inv'
  BY StepOK
<1> QED
  BY <1>1, <1>2, PTL DEF Spec

\* Base64Decode does not write behind the buffer of secret_key, as long as the
\* text has at most the two '=' of Base64Encode.
THEOREM KeyInBuffer == Spec => []DecodeInBuffer
<1>1. Inv => DecodeInBuffer
  BY DEF Inv, DecoderInv, Padding, DecodeInBuffer
<1> QED
  BY <1>1, Invariant, PTL

\* The key that load_*_proxy leaves is the one generate_secretkey printed,
\* whatever noise its text has picked up; a key that is too long is refused.
THEOREM KeyArrives == Spec => []KeyAsConfigured
<1>1. Inv => KeyAsConfigured
  <2> SUFFICES ASSUME DecoderType, KeySoFar
               PROVE  KeyAsConfigured
    BY DEF Inv, DecoderInv
  <2>1. Len(source.key) \in Nat /\ OutMax \in Nat
    BY TextAssumption, RoomAssumption DEF DecoderType, TextType
  <2>2. result \in {Busy, 1, -1}
    BY DEF DecoderType
  <2> QED
    BY <2>1, <2>2 DEF KeySoFar, KeyAsConfigured, Busy
<1> QED
  BY <1>1, Invariant, PTL

\* No address is freed and no descriptor closed that is not held, on any path
\* through the label error; but for the files after a failed ldlog_init.
THEOREM GivenBackOnce == Spec => []ReleasedOnce
<1>1. Inv => ReleasedOnce
  BY DEF Inv, MainInv, MainType, Statement, Built, Logged, Tidy, ReleasedOnce
<1> QED
  BY <1>1, Invariant, PTL

\* What main() has acquired is given back when it returns, whichever call
\* failed; but for the array of events.
THEOREM AllGivenBack == Spec => []NothingKept
<1>1. Inv => NothingKept
  BY DEF Inv, MainInv, Built, NothingKept
<1> QED
  BY <1>1, Invariant, PTL

LEMMA ThreeElements ==
    ASSUME NEW a, NEW b, NEW c, a \notin {b, c}, b # c
    PROVE  Cardinality({a, b, c}) = 3
<1>1. IsFiniteSet({c}) /\ Cardinality({c}) = 1
  BY FS_Singleton
<1>2. IsFiniteSet({c} \cup {b}) /\ Cardinality({c} \cup {b}) = 2
  BY <1>1, FS_AddElement
<1>3. Cardinality(({c} \cup {b}) \cup {a}) = 3
  BY <1>2, FS_AddElement
<1>4. {a, b, c} = ({c} \cup {b}) \cup {a}
  OBVIOUS
<1> QED
  BY <1>3, <1>4

\* The loop has the sockets, the epolls, the pool, the events, the addresses
\* and the key that it needs.
THEOREM LoopFullyBuilt == Spec => []RunsFullyBuilt
<1>1. Inv => RunsFullyBuilt
  <2> SUFFICES ASSUME Inv, pc = "loop"
               PROVE  /\ p.registered
                      /\ {p.agent_fd, p.agent_epfd, p.session_epfd} \subseteq p.open \ p.sockets
                      /\ Cardinality({p.agent_fd, p.agent_epfd, p.session_epfd}) = 3
                      /\ p.g_sessions /\ {"sessions", "events", "local_addr"} \subseteq p.heap
                      /\ program = "client" => "server_addr" \in p.heap
                      /\ result = 1
    BY DEF RunsFullyBuilt
  <2>1. /\ Logged(p) /\ Addressed(p) /\ result = 1
        /\ p.g_sessions /\ "events" \in p.heap /\ Serving(p)
        /\ p.session_epfd > 0
    BY DEF Inv, MainInv, Built
  <2>2. /\ p.agent_fd > 0 /\ p.agent_epfd > 0 /\ p.session_epfd > 0 /\ p.registered
        /\ p.local_addr /\ (program = "client" => p.server_addr)
    BY <2>1 DEF Serving, Addressed
  <2>3. Tidy(p, Logs(p))
    BY <2>1 DEF Logged
  <2>4. /\ p.agent_fd \in Fd \cup {Closed} /\ p.agent_epfd \in Fd \cup {Closed}
        /\ p.session_epfd \in Fd \cup {Closed}
        /\ p.open = Logs(p) \cup Held(p)
        /\ \A d \in {p.agent_fd, p.agent_epfd, p.session_epfd} : d \notin p.sockets
        /\ p.agent_fd \notin {p.agent_epfd, p.session_epfd}
        /\ p.agent_epfd # p.session_epfd
        /\ p.local_addr <=> "local_addr" \in p.heap
        /\ p.server_addr <=> "server_addr" \in p.heap
        /\ p.g_sessions <=> "sessions" \in p.heap
    BY <2>2, <2>3 DEF Tidy, ProcessType
  <2>5. {p.agent_fd, p.agent_epfd, p.session_epfd} \subseteq p.open \ p.sockets
    BY <2>2, <2>4 DEF Held, Closed, Fd
  <2>6. Cardinality({p.agent_fd, p.agent_epfd, p.session_epfd}) = 3
    BY <2>4, ThreeElements
  <2> QED
    BY <2>1, <2>2, <2>4, <2>5, <2>6
<1> QED
  BY <1>1, Invariant, PTL

\* main() returns 0 only after epoll_create() or the malloc() of the events
\* has failed.
THEOREM StatusTells == Spec => []ExitStatus
<1>1. Inv => ExitStatus
  BY DEF Inv, MainInv, Status, ExitStatus
<1> QED
  BY <1>1, Invariant, PTL

\* An undisturbed calibration gives a clock that no timeout comes too early by.
THEOREM NeverFast == Spec => []ClockNeverFast
<1>1. Inv => ClockNeverFast
  <2> SUFFICES ASSUME ClockInv, ticks_per_ms # 0, ~disturbed, NEW n \in 0 .. 4 * TickRate
               PROVE  Ticks2Ms(n) <= n \div TickRate
    BY DEF Inv, ClockNeverFast
  <2>1. ticks_per_ms \in Nat /\ TickRate <= ticks_per_ms /\ TickRate \in Nat \ {0}
    BY ClockAssumption DEF ClockInv
  <2> PICK rate \in Nat \ {0} : rate = ticks_per_ms
    BY <2>1
  <2>2. n \in Nat /\ TickRate <= rate
    BY <2>1
  <2>3. n \div rate <= n \div TickRate
    BY <2>1, <2>2, QuotientsOrdered
  <2> QED
    BY <2>3 DEF Ticks2Ms
<1> QED
  BY <1>1, Invariant, PTL

=============================================================================
