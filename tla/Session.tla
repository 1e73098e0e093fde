------------------------------- MODULE Session -------------------------------
(***************************************************************************)
(* One slot of the session pool together with the kernel objects it owns:  *)
(* ld_session_t, the two sockets (browser side "cli", far side "svr") and  *)
(* their epoll registrations.  Every function of client.c that works on a  *)
(* session is an operator from a slot to a slot, so that the event loops   *)
(* (EventLoop, ClientLoop, ServerLoop) only say which slot becomes what.   *)
(*                                                                         *)
(* The lists of buffer_t packets are flattened to one sequence of bytes:   *)
(* the head packet's `off` is what has been dropped from the front of it.  *)
(***************************************************************************)
EXTENDS Integers, Sequences

CONSTANTS
    Byte,       \* the byte values (256 of them in the code)
    Xlate,      \* Xlate[x]: substitution applied to what is read from side x
    Requests,   \* what browsers send: records, see RequestType
    Reply,      \* Reply[q]: the bytes the far side may send when the request is q
    ReadMax,    \* size of g_data_cache: most bytes one read() returns
    SndBuf      \* bytes the kernel takes before write() returns EAGAIN

Cli == "cli"
Svr == "svr"
Side == {Cli, Svr}
Other(x) == IF x = Cli THEN Svr ELSE Cli

EPOLLIN == "EPOLLIN"
EPOLLOUT == "EPOLLOUT"
EPOLLHUP == "EPOLLHUP"       \* stands for EPOLLHUP and EPOLLERR, always reported

(* A request as its sender puts it on the wire: all its bytes, where its    *)
(* "\r\n\r\n" ends (0: nowhere), whether h3_request_header_parse accepts    *)
(* it, whether its method is CONNECT, whether a Host field is found and     *)
(* whether that has a port.  Only the server looks at more than the bytes.  *)
RequestType ==
    [bytes : Seq(Byte), end : Nat, parses : BOOLEAN, connect : BOOLEAN,
     host : BOOLEAN, port : BOOLEAN]

CipherOK == Xlate \in [Side -> [Byte -> Byte]]
TrafficOK ==
    /\ Requests # {}
    /\ Requests \subseteq RequestType
    /\ Reply \in [Requests -> Seq(Byte)]
BuffersOK == ReadMax \in Nat \ {0} /\ SndBuf \in Nat \ {0}
ASSUME SessionAssumption == CipherOK /\ TrafficOK /\ BuffersOK

Status ==
    {"INIT", "PARSE_HEAD", "PROCESS_HEAD", "BUILD_SVR", "DATA_RELAY", "CLOSE"}

\* A socket: handshake state, bytes received and not yet read, end of stream
\* and reset seen, free space of the send buffer, and (history) the number of
\* bytes the peer has sent and everything write() has taken.
SocketType ==
    [st : {"none", "syn", "est"}, rx : Seq(Byte), fin : BOOLEAN,
     rst : BOOLEAN, room : 0 .. SndBuf, sent : Nat, out : Seq(Byte)]

\* The strings the server makes of the Host field: all of it, and the parts in
\* front of and behind the colon.
HostString == {"temp", "domain", "strport"}

\* An epoll registration; `tag` is the lowest bit of ev.data.ptr.
RegistrationType == [on : BOOLEAN, events : SUBSET {EPOLLIN, EPOLLOUT}, tag : Side]

\* A slot, with (history) the strings made for its session and never freed, and
\* everything write() has taken for each side of it, kept when the side closes.
SlotType ==
    [flag : BOOLEAN, event_fd : Side \cup {"UNKNOWN"},
     status : [Side -> Status], fd : [Side -> BOOLEAN],
     data : [Side -> Seq(Byte)], head : Seq(Byte), h : BOOLEAN,
     req : Requests, taken : [Side -> Nat],
     sock : [Side -> SocketType], reg : [Side -> RegistrationType],
     strings : SUBSET HostString, gave : [Side -> Seq(Byte)]]

NoSocket ==
    [st |-> "none", rx |-> <<>>, fin |-> FALSE, rst |-> FALSE, room |-> 0,
     sent |-> 0, out |-> <<>>]

NewSocket(state) == [NoSocket EXCEPT !.st = state, !.room = SndBuf]

NoRegistration == [on |-> FALSE, events |-> {}, tag |-> Cli]

\* client_session_pool_init: the pool is memset to 0.  The `req` of a slot
\* that was never used means nothing.
EmptySlot(q) ==
    [flag |-> FALSE, event_fd |-> "UNKNOWN",
     status |-> [x \in Side |-> "INIT"], fd |-> [x \in Side |-> FALSE],
     data |-> [x \in Side |-> <<>>], head |-> <<>>, h |-> FALSE,
     req |-> q, taken |-> [x \in Side |-> 0],
     sock |-> [x \in Side |-> NoSocket],
     reg |-> [x \in Side |-> NoRegistration],
     strings |-> {}, gave |-> [x \in Side |-> <<>>]]

-----------------------------------------------------------------------------
(* System calls on a slot's descriptors.                                    *)

Translate(x, bytes) == [i \in DOMAIN bytes |-> Xlate[x][bytes[i]]]

EpollAdd(c, x, events, tag) ==
    [c EXCEPT !.reg[x] = [on |-> TRUE, events |-> events, tag |-> tag]]

\* EPOLL_CTL_MOD of a descriptor that is not registered fails with ENOENT;
\* no caller looks at the result.
EpollMod(c, x, events, tag) ==
    IF c.reg[x].on THEN EpollAdd(c, x, events, tag) ELSE c

\* EPOLL_CTL_DEL, close(), fd = -1.
CloseFd(c, x) ==
    [c EXCEPT !.fd[x] = FALSE, !.sock[x] = NoSocket,
              !.reg[x] = NoRegistration]

\* What epoll_wait reports for the socket of side x (level-triggered).
Reported(c, x) ==
    LET k == c.sock[x]
        ready == {e \in c.reg[x].events :
                    \/ e = EPOLLIN  /\ (k.rx # <<>> \/ k.fin \/ k.rst)
                    \/ e = EPOLLOUT /\ (k.rst \/ (k.st = "est" /\ k.room > 0))}
    IN  IF ~c.reg[x].on THEN {}
        ELSE ready \cup (IF k.rst THEN {EPOLLHUP} ELSE {})

\* handle_connections_event: an event with neither EPOLLIN nor EPOLLOUT is
\* taken for both, so that read() or write() finds out what is wrong.
Effective(events) ==
    IF events \cap {EPOLLIN, EPOLLOUT} = {} THEN {EPOLLIN, EPOLLOUT} ELSE events \cap {EPOLLIN, EPOLLOUT}
-----------------------------------------------------------------------------
(* Session pool entries.                                                    *)

\* __malloc_client_session once a free slot is found: memset and the fields
\* set after it.  q is the request the new browser is going to send.
InitSession(q) == [EmptySlot(q) EXCEPT !.flag = TRUE]

\* Slips of free_client_session: a socket is forgotten, the flag is not
\* cleared.
FreeSessionCliOnly(c) ==
    IF ~c.flag THEN c
    ELSE LET freed == IF c.fd[Cli] THEN CloseFd(c, Cli) ELSE c
         IN  [freed EXCEPT !.data = [x \in Side |-> <<>>], !.flag = FALSE]
FreeSessionKeepsFlag(c) ==
    IF ~c.flag THEN c
    ELSE LET freed == IF c.fd[Cli] THEN CloseFd(c, Cli) ELSE c
         IN  [(IF c.fd[Svr] THEN CloseFd(freed, Svr) ELSE freed)
                EXCEPT !.data = [x \in Side |-> <<>>]]

\* free_client_session.  Statuses and event_fd keep their values.
FreeSession(c) ==
    IF ~c.flag THEN c
    ELSE LET freed == [c EXCEPT !.data = [x \in Side |-> <<>>],
                                !.taken = [x \in Side |-> 0]]
             shut1 == IF c.fd[Cli] THEN CloseFd(freed, Cli) ELSE freed
             shut2 == IF c.fd[Svr] THEN CloseFd(shut1, Svr) ELSE shut1
         IN  [shut2 EXCEPT !.h = FALSE, !.head = <<>>, !.flag = FALSE]

OnSessionErr(c) == FreeSession(c)

-----------------------------------------------------------------------------
(* on_data_relay(session, event, x, other(x), from x, from other).          *)
(* Result: the slot and the return value.                                   *)

Return(value, c) == [ret |-> value, slot |-> c]

\* Slips: a packet is freed after it was written in part; `packet->off` is not
\* moved after a partial write.
WriteSideDropsRest(c, x) ==
    LET o == Other(x)
        len == Len(c.data[o])
        n == IF len <= c.sock[x].room THEN len ELSE c.sock[x].room
        written == [c EXCEPT
            !.data[o] = <<>>,
            !.sock[x].out = @ \o SubSeq(c.data[o], 1, n),
            !.gave[x] = @ \o SubSeq(c.data[o], 1, n),
            !.sock[x].room = @ - n]
    IN  IF c.data[o] # <<>> /\ c.sock[x].rst
        THEN Return(-1, OnSessionErr(c))
        ELSE Return(0, IF c.fd[o] THEN written ELSE FreeSession(written))
WriteSideResends(c, x) ==
    LET o == Other(x)
        len == Len(c.data[o])
        n == IF len <= c.sock[x].room THEN len ELSE c.sock[x].room
        written == [c EXCEPT
            !.data[o] = IF n = len THEN <<>> ELSE @,
            !.sock[x].out = @ \o SubSeq(c.data[o], 1, n),
            !.gave[x] = @ \o SubSeq(c.data[o], 1, n),
            !.sock[x].room = @ - n]
    IN  IF c.data[o] # <<>> /\ c.sock[x].rst
        THEN Return(-1, OnSessionErr(c))
        ELSE Return(0, written)

\* The EPOLLOUT half: write what waits for side x.  The loop over packets
\* stops when the kernel takes less than it is given or returns EAGAIN.
WriteSide(c, x) ==
    LET o == Other(x)
        len == Len(c.data[o])
        n == IF len <= c.sock[x].room THEN len ELSE c.sock[x].room
        written == [c EXCEPT
            !.data[o] = SubSeq(c.data[o], n + 1, len),
            !.sock[x].out = @ \o SubSeq(c.data[o], 1, n),
            !.gave[x] = @ \o SubSeq(c.data[o], 1, n),
            !.sock[x].room = @ - n]
    IN  IF c.data[o] # <<>> /\ c.sock[x].rst
        THEN Return(-1, OnSessionErr(c))
        ELSE IF written.data[o] = <<>> /\ ~c.fd[o]
             THEN Return(0, FreeSession(written))
             ELSE Return(0, written)

\* Slip: list_add instead of list_add_tail.
ReadSideAtFront(c, x, mem) ==
    LET k == c.sock[x]
        len == Len(k.rx)
        n == IF len <= ReadMax THEN len ELSE ReadMax
    IN  IF k.rx = <<>> THEN Return(0, IF k.fin THEN [c EXCEPT !.status[x] = "CLOSE"] ELSE c)
        ELSE Return(0, [c EXCEPT
               !.data[x] = Translate(x, SubSeq(k.rx, 1, n)) \o @,
               !.taken[x] = @ + n,
               !.sock[x].rx = SubSeq(k.rx, n + 1, len)])

\* The EPOLLIN half: one read() of side x, translated and queued for the
\* other side.  mem: whether malloc() of the packet succeeds.
ReadSide(c, x, mem) ==
    LET k == c.sock[x]
        len == Len(k.rx)
        n == IF len <= ReadMax THEN len ELSE ReadMax
        got == SubSeq(k.rx, 1, n)
    IN  CASE k.rx # <<>> /\ mem ->
               Return(0, [c EXCEPT
                   !.data[x] = @ \o Translate(x, got),
                   !.taken[x] = @ + n,
                   !.sock[x].rx = SubSeq(k.rx, n + 1, len)])
          [] k.rx # <<>> /\ ~mem -> Return(-1, OnSessionErr(c))
          [] k.rx = <<>> /\ k.rst -> Return(-1, OnSessionErr(c))
          [] k.rx = <<>> /\ ~k.rst /\ k.fin ->
               Return(0, [c EXCEPT !.status[x] = "CLOSE"])
          [] OTHER -> Return(0, c)              \* EAGAIN

OnDataRelay(c, x, events, mem) ==
    LET w == IF EPOLLOUT \in events THEN WriteSide(c, x) ELSE Return(0, c)
    IN  IF w.ret < 0 \/ ~w.slot.flag \/ EPOLLIN \notin events
        THEN w
        ELSE ReadSide(w.slot, x, mem)
-----------------------------------------------------------------------------
(* Closing and re-arming.                                                   *)

\* Slips of __on_session_close: the session is kept with nothing to flush,
\* freed with something to flush, or waits to read instead of to write.
CloseSideKeeps(c, x) ==
    LET shut == CloseFd([c EXCEPT !.data[Other(x)] = <<>>], x)
    IN  IF shut.fd[Other(x)] THEN EpollMod(shut, Other(x), {EPOLLOUT}, Svr)
        ELSE FreeSession(shut)
CloseSideAtOnce(c, x) == FreeSession(c)
CloseSideReads(c, x) ==
    LET shut == CloseFd([c EXCEPT !.data[Other(x)] = <<>>], x)
    IN  IF shut.fd[Other(x)] /\ shut.data[x] # <<>>
        THEN EpollMod(shut, Other(x), {EPOLLIN}, Svr)
        ELSE FreeSession(shut)

\* __on_session_close for the side x that was closed by its peer.  What still
\* waits for x is dropped; the other descriptor stays only to be flushed.
\* Its registration is always given the server tag, whichever side it is.
CloseSide(c, x) ==
    LET o == Other(x)
        shut == IF c.fd[x]
                THEN CloseFd([c EXCEPT !.data[o] = <<>>], x)
                ELSE c
    IN  IF shut.fd[o] /\ shut.data[x] # <<>>
        THEN EpollMod(shut, o, {EPOLLOUT}, Svr)
        ELSE FreeSession(shut)

\* on_session_close: the side whose event this is, if it is closed.  The two
\* tests follow each other in the code; event_fd makes them exclusive.
OnSessionClose(c) ==
    LET x == c.event_fd
    IN  IF c.flag /\ x \in Side /\ c.status[x] = "CLOSE"
        THEN CloseSide(c, x)
        ELSE c

\* Slip: EPOLLOUT is forgotten.
InterestInOnly(c, x) == {EPOLLIN}

\* Events of interest of side x after an ordinary event.
Interest(c, x) == {EPOLLIN} \cup (IF c.data[Other(x)] # <<>> THEN {EPOLLOUT} ELSE {})

EpollSessionMod(c) ==
    IF ~c.flag THEN c
    ELSE LET m1 == IF c.fd[Cli] THEN EpollMod(c, Cli, Interest(c, Cli), Cli)
                   ELSE c
         IN  IF c.fd[Svr] THEN EpollMod(m1, Svr, Interest(c, Svr), Svr)
             ELSE m1

\* The tail of both branches of handle_connections_event, after the relay r
\* of side x: `continue` on error, on_session_close when x is now closed,
\* epoll_session_mod otherwise.
Finish(r, x) ==
    IF r.ret < 0 THEN r.slot
    ELSE IF r.slot.status[x] = "CLOSE" THEN OnSessionClose(r.slot)
    ELSE EpollSessionMod(r.slot)

-----------------------------------------------------------------------------
(* Branches of handle_connections_event that both programs have.            *)

\* The branch for the server tag.  getsockopt(SO_ERROR) tells whether the
\* handshake failed; if not, the connection is taken to be up.
SvrEvent(c, events, mem) ==
    LET a == [c EXCEPT !.event_fd = Svr]
        up == [a EXCEPT !.status[Svr] = IF @ = "INIT" THEN "DATA_RELAY" ELSE @]
    IN  IF a.status[Svr] = "INIT" /\ a.sock[Svr].rst
        THEN OnSessionErr(a)
        ELSE IF up.status[Svr] = "DATA_RELAY"
             THEN Finish(OnDataRelay(up, Svr, Effective(events), mem), Svr)
             ELSE Finish(Return(0, up), Svr)

\* CLI_EVENT_STATUS_BUILD_SVR: socket, fcntl, setsockopt, connect, EPOLL_CTL_ADD.
BuildSvr(c, outcome) ==
    LET opened == [c EXCEPT !.fd[Svr] = TRUE, !.sock[Svr] =
                      NewSocket(IF outcome = "done" THEN "est" ELSE "syn"),
                              !.gave[Svr] = <<>>]
        built == [opened EXCEPT
                      !.status[Cli] = "DATA_RELAY",
                      !.status[Svr] = IF outcome = "done" THEN "DATA_RELAY" ELSE @]
    IN  CASE outcome = "nosocket" -> Return(-1, OnSessionErr(c))
          [] outcome = "error" -> Return(-1, OnSessionErr(opened))
          [] OTHER -> Return(0, EpollAdd(built, Svr, {EPOLLIN, EPOLLOUT}, Svr))

-----------------------------------------------------------------------------
(* History.                                                                 *)

\* Everything the peer of side x may send, and the part read so far.
PeerBytes(c, x) == IF x = Cli THEN c.req.bytes ELSE Reply[c.req]
Taken(c, x) == SubSeq(PeerBytes(c, x), 1, c.taken[x])
=============================================================================
