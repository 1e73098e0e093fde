------------------------------- MODULE Tunnel -------------------------------
(***************************************************************************)
(* The two programs together: one browser, LDProxy_client, LDProxy_server  *)
(* and one host.  The client's far socket and the server's near socket are *)
(* the ends of one TCP connection, the link; each program runs its own     *)
(* loop.  Nothing fails and nobody is reset from outside: what may go      *)
(* wrong here is what the programs and TCP do to each other, above all a   *)
(* close with bytes under way.                                             *)
(*                                                                         *)
(* Bounds: one browser connects once, so that each pool has one slot, 0;   *)
(* the clock stands still.                                                 *)
(***************************************************************************)
EXTENDS Prefix

CONSTANTS
    Byte,
    Key,            \* the substitution that is the secret key
    Requests,       \* as in Session, what the browser may send, in the clear
    Reply,          \* what the host answers
    Established,    \* the server's own answer to CONNECT
    HeadMax, ReadMax, SndBuf

VARIABLES
    c_conn, c_idle, c_pc, c_batch, c_s_index, c_i_start, c_max_timeout, c_since,
    s_conn, s_idle, s_pc, s_batch, s_s_index, s_i_start, s_max_timeout, s_since,
    link,           \* the connection between the programs, see LinkType
    browser,        \* what the browser has done: see BrowserType
    host            \* what the host has been given, and how much it has sent

client == <<c_conn, c_idle, c_pc, c_batch, c_s_index, c_i_start, c_max_timeout,
            c_since>>
server == <<s_conn, s_idle, s_pc, s_batch, s_s_index, s_i_start, s_max_timeout,
            s_since>>
vars == <<client, server, link, browser, host>>

Unkey == [b \in Byte |-> CHOOSE a \in Byte : Key[a] = b]
Seal(bytes) == [i \in DOMAIN bytes |-> Key[bytes[i]]]
Sealed(q) == [q EXCEPT !.bytes = Seal(q.bytes)]

\* What the browser is to be given for request q.
AnswerTo(q) == (IF q.connect THEN Established ELSE <<>>) \o Reply

C == INSTANCE ClientLoopProofs WITH
    conn <- c_conn, idle <- c_idle, pc <- c_pc, batch <- c_batch,
    s_index <- c_s_index, i_start <- c_i_start,
    max_timeout <- c_max_timeout, since <- c_since,
    Xlate <- [x \in {"cli", "svr"} |-> IF x = "cli" THEN Key ELSE Unkey],
    Reply <- [q \in Requests |-> Seal(AnswerTo(q))], MaxSession <- 1, WalkShare <- 2,
    Alive <- 1, Period <- 1, Fast <- 0, Elapsed <- {0},
    Faults <- FALSE, Resets <- TRUE

S == INSTANCE ServerLoopProofs WITH
    conn <- s_conn, idle <- s_idle, pc <- s_pc, batch <- s_batch,
    s_index <- s_s_index, i_start <- s_i_start,
    max_timeout <- s_max_timeout, since <- s_since,
    Xlate <- [x \in {"cli", "svr"} |-> IF x = "cli" THEN Unkey ELSE Key],
    Requests <- {Sealed(q) : q \in Requests},
    Reply <- [q \in {Sealed(q) : q \in Requests} |-> Reply],
    MaxSession <- 1, WalkShare <- 2,
    Alive <- 1, Period <- 1, Fast <- 0, Elapsed <- {0},
    Faults <- FALSE, Resets <- TRUE

\* The key is a permutation of the bytes (see SecretKey).  The requests are
\* such that the server gets to the host: the header fits its cache.
ASSUME KeyAssumption ==
    /\ Key \in [Byte -> Byte]
    /\ \A a, b \in Byte : Key[a] = Key[b] => a = b
    /\ \A b \in Byte : \E a \in Byte : Key[a] = b
ASSUME TunnelAssumption ==
    /\ Reply \in Seq(Byte) /\ Established \in Seq(Byte) \ {<<>>}
    /\ Requests # {} /\ Requests \subseteq C!RequestType
    /\ \A q \in Requests :
         /\ q.parses /\ q.host
         /\ q.end \in 1 .. HeadMax /\ q.end <= Len(q.bytes)
    /\ HeadMax \in Nat \ {0} /\ ReadMax \in Nat \ {0} /\ SndBuf \in Nat \ {0}

Cli == C!Cli
Svr == C!Svr
near == c_conn[0]       \* the client's session
far == s_conn[0]        \* the server's session

\* The ends of the link.
Upper == near.sock[Svr]
Lower == far.sock[Cli]

\* up and down: bytes that write() has taken and the other program's kernel
\* has not got.  An end that is closed has sent a FIN behind them or, if it
\* was closed with bytes unread, a reset.
End == {"open", "fin", "reset", "gone"}
LinkType ==
    [st : {"none", "backlog", "up"}, up : Seq(Byte), down : Seq(Byte),
     top : End, bottom : End]

BrowserType ==
    [st : {"away", "open", "closed"}, req : Requests,
     sent : Nat, got : Seq(Byte)]
HostType == [sent : Nat, got : Seq(Byte), closed : BOOLEAN]

Init ==
    /\ C!Init /\ S!Init
    /\ link = [st |-> "none", up |-> <<>>, down |-> <<>>, top |-> "open",
               bottom |-> "open"]
    /\ browser \in [st : {"away"}, req : Requests, sent : {0}, got : {<<>>}]
    /\ host = [sent |-> 0, got |-> <<>>, closed |-> FALSE]

-----------------------------------------------------------------------------
(* The programs.                                                            *)

\* What the client writes to side x while it handles e; the same of the server.
ClientWrites(x, e) == IF e.tag = x THEN C!WrittenBy(near, e) ELSE <<>>
ServerWrites(x, e) == IF e.tag = x THEN S!WrittenBy(far, e) ELSE <<>>

\* One end of the link after a step in which its socket k became l.  close()
\* with bytes unread resets the connection.
EndAfter(end, k, l) ==
    IF k.st = "none" \/ l.st # "none" THEN end
    ELSE IF k.rx = <<>> THEN "fin" ELSE "reset"

\* A turn of a loop that is about no connection.
ClientIdles ==
    /\ C!AgentNoSession(0) \/ C!EpollWait \/ C!TimeoutStep
    /\ UNCHANGED <<server, link, browser, host>>

ClientAccepts ==
    /\ browser.st = "away"
    /\ C!AgentAccepts(0, C!InitSession(browser.req), TRUE)
    /\ browser' = [browser EXCEPT !.st = "open"]
    /\ UNCHANGED <<server, link, host>>

ClientHandles(e) ==
    /\ C!SkipEvent(e) \/ C!HandleSvrEvent(e) \/ C!HandleCliEvent(e)
    /\ browser' = [browser EXCEPT !.got = @ \o ClientWrites(Cli, e)]
    /\ link' = [link EXCEPT
         !.st = IF @ = "none" /\ Upper'.st = "est" THEN "backlog" ELSE @,
         !.up = @ \o ClientWrites(Svr, e),
         !.top = EndAfter(@, Upper, Upper')]
    /\ UNCHANGED <<server, host>>

ClientStep ==
    ClientIdles \/ ClientAccepts \/ \E e \in c_batch : ClientHandles(e)

\* epoll_wait reports a connection that waits to be accepted.
ServerIdles ==
    /\ \/ link.st # "backlog" /\ S!AgentNoSession(0)
       \/ S!EpollWait
       \/ S!TimeoutStep
    /\ UNCHANGED <<client, link, browser, host>>

ServerAccepts ==
    /\ link.st = "backlog"
    /\ S!AgentAccepts(0, S!InitServerSession(Sealed(browser.req)), TRUE)
    /\ link' = [link EXCEPT !.st = "up"]
    /\ UNCHANGED <<client, browser, host>>

ServerHandles(e) ==
    /\ S!SkipEvent(e) \/ S!HandleSvrEvent(e) \/ S!HandleCliEvent(e)
    /\ host' = [host EXCEPT !.got = @ \o ServerWrites(Svr, e)]
    /\ link' = [link EXCEPT !.down = @ \o ServerWrites(Cli, e),
                            !.bottom = EndAfter(@, Lower, Lower')]
    /\ UNCHANGED <<client, browser>>

ServerStep ==
    ServerIdles \/ ServerAccepts \/ \E e \in s_batch : ServerHandles(e)

-----------------------------------------------------------------------------
(* The link.                                                                *)

\* The other variables of the two programs.
OthersStay ==
    UNCHANGED <<c_idle, c_pc, c_batch, c_s_index, c_i_start, c_max_timeout,
                c_since, s_idle, s_pc, s_batch, s_s_index, s_i_start,
                s_max_timeout, s_since, browser, host>>

Connected ==
    /\ C!HandshakeDone(0, Svr)
    /\ link' = [link EXCEPT !.st = "backlog"]
    /\ UNCHANGED <<server, browser, host>>

\* The sockets k (of the sender) and l (of the receiver) when a byte arrives.
\* A socket that is closed answers with a reset.
SenderAfter(k, l) ==
    IF k.st = "none" THEN k
    ELSE IF l.st = "none" THEN [k EXCEPT !.rst = TRUE]
    ELSE [k EXCEPT !.room = @ + 1]
ReceiverAfter(l, byte) ==
    IF l.st = "none" \/ l.rst THEN l
    ELSE [l EXCEPT !.rx = Append(@, byte), !.sent = @ + 1]

UpArrives ==
    /\ link.st = "up" /\ link.up # <<>>
    /\ link' = [link EXCEPT !.up = Tail(@)]
    /\ c_conn' = [c_conn EXCEPT ![0].sock[Svr] = SenderAfter(Upper, Lower)]
    /\ s_conn' = [s_conn EXCEPT ![0].sock[Cli] = ReceiverAfter(Lower, Head(link.up))]
    /\ OthersStay

DownArrives ==
    /\ link.st = "up" /\ link.down # <<>>
    /\ link' = [link EXCEPT !.down = Tail(@)]
    /\ c_conn' = [c_conn EXCEPT ![0].sock[Svr] = ReceiverAfter(Upper, Head(link.down))]
    /\ s_conn' = [s_conn EXCEPT ![0].sock[Cli] = SenderAfter(Lower, Upper)]
    /\ OthersStay

\* A FIN arrives behind the bytes, a reset destroys what is still under way.
Ended(l, end) ==
    IF l.st = "none" \/ l.rst THEN l
    ELSE IF end = "fin" THEN [l EXCEPT !.fin = TRUE] ELSE [l EXCEPT !.rst = TRUE]

UpEnds ==
    /\ link.st = "up"
    /\ link.top = "reset" \/ (link.top = "fin" /\ link.up = <<>>)
    /\ link' = [link EXCEPT !.up = <<>>, !.top = "gone"]
    /\ s_conn' = [s_conn EXCEPT ![0].sock[Cli] = Ended(Lower, link.top)]
    /\ OthersStay /\ UNCHANGED c_conn

DownEnds ==
    /\ link.st = "up"
    /\ link.bottom = "reset" \/ (link.bottom = "fin" /\ link.down = <<>>)
    /\ link' = [link EXCEPT !.down = <<>>, !.bottom = "gone"]
    /\ c_conn' = [c_conn EXCEPT ![0].sock[Svr] = Ended(Upper, link.bottom)]
    /\ OthersStay /\ UNCHANGED s_conn

-----------------------------------------------------------------------------
(* The browser and the host.                                                *)

req == browser.req

\* What the browser asks the host, and what it is to be given.
Asked == IF req.connect THEN SubSeq(req.bytes, req.end + 1, Len(req.bytes))
         ELSE req.bytes
Answer == AnswerTo(req)

\* All that was written has been received.
Read(k) == k.room = SndBuf

\* After CONNECT the browser waits for the answer.
BrowserSends ==
    /\ browser.st = "open"
    /\ req.connect /\ browser.sent = req.end =>
         browser.got = Established /\ Read(near.sock[Cli])
    /\ C!PeerSends(0, Cli)
    /\ browser' = [browser EXCEPT !.sent = @ + 1]
    /\ UNCHANGED <<server, link, host>>

BrowserReads ==
    /\ browser.st = "open"
    /\ C!PeerReceives(0, Cli)
    /\ UNCHANGED <<server, link, browser, host>>

BrowserCloses ==
    /\ browser.st = "open"
    /\ C!PeerShutsDown(0, Cli)
    /\ browser' = [browser EXCEPT !.st = "closed"]
    /\ UNCHANGED <<server, link, host>>

\* What is written to a browser that has closed is answered with a reset.
BrowserResets ==
    /\ browser.st = "closed" /\ ~Read(near.sock[Cli])
    /\ C!PeerResets(0, Cli)
    /\ UNCHANGED <<server, link, browser, host>>

HostConnects ==
    /\ S!HandshakeDone(0, Svr)
    /\ UNCHANGED <<client, link, browser, host>>

HostReads ==
    /\ S!PeerReceives(0, Svr)
    /\ UNCHANGED <<client, link, browser, host>>

\* The host answers when it has the whole request.
HostSends ==
    /\ host.got = Asked /\ Read(far.sock[Svr])
    /\ S!PeerSends(0, Svr)
    /\ host' = [host EXCEPT !.sent = @ + 1]
    /\ UNCHANGED <<client, link, browser>>

HostCloses ==
    /\ host.sent = Len(Reply) /\ ~host.closed
    /\ S!PeerShutsDown(0, Svr)
    /\ host' = [host EXCEPT !.closed = TRUE]
    /\ UNCHANGED <<client, link, browser>>

-----------------------------------------------------------------------------
Link == Connected \/ UpArrives \/ DownArrives \/ UpEnds \/ DownEnds
Browser == BrowserSends \/ BrowserReads \/ BrowserCloses \/ BrowserResets
Host == HostConnects \/ HostReads \/ HostSends \/ HostCloses

Next == ClientStep \/ ServerStep \/ Link \/ Browser \/ Host

Spec == Init /\ [][Next]_vars

\* The loops run on: each turn gets from one of its waits to the next, and one
\* event of the batch after the other is taken out of it.
ClientRuns ==
    /\ WF_c_pc(c_pc = "agent" /\ c_pc' = "wait")
    /\ WF_c_pc(c_pc = "wait" /\ c_pc' \in {"dispatch", "timeout"})
    /\ WF_c_batch(\E e \in c_batch : c_batch' = c_batch \ {e})
    /\ WF_c_pc(c_pc = "timeout" /\ c_pc' = "agent")
ServerRuns ==
    /\ WF_s_pc(s_pc = "agent" /\ s_pc' = "wait")
    /\ WF_s_pc(s_pc = "wait" /\ s_pc' \in {"dispatch", "timeout"})
    /\ WF_s_batch(\E e \in s_batch : s_batch' = s_batch \ {e})
    /\ WF_s_pc(s_pc = "timeout" /\ s_pc' = "agent")

\* The kernel delivers, handshakes end, and browser and host read what they
\* are given.  Neither has to send or to close.
LinkDelivers ==
    /\ WF_vars(Connected)
    /\ WF_vars(UpArrives) /\ WF_vars(DownArrives)
    /\ WF_vars(UpEnds) /\ WF_vars(DownEnds)
EndsRead == WF_vars(BrowserReads) /\ WF_vars(HostConnects) /\ WF_vars(HostReads)

FairSpec == Spec /\ ClientRuns /\ ServerRuns /\ LinkDelivers /\ EndsRead

-----------------------------------------------------------------------------
(* Properties.                                                              *)

\* Enciphered by one program and deciphered by the other, cut into pieces
\* anywhere and parsed on the way, what arrives at either end is always the
\* beginning of what the other end has sent, in the clear, with the answer to
\* CONNECT in front; and a byte is never there before it was sent.
EndToEnd ==
    /\ StartOf(host.got,
         SubSeq(Asked, 1, browser.sent - (Len(req.bytes) - Len(Asked))))
    /\ StartOf(browser.got, Answer)
    /\ Len(browser.got) <= Len(Answer) - Len(Reply) + host.sent

\* What each program does to the other is what a peer may do: with the other
\* program, the link and the ends around it, each still behaves as its own
\* module says, so that what holds of it there holds here.  The server gets
\* from its client nothing but the sealed request, the client from its server
\* nothing but the sealed answer to the request in hand.
EachAsAlone == C!Spec /\ S!Spec

\* A request that the browser has sent arrives, even if the browser closes
\* right after it: each program then flushes what it holds, before it closes.
\* An answer arrives as long as nobody closes.
EverythingArrives ==
    /\ browser.sent = Len(req.bytes) ~> host.got = Asked
    /\ host.sent = Len(Reply) ~>
         browser.got = Answer \/ browser.st = "closed" \/ host.closed

\* When the browser has closed, the sessions of both programs end, though the
\* server learns of it only from the client.  (Not when the host has closed:
\* see ServerGoneFreed.)
GoneTogether ==
    browser.st = "closed" ~> (~near.flag /\ ~far.flag) \/ host.closed
=============================================================================
