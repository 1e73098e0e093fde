----------------------------- MODULE ServerLoop -----------------------------
(***************************************************************************)
(* LDProxy_server: what handle_connections_event does with one event.      *)
(* Bytes from LDProxy_client are deciphered and cached until the request   *)
(* header is complete; only then is the connection to the host it names    *)
(* built.  CONNECT is answered with "200 Connection Established", any      *)
(* other request is passed on as cached.  Then bytes go both ways.         *)
(***************************************************************************)
EXTENDS EventLoop

CONSTANTS
    HeadMax,        \* LD_BUFFER_SIZE_8k, the size of req_head_cache
    Established     \* the bytes of the reply to CONNECT

HeadOK == HeadMax \in Nat \ {0} /\ Established \in Seq(Byte)
ASSUME HeadAssumption == HeadOK

-----------------------------------------------------------------------------
(* The server's copies of what Session and EventLoop define.  The text is   *)
(* the client's with the cipher calls exchanged (Xlate) and with a session  *)
(* that also owns the parsed header h.                                      *)

InitServerSession(q) == [InitSession(q) EXCEPT !.h = TRUE]
ServerSessionErr(c) == OnSessionErr(c)
ServerDataRelay(c, x, events, mem) == OnDataRelay(c, x, events, mem)
ServerFinish(r, x) == Finish(r, x)

-----------------------------------------------------------------------------
(* The request header.                                                      *)

\* strstr(req_head_cache, "\r\n\r\n"); it needs at least the 4 bytes that the
\* code asks for first.
HeaderComplete(c) == c.req.end # 0 /\ c.req.end <= Len(c.head)

\* Slips of on_parse_header: a full cache is not an error; the verdict of
\* h3_request_header_parse is ignored.
OnParseHeaderUnbounded(c, events) ==
    LET k == c.sock[Cli]
        len == Len(k.rx)
        space == HeadMax - Len(c.head)
        n == IF len <= space THEN len ELSE space
        cached == [c EXCEPT
            !.head = @ \o Translate(Cli, SubSeq(k.rx, 1, n)),
            !.taken[Cli] = @ + n,
            !.sock[Cli].rx = SubSeq(k.rx, n + 1, len)]
    IN  IF EPOLLIN \in events /\ n > 0
        THEN Return(IF HeaderComplete(cached) THEN 0 ELSE -2, cached)
        ELSE Return(-2, c)

\* One read() into what is left of the cache.  0: header complete and parsed,
\* -1: error (the caller calls on_session_err, perhaps for a second time),
\* -2: go on.
OnParseHeader(c, events) ==
    LET k == c.sock[Cli]
        len == Len(k.rx)
        space == HeadMax - Len(c.head)
        n == IF len <= space THEN len ELSE space
        cached == [c EXCEPT
            !.head = @ \o Translate(Cli, SubSeq(k.rx, 1, n)),
            !.taken[Cli] = @ + n,
            !.sock[Cli].rx = SubSeq(k.rx, n + 1, len)]
    IN  CASE EPOLLIN \notin events -> Return(-2, c)
          [] EPOLLIN \in events /\ n > 0 ->
               IF HeaderComplete(cached)
               THEN Return(IF c.req.parses THEN 0 ELSE -1, cached)
               ELSE Return(IF Len(cached.head) = HeadMax THEN -1 ELSE -2, cached)
          [] EPOLLIN \in events /\ n = 0 /\ len = 0 /\ k.rst ->
               Return(-1, ServerSessionErr(c))
          [] EPOLLIN \in events /\ n = 0 /\ ~(len = 0 /\ k.rst)
             /\ (space = 0 \/ k.fin) ->                     \* read() returns 0
               Return(-2, [c EXCEPT !.status[Cli] = "CLOSE"])
          [] OTHER -> Return(-2, c)                         \* EAGAIN

\* Slip: the cache is deciphered again (the call is there, commented out).
OnProcessHeaderDecodesAgain(c, mem) ==
    IF ~mem THEN Return(-1, ServerSessionErr(c))
    ELSE IF c.req.connect
         THEN Return(0, [c EXCEPT !.data[Svr] = @ \o Translate(Svr, Established)])
         ELSE Return(0, [c EXCEPT !.data[Cli] = @ \o Translate(Cli, c.head)])

\* Queue the answer to CONNECT for the browser, or the cache for the host.
OnProcessHeader(c, mem) ==
    IF ~mem THEN Return(-1, ServerSessionErr(c))
    ELSE IF c.req.connect
         THEN Return(0, [c EXCEPT !.data[Svr] = @ \o Translate(Svr, Established)])
         ELSE Return(0, [c EXCEPT !.data[Cli] = @ \o c.head])

-----------------------------------------------------------------------------
(* The branch for the client's tag: the states follow one another within    *)
(* one event.                                                               *)

ParseHead(c, events) ==
    LET p == OnParseHeader(c, events)
    IN  CASE p.ret = 0 -> Return(0, [p.slot EXCEPT !.status[Cli] = "PROCESS_HEAD"])
          [] p.ret = -1 -> Return(-1, ServerSessionErr(p.slot))
          [] OTHER -> Return(0, p.slot)

ProcessHead(c, mem) ==
    LET p == OnProcessHeader(c, mem)
    IN  IF p.ret = 0 THEN Return(0, [p.slot EXCEPT !.status[Cli] = "BUILD_SVR"])
        ELSE Return(-1, ServerSessionErr(p.slot))

\* How it may end here: also with fcntl() or setsockopt() failing, with no memory
\* for domain or for domain and strport, or with a name that gethostbyname()
\* does not know.  (Without memory for strport alone the default port is used.)
HostOutcomes ==
    BuildOutcomes \cup
        (IF Faults THEN {"nosetup", "nodomain", "nostrings", "noname"} ELSE {})

\* The strings made of the Host field of request q; without a port, domain is
\* the first of them under another name.
HostStrings(q, outcome) ==
    CASE ~q.host \/ outcome \in {"nosocket", "nosetup"} -> {}
      [] q.host /\ outcome \notin {"nosocket", "nosetup"} /\ ~q.port -> {"domain"}
      [] OTHER -> HostString \ (CASE outcome = "nodomain" -> {"domain"}
                                  [] outcome = "nostrings" -> {"domain", "strport"}
                                  [] OTHER -> {})

\* Slip of the next: domain is not freed once it is resolved.
FreedPortOnly(strings, outcome) ==
    IF "domain" \in strings THEN {"strport"} ELSE {}

\* Those it frees.  Nobody frees temp, nor domain when it is not resolved.
Freed(strings, outcome) ==
    IF "domain" \notin strings THEN {}
    ELSE {"strport"} \cup (IF outcome = "noname" THEN {} ELSE {"domain"})

\* Once there is a socket, every failure closes it and ends the session.
BuildHost(c, outcome) ==
    LET made == HostStrings(c.req, outcome)
    IN  BuildSvr([c EXCEPT !.strings = made \ Freed(made, outcome)],
                 IF \/ outcome = "nosocket"
                    \/ c.req.host /\ outcome \in {"done", "inprogress"}
                 THEN outcome
                 ELSE "error")

\* Run a stage if the session has got to it and no stage before it failed.
Stage(r, status, Then(_)) ==
    IF r.ret = 0 /\ r.slot.status[Cli] = status THEN Then(r.slot) ELSE r

CliEvent(c, events, outcome, headmem, mem) ==
    LET a == [c EXCEPT !.event_fd = Cli,
                       !.status[Cli] = IF @ = "INIT" THEN "PARSE_HEAD" ELSE @]
        parse(s) == ParseHead(s, Effective(events))
        process(s) == ProcessHead(s, headmem)
        build(s) == BuildHost(s, outcome)
        relay(s) == ServerDataRelay(s, Cli, Effective(events), mem)
        parsed == Stage(Return(0, a), "PARSE_HEAD", parse)
        processed == Stage(parsed, "PROCESS_HEAD", process)
        built == Stage(processed, "BUILD_SVR", build)
    IN  ServerFinish(Stage(built, "DATA_RELAY", relay), Cli)

HandleCliEvent(e) ==
    /\ pc = "dispatch" /\ e \in batch
    /\ conn[e.slot].flag /\ e.tag = Cli
    /\ \E headmem, mem \in MallocOutcomes, outcome \in HostOutcomes :
         HandleEvent(e, CliEvent(conn[e.slot], e.events, outcome, headmem, mem))

Dispatch ==
    \E e \in batch : SkipEvent(e) \/ HandleSvrEvent(e) \/ HandleCliEvent(e)

\* handle_req_form_cli with a session to be had.
Accept ==
    \E d \in Elapsed, q \in Requests, registered \in BOOLEAN :
        AgentAccepts(d, InitServerSession(q), registered)

HandleAgentEvent == AgentStep \/ Accept
HandleConnectionsEvent == EpollWait \/ WaitInterrupted \/ Dispatch
HandleSessionTimeout == TimeoutStep

Next ==
    \/ HandleAgentEvent
    \/ HandleConnectionsEvent
    \/ HandleSessionTimeout
    \/ PeerStep

Spec == Init /\ [][Next]_vars

-----------------------------------------------------------------------------
(* Properties.                                                              *)

\* The header has been processed: what is read from now on is relayed.
HeaderDone(c) == c.flag /\ c.status[Cli] \notin {"INIT", "PARSE_HEAD"}

\* What the bytes read from the client are to be for the host: for CONNECT all
\* but those cached with the header, else all of them, deciphered.
MeantForHost(c) ==
    IF ~HeaderDone(c) THEN <<>>
    ELSE LET first == IF c.req.connect THEN Len(c.head) + 1 ELSE 1
         IN  Translate(Cli, SubSeq(PeerBytes(c, Cli), first, c.taken[Cli]))

\* What the client is to get: the answer to CONNECT, then what the host sends,
\* all of it enciphered.
MeantForClient(c) ==
    Translate(Svr,
        (IF HeaderDone(c) /\ c.req.connect THEN Established ELSE <<>>)
            \o Taken(c, Svr))

Meant(c, x) == IF x = Cli THEN MeantForHost(c) ELSE MeantForClient(c)

\* However the request is cut into pieces by the network and by the size of
\* the cache, host and client are given, without loss, doubling or reordering,
\* exactly what is meant for them, the answer to CONNECT first; and until the
\* header is complete the cache holds exactly the deciphered bytes read.
StreamIntegrity ==
    \A s \in Slot : conn[s].flag =>
        /\ \A x \in Side : conn[s].fd[Other(x)] =>
             conn[s].sock[Other(x)].out \o conn[s].data[x] = Meant(conn[s], x)
        /\ ~HeaderDone(conn[s]) =>
             conn[s].head = Translate(Cli, Taken(conn[s], Cli))

\* A session that is still collecting its header has room in the cache.  If it
\* had none, read() would be called for 0 bytes and its result 0 be taken for
\* the end of the client's stream.
HeadCacheHasRoom ==
    \A s \in Slot :
        conn[s].flag /\ ~HeaderDone(conn[s]) => Len(conn[s].head) < HeadMax

\* The host is contacted for a complete, well-formed request only.
HostOnlyAfterHeader ==
    \A s \in Slot :
        conn[s].fd[Svr] =>
            /\ conn[s].req.parses /\ conn[s].req.host
            /\ HeaderComplete(conn[s])

\* What a session may leave behind when it ends at any stage, by any failing
\* call: no descriptor, no registration, no packet, no header, and of the
\* strings made of its Host field never both parts of a name with a port.  While
\* it lives it has lost nothing but the whole field's text, and that when
\* there is a port; every connection to a host with a port costs that string.
OnlyHostStringsLeak ==
    \A s \in Slot :
        LET c == conn[s] IN
        /\ SlotHoldsWhatItOwns(c)
        /\ ~({"domain", "strport"} \subseteq c.strings)
        /\ c.strings # {} => c.req.host /\ (c.req.port \/ ~c.flag)
        /\ c.flag => c.strings \subseteq {"temp"}
        /\ c.fd[Svr] => c.strings = IF c.req.port THEN {"temp"} ELSE {}

Promise == INSTANCE ProxySession WITH
    phase <- [s \in Slot |-> Phase(conn[s])],
    from <- [s \in Slot |-> ClosedSide(conn[s])],
    meant <- [s \in Slot |-> [x \in Side |-> Meant(conn[s], x)]],
    delivered <- [s \in Slot |->
                    [x \in Side |-> conn[s].sock[Other(x)].out]]

\* Every slot of the server behaves as a ProxySession, one session after the
\* other.
KeepsPromise == Promise!Spec
=============================================================================
