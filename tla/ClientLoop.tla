----------------------------- MODULE ClientLoop -----------------------------
(***************************************************************************)
(* LDProxy_client: what handle_connections_event does with one event.      *)
(* The browser's first event makes the client connect to LDProxy_server;   *)
(* from then on bytes go both ways, enciphered towards the server.         *)
(***************************************************************************)
EXTENDS EventLoop

\* The branch for the browser tag: the first event builds the connection and
\* then relays like the later ones.
CliEvent(c, events, outcome, mem) ==
    LET a == [c EXCEPT !.event_fd = Cli]
        b == IF a.status[Cli] = "INIT"
             THEN BuildSvr([a EXCEPT !.status[Cli] = "BUILD_SVR"], outcome)
             ELSE Return(0, a)
    IN  IF b.ret < 0
        THEN b.slot
        ELSE IF b.slot.status[Cli] = "DATA_RELAY"
             THEN Finish(OnDataRelay(b.slot, Cli, Effective(events), mem), Cli)
             ELSE Finish(b, Cli)

\* Slip: the session's flag is not looked at.
HandleCliEventUnguarded(e) ==
    /\ pc = "dispatch" /\ e \in batch /\ e.tag = Cli
    /\ \E mem \in MallocOutcomes, outcome \in BuildOutcomes :
         HandleEvent(e, CliEvent(conn[e.slot], e.events, outcome, mem))

HandleCliEvent(e) ==
    /\ pc = "dispatch" /\ e \in batch
    /\ conn[e.slot].flag /\ e.tag = Cli
    /\ \E mem \in MallocOutcomes, outcome \in BuildOutcomes :
         HandleEvent(e, CliEvent(conn[e.slot], e.events, outcome, mem))

Dispatch ==
    \E e \in batch : SkipEvent(e) \/ HandleSvrEvent(e) \/ HandleCliEvent(e)

\* handle_req_form_cli with a session to be had.
Accept ==
    \E d \in Elapsed, q \in Requests, registered \in BOOLEAN :
        AgentAccepts(d, InitSession(q), registered)

HandleAgentEvent == AgentStep \/ Accept
HandleConnectionsEvent == EpollWait \/ WaitInterrupted \/ Dispatch
HandleSessionTimeout == TimeoutStep

Next ==
    \/ HandleAgentEvent
    \/ HandleConnectionsEvent
    \/ HandleSessionTimeout
    \/ PeerStep

Spec == Init /\ [][Next]_vars

-----------------------------------------------------------------------------
FairSpec == Spec /\ LoopFairness
CrowdedSpec == FairSpec /\ PeersRead /\ BrowsersKeepComing

-----------------------------------------------------------------------------
(* Properties.                                                              *)

\* What the bytes read from side x are to be for the other side.
Meant(c, x) == Translate(x, Taken(c, x))

\* Nothing is lost, doubled, reordered or left unenciphered between the two
\* sockets, whatever partial writes and full buffers do: what the other side
\* has been given, followed by what is queued for it, is the translation of
\* exactly the bytes read.  Holds for as long as the other side is open, also
\* while the session only lives to flush.
StreamIntegrity ==
    \A s \in Slot, x \in Side :
        conn[s].flag /\ conn[s].fd[Other(x)] =>
            conn[s].sock[Other(x)].out \o conn[s].data[x] = Meant(conn[s], x)

\* A session that ends while events are handled owes nobody anything, however
\* many events its last bytes took: a side of it has closed, and write() has
\* taken for the other side all that was read from it, unless the other side is
\* gone.  Two kinds of end are not meant, as the code drops what is queued there:
\* a side was reset, or a call failed (while the connection to the server was
\* built, or with bytes still unread).
CallFailed(s) ==
    Faults /\ \E e \in batch \ batch' :
        conn[s].status[Cli] = "INIT" \/ conn[s].sock[e.fd].rx # <<>>

HandedOver(s, x) ==
    /\ \/ conn[s].status[x] = "CLOSE"
       \/ conn[s].sock[x].fin /\ conn[s].sock[x].rx = <<>>
    /\ \/ ~conn[s].fd[Other(x)]
       \/ conn'[s].gave[Other(x)] = Meant(conn[s], x)

ClosedSideIsFlushed ==
    [][\A s \in Slot :
         /\ pc = "dispatch" /\ conn[s].flag /\ ~conn'[s].flag
         /\ \A x \in Side : ~conn[s].sock[x].rst
         => CallFailed(s) \/ \E x \in Side : HandedOver(s, x)]_vars

Promise == INSTANCE ProxySession WITH
    phase <- [s \in Slot |-> Phase(conn[s])],
    from <- [s \in Slot |-> ClosedSide(conn[s])],
    meant <- [s \in Slot |-> [x \in Side |-> Meant(conn[s], x)]],
    delivered <- [s \in Slot |->
                    [x \in Side |-> conn[s].sock[Other(x)].out]]

\* Every slot of the client behaves as a ProxySession, one session after the
\* other.
KeepsPromise == Promise!Spec
=============================================================================
