---------------------------- MODULE MCServerLoop ----------------------------
(***************************************************************************)
(* Instances of ServerLoop for TLC.                                        *)
(***************************************************************************)
EXTENDS ServerLoop

MCByte == 0 .. 2

\* The server deciphers what the client sends and enciphers what it gets.
MCXlate ==
    [x \in Side |-> [b \in MCByte |->
        IF x = Cli THEN (b + 2) % 3 ELSE (b + 1) % 3]]

\* A plain request with one byte after its header, and a CONNECT to a host with
\* a port, with one byte sent before the answer.
Get == [bytes |-> <<1, 2, 0>>, end |-> 2, parses |-> TRUE, connect |-> FALSE,
        host |-> TRUE, port |-> FALSE]
Connect == [Get EXCEPT !.connect = TRUE, !.port = TRUE]
NoHost == [Get EXCEPT !.host = FALSE]
Malformed == [Get EXCEPT !.parses = FALSE]
Endless == [Get EXCEPT !.end = 0]

MCRequests == {Get, Connect, NoHost, Malformed, Endless}
MCEstablished == <<2>>
MCReply2 == [q \in Requests |-> <<1, 2>>]
MCNoTime == {0}
=============================================================================
