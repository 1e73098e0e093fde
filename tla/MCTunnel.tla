------------------------------ MODULE MCTunnel ------------------------------
(***************************************************************************)
(* An instance of Tunnel for TLC.                                          *)
(***************************************************************************)
EXTENDS Tunnel

MCByte == 0 .. 2

\* A key without fixed points.
MCKey == [b \in MCByte |-> (b + 1) % 3]

\* One byte of header and one behind it.
Get == [bytes |-> <<1, 0, 2>>, end |-> 1, parses |-> TRUE, connect |-> FALSE,
        host |-> TRUE, port |-> FALSE]
MCRequests == {Get, [Get EXCEPT !.connect = TRUE]}
MCReply == <<2, 0>>
MCEstablished == <<1>>


=============================================================================
