---------------------------- MODULE MCClientLoop ----------------------------
(***************************************************************************)
(* Instances of ClientLoop for TLC.                                        *)
(***************************************************************************)
EXTENDS ClientLoop

MCByte == 0 .. 2

\* A key without fixed points on three values: encode adds 1, decode undoes it.
MCXlate ==
    [x \in Side |-> [b \in MCByte |->
        IF x = Cli THEN (b + 1) % 3 ELSE (b + 2) % 3]]

Request(bytes) ==
    [bytes |-> bytes, end |-> 0, parses |-> TRUE, connect |-> FALSE,
     host |-> TRUE, port |-> FALSE]

MCRequests1 == {Request(<<0>>)}
MCRequests3 == {Request(<<0, 1, 2>>)}
MCNoReply == [q \in MCRequests1 |-> <<>>]
MCReply2 == [q \in Requests |-> <<1, 2>>]
MCNoTime == {0}
MCTime == {0, 1}
=============================================================================
