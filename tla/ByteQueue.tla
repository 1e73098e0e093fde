------------------------------ MODULE ByteQueue ------------------------------
(***************************************************************************)
(* What a flow_t promises: a queue of bytes between read() of one socket   *)
(* and write() of the other.  Session takes this for granted.              *)
(***************************************************************************)
EXTENDS Naturals, Sequences, SequencesExt

VARIABLES
    waiting,    \* the bytes in the queue
    written,    \* (history) the bytes write() has taken since the session began
    phase       \* "closed", "open" or "dropping"

queue == <<waiting, written, phase>>

From(s, n) == SubSeq(s, n, Len(s))

Init == waiting = <<>> /\ written = <<>> /\ phase = "closed"

Begin ==
    /\ phase = "closed" /\ phase' = "open"
    /\ waiting' = <<>> /\ written' = <<>>

Put ==
    /\ phase = "open"
    /\ IsStrictPrefix(waiting, waiting')
    /\ UNCHANGED <<written, phase>>

\* Part of what waits is written, from the front.
Write ==
    /\ phase = "open"
    /\ \E n \in 1 .. Len(waiting) :
         /\ written' = written \o SubSeq(waiting, 1, n)
         /\ waiting' = From(waiting, n + 1)
    /\ UNCHANGED phase

\* From some moment on nothing is written until everything is thrown away.
StartDropping == phase = "open" /\ phase' = "dropping" /\ UNCHANGED <<waiting, written>>
Drop ==
    /\ phase = "dropping"
    /\ \E n \in 1 .. Len(waiting) : waiting' = From(waiting, n + 1)
    /\ UNCHANGED <<written, phase>>
Dropped ==
    /\ phase = "dropping" /\ waiting = <<>>
    /\ phase' \in {"open", "closed"}
    /\ UNCHANGED <<waiting, written>>

Next == Begin \/ Put \/ Write \/ StartDropping \/ Drop \/ Dropped

Spec == Init /\ [][Next]_queue
=============================================================================
