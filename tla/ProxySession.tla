---------------------------- MODULE ProxySession ----------------------------
(***************************************************************************)
(* What the sessions of either program promise.  A slot's session waits    *)
(* until the connection to the far side is built, relays both ways, and    *)
(* when one side has closed only hands the other side what is still meant  *)
(* for it; then the slot is free for the next one.  meant[s][x] is what    *)
(* the bytes read from side x make up for the other side, delivered[s][x]  *)
(* how much of it has been handed over.                                    *)
(***************************************************************************)
EXTENDS Prefix

CONSTANTS Slot, Side, Byte

VARIABLES
    phase,      \* [Slot -> {"free", "waiting", "relaying", "flushing"}]
    from,       \* while flushing: the side that has closed
    meant,      \* [Slot -> [Side -> Seq(Byte)]]
    delivered   \* [Slot -> [Side -> Seq(Byte)]]

sessions == <<phase, from, meant, delivered>>

Nothing == [x \in Side |-> <<>>]

Init ==
    \A s \in Slot :
        /\ phase[s] = "free"
        /\ from[s] = "nobody"
        /\ meant[s] = Nothing
        /\ delivered[s] = Nothing

Same(s) ==
    /\ phase'[s] = phase[s]
    /\ from'[s] = from[s]
    /\ meant'[s] = meant[s]
    /\ delivered'[s] = delivered[s]

\* A browser connects.
Open(s) ==
    /\ phase[s] = "free" /\ phase'[s] = "waiting"
    /\ from'[s] = from[s]
    /\ meant'[s] = meant[s] /\ delivered'[s] = delivered[s]

\* Bytes only ever join at the end, and are handed over in order.
Extends(old, new, sides) == \A x \in sides : StartOf(old[x], new[x])

InOrder(s) == \A x \in Side : StartOf(delivered'[s][x], meant'[s][x])

\* The connection to the far side is built (from "waiting") or is up.
Relay(s) ==
    /\ phase[s] \in {"waiting", "relaying"} /\ phase'[s] = "relaying"
    /\ from'[s] = from[s]
    /\ Extends(meant[s], meant'[s], Side)
    /\ Extends(delivered[s], delivered'[s], Side)
    /\ InOrder(s)

\* Side x is closed while bytes read from it are still to be handed over.
HalfClose(s, x) ==
    /\ phase[s] \in {"waiting", "relaying"} /\ phase'[s] = "flushing"
    /\ from'[s] = x
    /\ Extends(meant[s], meant'[s], Side)
    /\ Extends(delivered[s], delivered'[s], {x})
    /\ \A y \in Side \ {x} : delivered'[s][y] = <<>>
    /\ InOrder(s)
    /\ delivered'[s][x] # meant'[s][x]

\* They are handed over; what the other side still sends goes nowhere.
Flush(s) ==
    /\ phase[s] = "flushing" /\ phase'[s] = "flushing"
    /\ from'[s] = from[s]
    /\ meant'[s][from[s]] = meant[s][from[s]]
    /\ Extends(meant[s], meant'[s], Side)
    /\ Extends(delivered[s], delivered'[s], {from[s]})
    /\ \A y \in Side \ {from[s]} : delivered'[s][y] = <<>>
    /\ InOrder(s)
    /\ delivered'[s][from[s]] # meant'[s][from[s]]

Close(s) ==
    /\ phase[s] # "free" /\ phase'[s] = "free"
    /\ from'[s] = "nobody"
    /\ meant'[s] = Nothing
    /\ delivered'[s] = Nothing

Step(s) ==
    \/ Open(s)
    \/ Relay(s)
    \/ \E x \in Side : HalfClose(s, x)
    \/ Flush(s)
    \/ Close(s)

\* Timeouts end several sessions at once.
Next == \A s \in Slot : Same(s) \/ Step(s)

Spec == Init /\ [][Next]_sessions
=============================================================================
