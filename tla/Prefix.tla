------------------------------- MODULE Prefix -------------------------------
(***************************************************************************)
(* The order in which bytes are handed over, the same for one program's    *)
(* session and for both in a row.  It stands alone because Tunnel has two  *)
(* instances of nearly every module: whatever is extended here is in the   *)
(* context of its proofs twice more.                                       *)
(***************************************************************************)
EXTENDS Integers, Sequences

\* s is what t begins with: its first n bytes, for some n.
StartOf(s, t) == \E n \in 0 .. Len(t) : s = SubSeq(t, 1, n)
=============================================================================
