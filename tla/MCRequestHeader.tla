--------------------------- MODULE MCRequestHeader ---------------------------
(***************************************************************************)
(* Requests for RequestHeader: put together from good and bad lines, or    *)
(* with any six characters behind a good line.                             *)
(***************************************************************************)
EXTENDS RequestHeader

EOL == <<CR, LF>>
Word == <<WORD>>
Blank == <<SP>>

RequestLines ==
    {Word \o Blank \o <<COLON>> \o Blank \o Word \o EOL,
     Word \o Blank \o Blank \o Word \o EOL,
     Word \o Blank \o Word \o Blank \o Word \o Blank \o EOL,
     Word \o EOL,
     Word \o Blank \o Word \o <<LF>>}

FieldLines ==
    {Word \o <<COLON>> \o Word \o EOL,
     Word \o <<COLON, SP>> \o Word \o <<COLON, SP>> \o EOL,
     Word \o <<COLON>> \o EOL,
     Word \o <<COLON, SP>> \o EOL,
     Word \o EOL,
     Word \o <<COLON>> \o Word \o Word \o <<LF>>}

\* What may have been read together with the header.
Rests == {<<>>, Word \o <<COLON>> \o Word}

Strings(S, n) == UNION {[1 .. k -> S] : k \in 0 .. n}

MCRequests ==
    {r \o FlattenSeq(f) \o EOL \o rest :
        r \in RequestLines, f \in Strings(FieldLines, 3), rest \in Rests}
    \cup {Word \o Blank \o Word \o EOL \o any \o EmptyLine :
            any \in Strings(Char, 6)}

\* Only with CR LF CR LF is a request parsed at all.
MCComplete ==
    {b \in MCRequests :
        \E i \in 1 .. Len(b) - 3 : SubSeq(b, i, i + 3) = EmptyLine}
=============================================================================
