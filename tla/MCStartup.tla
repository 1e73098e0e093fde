------------------------------ MODULE MCStartup ------------------------------
(***************************************************************************)
(* An instance of Startup for TLC: keys of up to five bytes where there is *)
(* room for four (as with 256, the last group then holds one byte).        *)
(***************************************************************************)
EXTENDS Startup

Keys == UNION {[1 .. n -> {0, 170, 255}] : n \in 1 .. 4} \cup {<<1, 2, 3, 4, 5>>}

\* Noise after the first n characters.
Smudged(s, n) == SubSeq(s, 1, n) \o <<Noise>> \o SubSeq(s, n + 1, Len(s))

FromKey(k, s) == [text |-> s, key |-> k]
FromNoKey(s) == [text |-> s, key |-> <<>>]

Clean == {FromKey(k, Encode(k)) : k \in Keys}
Smudges ==
    UNION {{FromKey(k, Smudged(Encode(k), n)) : n \in 0 .. EncodedLen(Len(k))} :
             k \in {<<255, 0>>, <<170, 85, 0, 255>>}}

\* A whole text, and more padding than there can be.
Overpadded ==
    {FromNoKey(Encode(k) \o [j \in 1 .. n |-> Pad]) :
        k \in {<<255>>, <<1, 2, 3>>, <<1, 2, 3, 4>>}, n \in 1 .. 4}
    \cup {FromNoKey(Encode(<<1, 2, 3>>) \o <<0, Pad, Pad, Pad, 0, 0, 0, 0>>)}
Arbitrary == {FromNoKey(s) : s \in UNION {[1 .. n -> {0, 63, Pad, Noise}] : n \in 0 .. 4}}

MCTexts == Clean \cup Smudges \cup Overpadded \cup Arbitrary

\* Three ticks to the millisecond, two milliseconds of sleep.
MCSamples == {4, 6, 7, 9}
=============================================================================
