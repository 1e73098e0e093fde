----------------------------- MODULE HttpChunked -----------------------------
(***************************************************************************)
(* http_parse_chunked.h: the incremental parser of the chunked transfer    *)
(* coding.  A caller hands it the body of a response in pieces of any      *)
(* size; the parser keeps `state` and `size` between the calls and says in *)
(* `length` how much it wants to see next time.  One step per turn of the  *)
(* for loop of __http_parse_chunked.                                       *)
(***************************************************************************)
EXTENDS Integers, Sequences, SequencesExt

CONSTANTS
    Radix,          \* 16
    MaxOff,         \* MAX_OFF_T_VALUE
    MaxLen,         \* bound of the model: bytes of a body
    MaxFeed         \* bound of the model: bytes that arrive between two calls

ASSUME NumberAssumption ==
    /\ Radix \in Nat /\ Radix >= 2
    /\ MaxOff \in Nat /\ MaxOff > 5 /\ MaxOff % Radix = Radix - 1

\* The digits in either case, and what else the parser tells apart.
Digit == 0 .. Radix - 1
CR == -1
LF == -2
EXT == -3       \* ';', ' ' and tab
TEXT == -4
Byte == Digit \cup {CR, LF, EXT, TEXT}

VARIABLES
    received,       \* all bytes from b.buf to b.last
    pos,            \* how many of them have been parsed
    state, size,    \* ctx; `state` also stands for the local copy
    length,         \* ctx.length
    pc,             \* "caller" or "loop"
    ret,            \* what http_parse_chunked returned
    need            \* history: pos + length as promised so far, the largest

vars == <<received, pos, state, size, length, pc, ret, need>>

Init ==
    /\ received = <<>> /\ pos = 0
    /\ state = "chunk_start" /\ size = 0 /\ length = 0
    /\ pc = "caller" /\ ret = "AGAIN" /\ need = 0

-----------------------------------------------------------------------------
(* The switch on the state.                                                 *)

LineStates ==
    {"chunk_extension", "after_data", "last_chunk_extension", "trailer",
     "trailer_header"}

\* A line is ended by CR LF or by LF alone.
AlmostDone ==
    [s \in LineStates |->
        CASE s = "chunk_extension" -> "chunk_extension_almost_done"
          [] s = "after_data" -> "after_data_almost_done"
          [] s = "last_chunk_extension" -> "last_chunk_extension_almost_done"
          [] s = "trailer" -> "trailer_almost_done"
          [] s = "trailer_header" -> "trailer_header_almost_done"]

AfterLine ==
    [s \in LineStates |->
        CASE s = "chunk_extension" -> "chunk_data"
          [] s = "after_data" -> "chunk_start"
          [] s = "last_chunk_extension" -> "trailer"
          [] s = "trailer" -> "done"
          [] s = "trailer_header" -> "trailer"]

InLine(s, ch) ==
    CASE ch = CR -> AlmostDone[s]
      [] ch = LF -> AfterLine[s]
      [] ch \notin {CR, LF} /\ s = "trailer" -> "trailer_header"
      [] ch \notin {CR, LF} /\ s = "after_data" -> "invalid"
      [] OTHER -> s

\* The end of the size: the rest of the line is that of an extension.
AfterSize(ch) ==
    LET line == IF size = 0 THEN "last_chunk_extension" ELSE "chunk_extension"
    IN  CASE ch \in {CR, LF} -> InLine(line, ch)
          [] ch = EXT -> line
          [] OTHER -> "invalid"

\* One more digit may be too many.  Slip: the bound of the result is taken.
SizeTooLargeLate == size > MaxOff
SizeTooLarge == size > MaxOff \div Radix

NextState(ch) ==
    CASE state = "chunk_start" -> IF ch \in Digit THEN "chunk_size" ELSE "invalid"
      [] state = "chunk_size" ->
           IF SizeTooLarge THEN "invalid"
           ELSE IF ch \in Digit THEN "chunk_size" ELSE AfterSize(ch)
      [] state \in LineStates -> InLine(state, ch)
      [] OTHER ->                                   \* an ..._almost_done
           IF ch = LF
           THEN AfterLine[CHOOSE s \in LineStates : AlmostDone[s] = state]
           ELSE "invalid"

\* uint64_t arithmetic: MaxOff is 2^63 - 1.
NextSize(ch) ==
    CASE state = "chunk_start" /\ ch \in Digit -> ch
      [] state = "chunk_size" /\ ch \in Digit ->
           (size * Radix + ch) % (2 * (MaxOff + 1))
      [] OTHER -> size

-----------------------------------------------------------------------------
\* Slip: one byte too many after the size.
WantedTooMuch(s, n) ==
    CASE s = "chunk_size" -> IF n > 0 THEN n + 6 ELSE 2
      [] OTHER -> 1

\* ctx->length when the parser leaves in state s with n bytes of data to come.
Wanted(s, n) ==
    CASE s = "chunk_start" -> 3                         \* "0" LF LF
      [] s = "chunk_size" -> IF n > 0 THEN n + 5 ELSE 2
      [] s \in {"chunk_extension", "chunk_extension_almost_done"} -> n + 5
      [] s = "chunk_data" -> n + 4                      \* LF "0" LF LF
      [] s \in {"after_data", "after_data_almost_done"} -> 4
      [] s \in {"trailer", "trailer_almost_done"} -> 1
      [] OTHER -> 2

Returns(result) ==
    /\ ret' = result
    /\ pc' = "caller"

\* State on entry to __http_parse_chunked.
Entered(s, n) == IF s = "chunk_data" /\ n = 0 THEN "after_data" ELSE s

\* More of the body has arrived and http_parse_chunked is called.
Call(bytes) ==
    /\ pc = "caller" /\ ret = "AGAIN"
    /\ Len(received) + Len(bytes) <= MaxLen
    /\ received' = received \o bytes
    /\ state' = Entered(state, size)
    /\ pc' = "loop"
    /\ UNCHANGED <<pos, size, length, ret, need>>

\* One byte outside the data of a chunk.
Turn ==
    /\ pc = "loop" /\ pos < Len(received) /\ state # "chunk_data"
    /\ LET ch == received[pos + 1]
           next == NextState(ch)
       IN  CASE next = "invalid" ->
                  /\ Returns("ERROR")
                  /\ UNCHANGED <<pos, state, size, length>>
             [] next = "done" ->
                  /\ Returns("DONE")
                  /\ state' = "chunk_start"
                  /\ pos' = pos + 1
                  /\ UNCHANGED <<size, length>>
             [] OTHER ->
                  /\ state' = next
                  /\ size' = NextSize(ch)
                  /\ pos' = pos + 1
                  /\ UNCHANGED <<length, pc, ret>>
    /\ UNCHANGED <<received, need>>

\* Slip: the bytes of data seen are not counted when the chunk goes on.
DataLeftUncounted(avail) == IF avail > size THEN 0 ELSE size

\* The buffer has avail bytes: how many of the chunk are still to come.
DataLeft(avail) == IF avail > size THEN 0 ELSE size - avail

\* LD_OK: the data of a chunk begins; http_parse_chunked skips what the buffer
\* has of it and calls __http_parse_chunked again.
SkipData ==
    /\ pc = "loop" /\ pos < Len(received) /\ state = "chunk_data"
    /\ LET avail == Len(received) - pos
       IN  IF size > MaxOff - 5
           THEN /\ Returns("ERROR")
                /\ UNCHANGED <<pos, state, size, length>>
           ELSE /\ length' = Wanted(state, size)
                /\ pos' = IF avail > size THEN pos + size ELSE Len(received)
                /\ size' = DataLeft(avail)
                /\ state' = Entered(state, size')
                /\ UNCHANGED <<pc, ret>>
    /\ UNCHANGED <<received, need>>

\* LD_AGAIN: the buffer is used up.
Again ==
    /\ pc = "loop" /\ pos = Len(received)
    /\ IF size > MaxOff - 5
       THEN /\ Returns("ERROR")
            /\ UNCHANGED <<length, need>>
       ELSE /\ Returns("AGAIN")
            /\ length' = Wanted(state, size)
            /\ need' = IF pos + length' > need THEN pos + length' ELSE need
    /\ UNCHANGED <<received, pos, state, size>>

Next ==
    \/ \E n \in 1 .. MaxFeed : \E bytes \in [1 .. n -> Byte] : Call(bytes)
    \/ Turn
    \/ SkipData
    \/ Again

Spec == Init /\ [][Next]_vars

-----------------------------------------------------------------------------
(* The grammar of a chunked body, independent of the parser.  Positions are *)
(* numbers of bytes: a part that starts at i has its first byte at i + 1.   *)

\* Where a line terminator that starts at i ends.
LineEnds(b, i) ==
    {j \in {i + 1, i + 2} :
        /\ j <= Len(b) /\ b[j] = LF
        /\ j = i + 2 => b[i + 1] = CR}

\* Where a line ends that goes on from i with any text.
TextEnds(b, i) ==
    LET stops == {j \in i .. Len(b) - 1 : b[j + 1] \in {CR, LF}}
    IN  IF stops = {} THEN {}
        ELSE LineEnds(b, CHOOSE j \in stops : \A k \in stops : j <= k)

\* The lines that say the size of a chunk and start at i: <<end, size>>.  They
\* have one or more digits, and possibly an extension.
SizeLines(b, i) ==
    UNION {LET size_of == FoldLeft(LAMBDA v, d : v * Radix + d, 0,
                                   SubSeq(b, i + 1, j))
               ends == IF j < Len(b) /\ b[j + 1] = EXT THEN TextEnds(b, j)
                       ELSE LineEnds(b, j)
           IN  {<<e, size_of>> : e \in ends}
           : j \in {k \in i + 1 .. Len(b) :
                      \A l \in i + 1 .. k : b[l] \in Digit}}

\* Where complete bodies that start at 0 end: chunks of at most
\* MaxOff \div Radix bytes, a chunk of size 0, header lines, an empty line.
Bodies(b) ==
    LET trailers[i \in 0 .. Len(b)] ==
            LineEnds(b, i) \cup
            (IF i < Len(b) /\ b[i + 1] \notin {CR, LF}
             THEN UNION {trailers[j] : j \in TextEnds(b, i)} ELSE {})
        bodies[i \in 0 .. Len(b)] ==
            UNION {IF l[2] = 0 THEN trailers[l[1]]
                   ELSE UNION {bodies[j] : j \in LineEnds(b, l[1] + l[2])}
                   : l \in {m \in SizeLines(b, i) : m[2] <= MaxOff \div Radix}}
    IN  bodies[0]

-----------------------------------------------------------------------------
TypeOK ==
    /\ received \in Seq(Byte)
    /\ pos \in 0 .. Len(received)
    /\ state \in {"chunk_start", "chunk_size", "chunk_data"} \cup LineStates
                 \cup {AlmostDone[s] : s \in LineStates}
    /\ size \in 0 .. MaxOff
    /\ length \in Nat
    /\ pc \in {"caller", "loop"}
    /\ ret \in {"AGAIN", "DONE", "ERROR"}
    /\ need \in Nat

\* However the body is cut into pieces, the parser stops exactly at the end of
\* the first complete body, and does not refuse the bytes of one.
AcceptsBodies ==
    pc = "caller" =>
        IF ret = "DONE" THEN pos \in Bodies(received)
        ELSE Bodies(received) = {}

\* `length` is right: the body is never complete with fewer bytes than the
\* parser said it wanted, and so many can be enough, so that a caller that
\* reads that much never reads into the next response.
Shortest == <<LF>> \o [k \in 1 .. size |-> 0] \o <<LF, 0, LF, LF>>
LengthIsLeast ==
    /\ ret = "DONE" => pos >= need
    /\ pc = "caller" /\ ret = "AGAIN" /\ received # <<>>
       /\ size <= MaxOff \div Radix
         => /\ length <= Len(Shortest)
            /\ LET rest == SubSeq(Shortest, Len(Shortest) - length + 1, Len(Shortest))
               IN  Len(received) + length \in Bodies(received \o rest)
=============================================================================
