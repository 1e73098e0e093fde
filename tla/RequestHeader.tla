---------------------------- MODULE RequestHeader ----------------------------
(***************************************************************************)
(* h3/request_header.c: the parser of the request header, called by        *)
(* on_parse_header of the server once the cache holds CR LF CR LF.  It is   *)
(* given the whole cache, whose bytes after the request are NUL.  One step  *)
(* for the request line, then one for each turn of the loop over fields.   *)
(***************************************************************************)
EXTENDS Integers, Sequences, SequencesExt

CONSTANTS
    Requests,       \* what may be in the cache
    CacheMax,       \* LD_BUFFER_SIZE_8k, passed as bodyLength
    MaxFields       \* MAX_HEADER_SIZE

\* The characters that the parser tells apart; WORD is any other.
WORD == "x"
COLON == ":"
SP == " "
CR == "\r"
LF == "\n"
NUL == "nul"
Char == {WORD, COLON, SP, CR, LF}

EmptyLine == <<CR, LF, CR, LF>>

ASSUME RequestAssumption ==
    /\ CacheMax \in Nat /\ MaxFields \in Nat \ {0}
    /\ \A b \in Requests :
         /\ b \in Seq(Char) /\ Len(b) <= CacheMax
         /\ \E i \in 1 .. Len(b) - 3 : SubSeq(b, i, i + 3) = EmptyLine

VARIABLES
    body,           \* the request; the cache is filled up with NULs
    p,              \* the pointer, as an offset from the start of the cache
    fields,         \* Fields: where names and values start and end
    pc, ret

vars == <<body, p, fields, pc, ret>>

Init ==
    /\ body \in Requests
    /\ p = 0 /\ fields = <<>> /\ pc = "line" /\ ret = 0

-----------------------------------------------------------------------------
(* The macros of h3.h.                                                      *)

At(q) == IF q < Len(body) THEN body[q + 1] ELSE NUL
IsSpace(q) == At(q) \in {SP, CR, LF}
IsCRLF(q) == At(q) = CR /\ At(q + 1) = LF

\* Slip: a line feed alone does not end a value.
NotCRLFLoose(q) == At(q) # CR

\* Not the negation of IsCRLF.
NotCRLF(q) == At(q) # CR /\ At(q + 1) # LF

\* Slip: only one of the two characters is skipped.
SkipCRLFHalf(q) == IF IsCRLF(q) THEN q + 1 ELSE q
SkipCRLF(q) == IF IsCRLF(q) THEN q + 2 ELSE q

\* `while (!Stop(p) && notend(p)) p++` from q on.
Until(q, Stop(_)) ==
    CHOOSE r \in q .. CacheMax :
        /\ r = CacheMax \/ Stop(r)
        /\ \A o \in q .. r - 1 : ~Stop(o)

WordFrom(q) == Until(q, LAMBDA r : ~IsSpace(r) \/ ~NotCRLF(r))
WordEnd(q) == Until(q, LAMBDA r : IsSpace(r) \/ ~NotCRLF(r))

\* h3_request_line_parse: where it stops.  -1 stands for NULL.
RequestLineEnd ==
    LET method == Until(0, IsSpace)
        uri == WordEnd(WordFrom(method))
    IN  CASE method = CacheMax \/ IsCRLF(method) -> -1
          [] method < CacheMax /\ ~IsCRLF(method) ->
               IF IsCRLF(uri) \/ uri = CacheMax THEN uri
               ELSE WordEnd(WordFrom(uri))

Returns(result) == pc' = "done" /\ ret' = result

RequestLine ==
    /\ pc = "line"
    /\ LET q == RequestLineEnd
       IN  CASE q \in {-1, CacheMax} -> Returns(-1) /\ UNCHANGED p
             [] q \notin {-1, CacheMax} /\ SkipCRLF(q) = CacheMax ->
                  Returns(0) /\ UNCHANGED p
             [] OTHER -> pc' = "fields" /\ p' = SkipCRLF(q) /\ UNCHANGED ret
    /\ UNCHANGED <<body, fields>>

-----------------------------------------------------------------------------
NoValue == <<0, 0>>

\* Slip: one turn too many.
RoomLeftOneMore(n) == n <= MaxFields
\* Another turn of the loop when n fields have been found.
RoomLeft(n) == n < MaxFields

Found(colon, value) ==
    fields' = Append(fields, [name |-> <<p, colon>>, value |-> value])

\* One turn of the do loop.  When no colon is left, `p++` takes the pointer
\* past the end of the cache, where no comparison with the end stops it any
\* more: what happens then is undefined.
Field ==
    /\ pc = "fields"
    /\ LET colon == Until(p, LAMBDA q : At(q) = COLON)
           value == Until(colon + 1, LAMBDA q : ~IsSpace(q))
           end == Until(value, LAMBDA q : ~NotCRLF(q))
           next == SkipCRLF(end)
       IN  CASE colon = CacheMax ->
                  /\ pc' = "undefined"
                  /\ Found(colon, NoValue)
                  /\ UNCHANGED <<p, ret>>
             [] colon < CacheMax
                /\ (colon + 1 = CacheMax \/ IsCRLF(colon + 1)
                    \/ value = CacheMax \/ IsCRLF(value)) ->
                  /\ Returns(-1)
                  /\ Found(colon, NoValue)
                  /\ UNCHANGED p
             [] OTHER ->
                  /\ Found(colon, <<value, end>>)
                  /\ p' = next
                  /\ IF IsCRLF(next) \/ next = CacheMax
                        \/ ~RoomLeft(Len(fields) + 1)
                     THEN Returns(0)
                     ELSE UNCHANGED <<pc, ret>>
    /\ UNCHANGED body

Next == RequestLine \/ Field

Spec == Init /\ [][Next]_vars

-----------------------------------------------------------------------------
(* A request as it should be, by its lines.                                 *)

HeaderEnd ==
    CHOOSE i \in 0 .. Len(body) - 4 :
        /\ SubSeq(body, i + 1, i + 4) = EmptyLine
        /\ \A j \in 0 .. i - 1 : SubSeq(body, j + 1, j + 4) # EmptyLine

\* The lines of the header without their CR LF, as intervals.
Lines ==
    LET ends == SetToSortSeq({i \in 0 .. HeaderEnd : IsCRLF(i)}, <)
    IN  [k \in 1 .. Len(ends) |->
            <<IF k = 1 THEN 0 ELSE ends[k - 1] + 2, ends[k]>>]

Within(line) == line[1] .. line[2] - 1
Colons(line) == {i \in Within(line) : At(i) = COLON}
Least(S) == CHOOSE i \in S : \A j \in S : i <= j

\* A line "name: value".  Blanks before the value do not belong to it.
FieldOf(line) ==
    LET colon == Least(Colons(line))
    IN  [name |-> <<line[1], colon>>,
         value |-> <<Least({i \in Within(line) : i > colon /\ At(i) # SP}),
                     line[2]>>]

\* Two or three words with blanks between them, then lines that have a name
\* and a value.
WellFormed ==
    LET words == {i \in Within(Lines[1]) :
                     At(i) # SP /\ (i = 0 \/ At(i - 1) = SP)}
    IN  /\ \A k \in DOMAIN Lines, i \in 0 .. HeaderEnd :
             i \in Within(Lines[k]) => At(i) \notin {CR, LF}
        /\ At(0) # SP /\ At(Lines[1][2] - 1) # SP
        /\ \E a, b, c \in words : a # b /\ words = {a, b, c}
        /\ Len(Lines) > 1
        /\ \A k \in 2 .. Len(Lines) :
             /\ Colons(Lines[k]) # {}
             /\ \E i \in Within(Lines[k]) :
                  i > Least(Colons(Lines[k])) /\ At(i) # SP

-----------------------------------------------------------------------------
\* No more fields are stored than the array has room for.
TypeOK ==
    /\ body \in Seq(Char)
    /\ p \in 0 .. CacheMax
    /\ pc \in {"line", "fields", "done", "undefined"}
    /\ ret \in {0, -1}
    /\ Len(fields) <= MaxFields
    /\ \A k \in DOMAIN fields :
         \A bound \in {fields[k].name, fields[k].value} :
            bound \in (0 .. CacheMax) \X (0 .. CacheMax)

\* A well-formed request is accepted, and the fields found, the Host that the
\* server connects to among them, are those on its lines in their order, as
\* far as there is room for them; the parser stays within the cache.
AcceptsRequests ==
    WellFormed /\ pc \in {"done", "undefined"} =>
        LET expected == [k \in 1 .. Len(Lines) - 1 |-> FieldOf(Lines[k + 1])]
            room == IF Len(expected) <= MaxFields THEN Len(expected)
                    ELSE MaxFields
        IN  /\ pc = "done" /\ ret = 0
            /\ fields = SubSeq(expected, 1, room)

\* Of any request whatever: fields do not overlap, and a value, which may be
\* handed to the resolver, has no end of line in it.
FieldsSound ==
    \A k \in DOMAIN fields : fields[k].value # NoValue =>
        LET value == fields[k].value
        IN  /\ fields[k].name[2] < value[1] /\ value[1] <= value[2]
                /\ k < Len(fields) => value[2] <= fields[k + 1].name[1]
            /\ \A i \in Within(value) : At(i) \notin {CR, LF}

\* "CRLF is not allowed here", after the blanks behind a colon
\* (request_header.c:122): a field without a value is refused.
BlankValueRefused ==
    pc = "done" /\ ret = 0 =>
        \A k \in DOMAIN fields :
            \A i \in fields[k].name[2] .. fields[k].value[1] - 1 : ~IsCRLF(i)
=============================================================================
