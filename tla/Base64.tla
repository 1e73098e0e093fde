------------------------------- MODULE Base64 -------------------------------
(***************************************************************************)
(* base64.c: the way of the secret key into a program.  generate_secretkey *)
(* prints it as text (Base64Encode), an administrator copies the text into *)
(* the configuration, load_cli_proxy or load_ser_proxy reads it back with  *)
(* Base64Decode, here one character per step.                              *)
(*                                                                         *)
(* A character is its place in g_pCodes: 0..63 are digits, Pad is '=',     *)
(* Noise stands for all others, which the decoder skips.                   *)
(***************************************************************************)
EXTENDS Integers, Sequences, FiniteSets

CONSTANTS
    OutMax,     \* SECRET_KEY_LEN: room in the configuration for the key
    Texts,      \* what may be configured: records, see TextType
    Word        \* 2^64, the range of unsigned long

Octet == 0 .. 255
Pad == 64
Noise == 255
Char == 0 .. 64 \cup {Noise}

\* A text and the key it was made from; <<>> when it was not made from one.
TextType == [text : Seq(Char), key : Seq(Octet)]

ASSUME RoomAssumption ==
    /\ OutMax \in Nat \ {0}
    /\ Word \in Nat /\ Word > OutMax + 3

-----------------------------------------------------------------------------
(* Base64Encode: three bytes become four digits.                            *)

\* One group; b and c are 0 where the input has ended.
Digits(a, b, c) ==
    <<a \div 4, (a % 4) * 16 + b \div 16, (b % 16) * 4 + c \div 64, c % 64>>

\* How many characters n bytes become.
EncodedLen(n) == ((n + 2) \div 3) * 4

\* Slip: a last group of two bytes is padded like one of one byte.
EncodeShort(in) ==
    [j \in 1 .. EncodedLen(Len(in)) |->
        LET first == 3 * ((j - 1) \div 4)
            place == (j - 1) % 4
            At(k) == IF first + k <= Len(in) THEN in[first + k] ELSE 0
        IN  IF place > 1 /\ first + 3 > Len(in) THEN Pad
            ELSE Digits(At(1), At(2), At(3))[place + 1]]

Encode(in) ==
    [j \in 1 .. EncodedLen(Len(in)) |->
        LET first == 3 * ((j - 1) \div 4)
            place == (j - 1) % 4
            At(k) == IF first + k <= Len(in) THEN in[first + k] ELSE 0
        IN  IF place > 1 /\ first + place > Len(in) THEN Pad
            ELSE Digits(At(1), At(2), At(3))[place + 1]]

\* How many of the first n characters of s are not noise.
Significant(s, n) == Cardinality({k \in 1 .. n : s[k] # Noise})

\* A text made from a key is what Base64Encode printed, with noise in it.
ASSUME TextAssumption ==
    /\ Texts # {} /\ Texts \subseteq TextType
    /\ \A s \in Texts : s.key # <<>> =>
         /\ Significant(s.text, Len(s.text)) = EncodedLen(Len(s.key))
         /\ \A k \in 1 .. Len(s.text) : s.text[k] # Noise =>
              s.text[k] = Encode(s.key)[Significant(s.text, k)]

-----------------------------------------------------------------------------
(* Base64Decode.                                                            *)

VARIABLES
    source,     \* the element of Texts that is configured
    x,          \* characters read
    t, y,       \* the digits of the group so far, and how many they are
    g,          \* 3 less the padding seen so far
    pOut,       \* the bytes stored: pOut[0], ..., pOut[z - 1]
    result      \* Busy, or what is returned: 1 or -1

Busy == 0
decoder == <<source, x, t, y, g, pOut, result>>

text == source.text

DecodeInit ==
    /\ source \in Texts
    /\ x = 0 /\ t = 0 /\ y = 0 /\ g = 3
    /\ pOut = <<>>
    /\ result = Busy

\* Slip of the test for room: it is made without the bytes of this group.
TooLongLate(len, n) == len > OutMax
\* z + g > *uOutLen, in unsigned arithmetic.
TooLong(len, n) == (len + n) % Word > OutMax

\* The bytes of a group whose 24 bits are d: always one, the others unless
\* padding says they are not there.
Stored(d, n) ==
    SubSeq(<<(d \div 65536) % 256, (d \div 256) % 256, d % 256>>, 1,
           IF n > 2 THEN 3 ELSE IF n > 1 THEN 2 ELSE 1)

\* What follows `t = (t << 6) | c` for the digit c, with n for g.
Shift(c, n) ==
    LET d == t * 64 + c IN
    /\ g' = n
    /\ IF y < 3
       THEN /\ t' = d /\ y' = y + 1
            /\ UNCHANGED <<pOut, result>>
       ELSE /\ t' = 0 /\ y' = 0
            /\ IF TooLong(Len(pOut), n)
               THEN result' = -1 /\ UNCHANGED pOut
               ELSE pOut' = pOut \o Stored(d, n) /\ UNCHANGED result

\* Padding counts g down, below 0 if there is enough of it.
DecodeChar ==
    /\ result = Busy /\ x < Len(text)
    /\ x' = x + 1
    /\ UNCHANGED source
    /\ LET c == text[x + 1] IN
         CASE c = Noise -> UNCHANGED <<t, y, g, pOut, result>>
           [] c = Pad -> Shift(0, (g + Word - 1) % Word)
           [] OTHER -> Shift(c, g)

\* The end of the text; a group that is not complete is dropped.
DecodeEnd ==
    /\ result = Busy /\ x = Len(text)
    /\ result' = IF Len(text) = 0 THEN -1 ELSE 1
    /\ UNCHANGED <<source, x, t, y, g, pOut>>

Decode == DecodeChar \/ DecodeEnd

-----------------------------------------------------------------------------
DecoderType ==
    /\ source \in Texts
    /\ x \in 0 .. Len(text)
    /\ t \in Nat
    /\ y \in 0 .. 3
    /\ g \in 0 .. Word - 1
    /\ pOut \in Seq(Octet)
    /\ result \in {Busy, 1, -1}

\* Padding among the first n characters.
Pads(n) == {k \in 1 .. n : text[k] = Pad}

\* The decoder stays in the buffer it was given, as long as the text has no
\* more than the two '=' that Base64Encode can produce.  (A third makes g 0,
\* while one byte is stored all the same; a fourth makes g wrap around.)
DecodeInBuffer ==
    Cardinality(Pads(Len(text))) <= 2 => Len(pOut) <= OutMax

\* A key that fits arrives as it was generated, whatever line breaks, blanks
\* or other noise the text has picked up; a key that is too long is refused.
\* Shorter keys are taken: nothing tells the caller how many bytes there are.
KeyAsConfigured ==
    result # Busy /\ source.key # <<>> =>
        IF Len(source.key) <= OutMax
        THEN result = 1 /\ pOut = source.key
        ELSE result = -1
=============================================================================
