\* Sizes in binary, so that bodies with two chunks, and sizes up to the largest
\* number, fit into eight bytes.
CONSTANTS
    Radix = 2
    MaxOff = 15
    MaxLen = 8
    MaxFeed = 2
SPECIFICATION Spec
INVARIANTS
    TypeOK
    AcceptsBodies
    LengthIsLeast
\* A body that is complete or refused is not parsed any further.
CHECK_DEADLOCK FALSE
