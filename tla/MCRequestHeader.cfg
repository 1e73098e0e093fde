\* Requests of up to three field lines, good and bad, or any six characters
\* between a good line and the end of the header.
CONSTANTS
    Requests <- MCComplete
    CacheMax = 40
    MaxFields = 2
SPECIFICATION Spec
INVARIANTS
    TypeOK
    AcceptsRequests
    FieldsSound
\* The parser has returned.
CHECK_DEADLOCK FALSE
