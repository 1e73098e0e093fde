\* The same requests: is a field without a value refused?
CONSTANTS
    Requests <- MCComplete
    CacheMax = 40
    MaxFields = 2
SPECIFICATION Spec
INVARIANTS
    BlankValueRefused
\* The parser has returned.
CHECK_DEADLOCK FALSE
