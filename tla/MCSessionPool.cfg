\* Eleven slots, not a multiple of five: windows of two slots.
CONSTANTS
    MaxSession = 11
    WalkShare = 5
SPECIFICATION Spec
INVARIANTS
    WalkComesRound
PROPERTIES
    MallocExact
