\* Five byte values: every order of random draws, and every key that may be
\* configured, permutation or not.
CONSTANTS
    N = 5
SPECIFICATION FairSpec
INVARIANTS
    GeneratedKeyValid
    DrawPossible
    DecodeUndoesEncode
PROPERTIES
    GenerationEnds
