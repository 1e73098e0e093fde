\* Three packets of one or two bytes, used again and again.
CONSTANTS
    head = head
    n1 = n1
    n2 = n2
    n3 = n3
    DataList <- head
    Node <- MCNode
    Payloads <- MCPayloads
    MaxBytes = 6
SPECIFICATION Spec
INVARIANTS
    WellLinked
PROPERTIES
    IsByteQueue
