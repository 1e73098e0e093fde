----------------------------- MODULE SessionPool -----------------------------
(***************************************************************************)
(* The session pool as clientsession.c and serversession.c search it: the  *)
(* scan of malloc_client_session for a free slot and the rotating window   *)
(* of walk_session.  Sessions themselves are just in use or not.           *)
(***************************************************************************)
EXTENDS Integers, FiniteSets

CONSTANTS
    MaxSession,     \* g_max_session
    WalkShare       \* a walk visits 1/WalkShare of the pool (5 in the code)

ASSUME PoolAssumption ==
    /\ MaxSession \in Nat \ {0}
    /\ WalkShare \in Nat /\ WalkShare >= 2

VARIABLES
    flag,           \* flag[s]: slot s is in use
    s_index,        \* where the scan starts
    i_start,        \* where the next walk starts
    result,         \* what malloc_client_session returned last
    unseen          \* history: walks since a walk last came by slot s

vars == <<flag, s_index, i_start, result, unseen>>

Slot == 0 .. MaxSession - 1
NULL == -1

Init ==
    /\ flag = [s \in Slot |-> FALSE]
    /\ s_index = 0
    /\ i_start = 0
    /\ result = NULL
    /\ unseen = [s \in Slot |-> 0]

-----------------------------------------------------------------------------
\* `for (i = from; i < to && flag[i]; ++i)`: where the loop stops.
ScanStop(from, to) ==
    LET free == {s \in Slot : from <= s /\ s < to /\ ~flag[s]}
    IN  IF free = {} THEN to ELSE CHOOSE s \in free : \A r \in free : s <= r

\* s_index once slot k is handed out.
IndexAfter(k) == (k + 1) % MaxSession

\* Slip: the slots before s_index are not scanned.
FoundAhead ==
    LET first == ScanStop(s_index, MaxSession)
    IN  IF first < MaxSession THEN first ELSE NULL

\* The two scans of __malloc_client_session.  count is the number of slots in
\* use that the first one passed.
Found ==
    LET first == ScanStop(s_index, MaxSession)
        count == first - s_index
        second == IF count < MaxSession THEN ScanStop(0, s_index) ELSE first
    IN  CASE first < MaxSession -> first
          [] first >= MaxSession /\ count < MaxSession ->
               IF second >= s_index THEN NULL ELSE second
          [] OTHER -> NULL

Malloc ==
    /\ result' = Found
    /\ IF Found = NULL
       THEN UNCHANGED <<flag, s_index>>
       ELSE /\ flag' = [flag EXCEPT ![Found] = TRUE]
            /\ s_index' = IndexAfter(Found)
    /\ UNCHANGED <<i_start, unseen>>

Free(s) ==
    /\ flag[s]
    /\ flag' = [flag EXCEPT ![s] = FALSE]
    /\ UNCHANGED <<s_index, i_start, result, unseen>>

-----------------------------------------------------------------------------
WalkLen == MaxSession \div WalkShare
WalkEnd == (i_start + WalkLen) % MaxSession

\* Slip: the loop starts one slot late.
VisitedLate ==
    IF i_start <= WalkEnd
    THEN {s \in Slot : i_start < s /\ s < WalkEnd}
    ELSE {s \in Slot : i_start < s \/ s < WalkEnd}

\* `for (i = *start; i != *end; i = (i+1)%max)`: the slots visited.
Visited ==
    IF i_start <= WalkEnd
    THEN {s \in Slot : i_start <= s /\ s < WalkEnd}
    ELSE {s \in Slot : i_start <= s \/ s < WalkEnd}

\* Any of the sessions visited and in use may turn out to be idle.
WalkSession ==
    /\ i_start' = WalkEnd
    /\ unseen' = [s \in Slot |-> IF s \in Visited THEN 0 ELSE unseen[s] + 1]
    /\ \E idle \in SUBSET Visited :
         flag' = [s \in Slot |-> flag[s] /\ s \notin idle]
    /\ UNCHANGED <<s_index, result>>

Next == Malloc \/ (\E s \in Slot : Free(s)) \/ WalkSession

Spec == Init /\ [][Next]_vars

-----------------------------------------------------------------------------
\* Number of walks that take the window once round the pool.
Rounds == (MaxSession + WalkLen - 1) \div WalkLen

TypeOK ==
    /\ flag \in [Slot -> BOOLEAN]
    /\ s_index \in Slot
    /\ i_start \in Slot
    /\ result \in Slot \cup {NULL}
    /\ unseen \in [Slot -> 0 .. Rounds]

\* The wrapped-around scan misses nothing: NULL means that every slot is in
\* use, and a slot handed out was free and is the first free one from s_index
\* on, so that slots freed recently are the last to be used again.
MallocExact ==
    [][Malloc =>
         \/ result' = NULL /\ \A s \in Slot : flag[s]
         \/ /\ result' \in Slot /\ ~flag[result']
            /\ \A s \in Slot :
                 (s - s_index) % MaxSession < (result' - s_index) % MaxSession
                    => flag[s]]_vars

\* The rotating window comes by every slot: whatever the pool's size, no slot
\* is passed over for more walks than it takes to go round once.
WalkComesRound == \A s \in Slot : unseen[s] < Rounds
=============================================================================
