------------------------------ MODULE PacketList ------------------------------
(***************************************************************************)
(* One flow_t of a session: the list_head in the session, the buffer_t     *)
(* packets linked to it with the macros of list.h, malloc() and free() of  *)
(* the packets, and the loops of client.c and clientsession.c that put,    *)
(* write and drop them, one turn per step.  (server.c and serversession.c  *)
(* have the same loops.)                                                   *)
(***************************************************************************)
EXTENDS Naturals, Sequences, SequencesExt, FiniteSets

CONSTANTS
    DataList,       \* the address of data_list
    Node,       \* the addresses malloc() may return
    Payloads,   \* what one read() may return
    MaxBytes    \* bound: bytes that pass through in one session

NULL == "NULL"
Garbage == "garbage"        \* what freed memory holds
Addr == Node \cup {DataList}

ASSUME AddressAssumption ==
    /\ IsFiniteSet(Node) /\ Node # {}
    /\ DataList \notin Node
    /\ NULL \notin Addr /\ Garbage \notin Addr
ASSUME PayloadAssumption ==
    /\ \A s \in Payloads : s \in Seq(Nat) /\ s # <<>>
    /\ MaxBytes \in Nat

VARIABLES
    link,       \* [Addr -> [next, prev]]
    allocated,  \* the nodes that malloc() has given and free() not taken back
    data,       \* packet->data, whose length is packet->len
    off,        \* packet->off
    pc,         \* "free", "idle", or the loop that runs: "write", "drop", "walk"
    pos, pos2,  \* the variables of list_for_each_safe
    order,      \* (history) the packets not yet freed, in the order of malloc()
    written,    \* (history) the bytes write() has taken in this session
    taken       \* (history) how many bytes read() has returned in it

vars == <<link, allocated, data, off, pc, pos, pos2, order, written, taken>>

Pointer(to) == [next |-> to, prev |-> to]

-----------------------------------------------------------------------------
(* list.h.                                                                  *)

InitListHead(l, a) == [l EXCEPT ![a] = Pointer(a)]

\* list_add_tail: __list_add(a, h->prev, h).
ListAddTail(l, a, h) ==
    [l EXCEPT ![h].prev = a,
              ![a] = [next |-> h, prev |-> l[h].prev],
              ![l[h].prev].next = a]

\* list_del: __list_del(a->prev, a->next).
ListDel(l, a) ==
    [l EXCEPT ![l[a].next].prev = l[a].prev, ![l[a].prev].next = l[a].next]

ListEmptySafe(l, h) == l[h].next \in {h, NULL}

-----------------------------------------------------------------------------
(* client_session_pool_init fills the session with zeros.                   *)
Init ==
    /\ link = [a \in Addr |-> Pointer(IF a = DataList THEN NULL ELSE Garbage)]
    /\ allocated = {}
    /\ data = [a \in Node |-> <<>>] /\ off = [a \in Node |-> 0]
    /\ pc = "free" /\ pos = DataList /\ pos2 = DataList
    /\ order = <<>> /\ written = <<>> /\ taken = 0

\* list_del(a); free(a).
DeleteAndFree(a) ==
    /\ link' = [ListDel(link, a) EXCEPT ![a] = Pointer(Garbage)]
    /\ allocated' = allocated \ {a}
    /\ data' = [data EXCEPT ![a] = <<>>] /\ off' = [off EXCEPT ![a] = 0]
    /\ order' = Tail(order)

SamePackets == UNCHANGED <<link, allocated, data, off, order>>
SameWalk == UNCHANGED <<pos, pos2>>

\* __malloc_client_session.
OpenSession ==
    /\ pc = "free" /\ pc' = "idle"
    /\ link' = InitListHead(link, DataList)
    /\ written' = <<>> /\ taken' = 0
    /\ UNCHANGED <<allocated, data, off, order>> /\ SameWalk

\* on_data_relay with EPOLLIN: what read() returned is put into a packet.
Enqueue(a, bytes) ==
    /\ pc = "idle"
    /\ a \in Node \ allocated
    /\ taken + Len(bytes) <= MaxBytes
    /\ allocated' = allocated \cup {a}
    /\ link' = ListAddTail(InitListHead(link, a), a, DataList)
    /\ data' = [data EXCEPT ![a] = bytes] /\ off' = [off EXCEPT ![a] = 0]
    /\ order' = Append(order, a)
    /\ taken' = taken + Len(bytes)
    /\ UNCHANGED <<pc, written>> /\ SameWalk

-----------------------------------------------------------------------------
(* on_data_relay with EPOLLOUT: the loop around write().                    *)

First == link[DataList].next

WriteBegins ==
    /\ pc = "idle" /\ pc' = "write"
    /\ SamePackets /\ SameWalk /\ UNCHANGED <<written, taken>>

\* What is given to write().  Slip: off is not added.
RestFromStart(a) == data[a]
Rest(a) == SubSeq(data[a], off[a] + 1, Len(data[a]))

\* The kernel takes n bytes; 0 stands for EAGAIN and EINTR as well.
WriteTurn ==
    /\ pc = "write" /\ ~ListEmptySafe(link, DataList)
    /\ \E n \in 0 .. Len(Rest(First)) :
         /\ written' = written \o SubSeq(Rest(First), 1, n)
         /\ IF n = Len(Rest(First))
            THEN DeleteAndFree(First) /\ UNCHANGED pc
            ELSE /\ off' = [off EXCEPT ![First] = @ + n]
                 /\ pc' = "idle"
                 /\ UNCHANGED <<link, allocated, data, order>>
    /\ SameWalk /\ UNCHANGED taken

\* free_client_session: list_for_each_safe starts.
WalkBegins ==
    /\ pc' = "walk"
    /\ pos' = First /\ pos2' = link[First].next

\* The list is empty; the session goes on, or is freed.
WriteEnds ==
    /\ pc = "write" /\ ListEmptySafe(link, DataList)
    /\ \/ pc' = "idle" /\ SameWalk
       \/ WalkBegins
    /\ SamePackets /\ UNCHANGED <<written, taken>>

-----------------------------------------------------------------------------
(* Dropping what waits.                                                     *)

\* on_session_err, a timeout, or write() fails.
SessionFreed ==
    /\ pc = "idle" \/ (pc = "write" /\ ~ListEmptySafe(link, DataList))
    /\ WalkBegins
    /\ SamePackets /\ UNCHANGED <<written, taken>>

\* Slip: list_for_each instead of list_for_each_safe.
WalkTurnUnsafe ==
    /\ pc = "walk" /\ pos # DataList
    /\ DeleteAndFree(pos)
    /\ pos' = link'[pos].next /\ pos2' = pos'
    /\ UNCHANGED <<pc, written, taken>>

WalkTurn ==
    /\ pc = "walk" /\ pos # DataList
    /\ DeleteAndFree(pos)
    /\ pos' = pos2 /\ pos2' = link'[pos2].next
    /\ UNCHANGED <<pc, written, taken>>

WalkEnds ==
    /\ pc = "walk" /\ pos = DataList /\ pc' = "free"
    /\ SamePackets /\ SameWalk /\ UNCHANGED <<written, taken>>

\* __on_session_close: the side these bytes are for has closed.
DropBegins ==
    /\ pc = "idle" /\ pc' = "drop"
    /\ SamePackets /\ SameWalk /\ UNCHANGED <<written, taken>>

DropTurn ==
    /\ pc = "drop" /\ ~ListEmptySafe(link, DataList)
    /\ DeleteAndFree(First)
    /\ SameWalk /\ UNCHANGED <<pc, written, taken>>

\* The session lives on to flush the other list, or is freed.
DropEnds ==
    /\ pc = "drop" /\ ListEmptySafe(link, DataList)
    /\ \/ pc' = "idle" /\ SameWalk
       \/ WalkBegins
    /\ SamePackets /\ UNCHANGED <<written, taken>>

Next ==
    \/ OpenSession
    \/ \E a \in Node, bytes \in Payloads : Enqueue(a, bytes)
    \/ WriteBegins \/ WriteTurn \/ WriteEnds
    \/ SessionFreed \/ WalkTurn \/ WalkEnds
    \/ DropBegins \/ DropTurn \/ DropEnds

Spec == Init /\ [][Next]_vars

-----------------------------------------------------------------------------
(* Properties.                                                              *)

\* The list as it should be: once round, from the head back to the head.
Around == <<DataList>> \o order \o <<DataList>>

\* While the loops run, also between a list_del() and the next turn, the
\* pointers lead through exactly the packets that are allocated, forwards and
\* backwards, in the order in which they were queued: nothing freed is still
\* linked and nothing linked was freed, no packet is lost, and a loop that
\* frees what it stands on knows where to go on.
WellLinked ==
    /\ ToSet(order) = allocated
    /\ pc = "free" => order = <<>>
    /\ pc # "free" =>
         \A n \in 1 .. Len(order) + 1 :
            /\ link[Around[n]].next = Around[n + 1]
            /\ link[Around[n + 1]].prev = Around[n]
    /\ pc = "walk" =>
         pos = Around[2] /\ pos2 = (IF order = <<>> THEN DataList ELSE Around[3])

Waiting == FlattenSeq([n \in DOMAIN order |-> Rest(order[n])])

Phase ==
    CASE pc = "free" -> "closed"
      [] pc \in {"idle", "write"} -> "open"
      [] OTHER -> "dropping"

Queue == INSTANCE ByteQueue WITH
    waiting <- Waiting, written <- written, phase <- Phase

\* Packets, partial writes and pointers together are the queue of bytes that
\* Session has in their place: bytes join at the end and leave at the front,
\* each once, and dropping ends with an empty queue.
IsByteQueue == Queue!Spec
=============================================================================
