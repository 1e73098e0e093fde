# A verification of ldproxy

ldproxy is a pair of HTTP proxies written in C. A browser talks to
`LDProxy_client` on the local machine; the client enciphers what the browser
sends (a substitution of bytes) and passes it to `LDProxy_server`, which
deciphers it, reads the request header, connects to the host that the header
names and relays from then on. Answers go back the same way, enciphered by the
server and deciphered by the client.

    browser <--plain--> LDProxy_client <--enciphered--> LDProxy_server <--plain--> host

Each program is one process with one thread and one loop (`main()` in
`src/source/client/main.c` and `src/source/server/main.c`):

    for (;;) {
        handle_agent_event();          accept at most one connection (waits 30 ms)
        handle_connections_event();    one epoll_wait, then its batch of events
        handle_session_timeout();      a rotating walk over the session pool
    }

There are no locks and nothing is persisted. What is hard in this code is the
order in which events, ends of stream, resets, failing calls and timeouts reach
a *slot of the session pool*, which the program addresses by a raw pointer with
the side of the connection in its lowest bit.

## 1. Inventory

| component | source | state | operations | interacts with |
|---|---|---|---|---|
| session | `clientsession.[ch]`, `serversession.[ch]`, `client.c`, `server.c` | two descriptors, a status for each side, two lists of packets, `flag`, `update_ticks`, the header cache and the parsed header (server) | `on_data_relay`, `__on_session_close`, `on_session_close`, `on_session_err`, `epoll_session_mod`, `free_*_session`; in the server `on_parse_header`, `on_process_header` | kernel sockets and epoll, cipher, header parser |
| event loop of the client | `client.c`, `client/main.c` | `g_session_events` of the current batch, `g_cur_ms`, `g_sess_timeout_ticks`, `g_sess_max_timeout` | `handle_agent_event`, `handle_req_form_cli`, `handle_connections_event`, `handle_session_timeout` | pool, sessions |
| event loop of the server | `server.c`, `server/main.c` | the same | the same, plus the stages parse, process, build of a request | pool, sessions, resolver |
| session pool | `clientsession.c`, `serversession.c` | `g_sessions`, `s_index`, `i_start` | `malloc_*_session`, `free_*_session`, `walk_session`, `walk_session_all` | event loops |
| secret key generator | `generate_secretkey.c` | the table, position, `rand()` | `generate_secret_key`, `check_key_valid` | configuration |
| cipher | `ciper.c` | `encodekey`, `decodekey` | `ciper_init`, `ciper_encode`, `ciper_decode` | generator, sessions |
| header parser | `h3/request_header.c` | the fields found | `h3_request_header_parse` | server |
| chunked parser | `http_parse_chunked.h` | `state`, `size`, `length` | `http_parse_chunked` | its own test only |
| Base64 | `base64.c` | input and output position, the group being shifted in, the padding counter | `Base64Encode`, `Base64Decode` | carries the key from the generator through the configuration |
| packet lists | `list.h`, `client.c`, `clientsession.c` | the links of `data_list`, `data`, `len` and `off` of each packet | queue, write, walk, drop | sessions |
| start and shutdown | `main.c`, `*cfg.c`, `create_agent_server` | the configuration, the listening socket, two epoll descriptors, log files, exit status | load, init, close, the label `error` | everything |
| tick, log | `tick.c`, `ldlog.c` | ticks per millisecond; two files | calibrate, convert; open, close | event loops, start |
| parson | `parson.c` | - | third-party JSON | start |

What makes each of them correct, and what is hard about it:

* **Session.** It holds a descriptor exactly while a kernel socket exists for
  it, on every error path; bytes are neither lost, doubled nor reordered by
  partial writes and `EAGAIN`; epoll is armed for exactly what is pending
  (level-triggered: a missing bit is a stalled connection, a superfluous one a
  busy loop); after one side has closed the session lives only as long as it has
  something to flush.
* **Event loops.** An event of a session that an earlier event of the same
  batch has freed must not touch the slot; a slot must not be given out while
  events for its previous owner are still to be handled; idle sessions end,
  busy ones are not reaped.
* **Server.** The header may be cut anywhere by the network. No host is
  contacted for a request that was not accepted, the cache never fills
  silently, and no byte is deciphered twice although part of the stream passes
  through the cache and the rest does not.
* **Pool.** The scan goes in two parts round `s_index`; the walk's window is
  `floor(20%)` of the pool and wraps around. Off-by-one errors here hand out a
  used slot, refuse a browser with a slot free, or pass an idle slot over.
* **Key and cipher.** Rejection sampling must not get stuck, the result must
  be a permutation without fixed points, and a key that is not a permutation is
  accepted silently.
* **Packet lists.** A packet is unlinked and freed by loops that stand on it; a
  packet that was written in part stays first, with its offset moved.
* **Start and shutdown.** Some twenty calls can fail, in functions that undo
  part of what was done before the label `error` undoes the rest; "open" is told
  by `> 0` and by pointers that may be stale.
* **Both programs together.** A close must not overtake the bytes in front of
  it, and must reach the other end.

`PROJECT.json` lists every hazard at its line with the properties that are
about it.

## 2. Modules

      Session                  SecretKey   SessionPool          Base64     PacketList
         |                         |            |                 |        (ByteQueue
      EventLoop                  Ciper   SessionPoolProofs     Startup     by INSTANCE)
       /     \                     |                           /     \         /     \
    ClientLoop  ServerLoop    CiperProofs               MCStartup     |  MCPacketList |
       |            |                                     StartupProofs    PacketListProofs
    MCClientLoop MCServerLoop
                                HttpChunked     RequestHeader -- MCRequestHeader
    EventLoop -> EventLoopProofs
                   /         \
    ClientLoop -> ClientLoopProofs   ServerLoopProofs <- ServerLoop
                        \             /
                         \ (INSTANCE) /
                           Tunnel -> MCTunnel, TunnelProofs

A line downwards, or an arrow, is EXTENDS. ClientLoop and ServerLoop instantiate
ProxySession, the abstract specification. Ciper, SessionPool and HttpChunked are
checked as they are; the others get their constants from MC modules.

**Session** is one slot of the pool with the kernel objects it owns: a record
with the fields of `ld_session_t` and, for each side, a socket (`sock`:
handshake state, bytes received, end of stream, reset, room in the send buffer)
and an epoll registration (`reg`). Each C function that works on a session is
an operator from a slot to a slot; those with a result return `[ret, slot]`.
`client.c` and `server.c` hold two copies of most of these functions which
differ only in which cipher call stands on which side; the constant `Xlate`
says what is applied to the bytes read from each side. `FreeSession` is
`free_client_session`, `WriteSide` and `ReadSide` are the halves of
`on_data_relay`, `CloseSide` is `__on_session_close` *with its flaw* (section 5),
and so on; `PROJECT.json` "map" has the lines.

**EventLoop** is everything of the loop that both programs share. `pc` says
which of the three calls of `main()` is running. `EpollWait` fills `batch`; the
events in it are then handled one by one, in any order, while peers go on.
Handling one event is one step: the thread runs no other code in between, and
what a peer does meanwhile cannot be told from its doing so before or after.
**ClientLoop** and **ServerLoop** add what an event of the browser's side does
(`CliEvent`), and the specification. In the server a single event can run
through the stages PARSE_HEAD, PROCESS_HEAD, BUILD_SVR and DATA_RELAY, each of
which can fail; `Stage` chains them as the `if`s of the code do.

**ProxySession** is the abstract specification: one session waits, relays both
ways, flushes one way, ends; bytes join `meant` at the end and are handed over
in order. `ClientLoop!KeepsPromise` and `ServerLoop!KeepsPromise` say that every
slot implements it, with `meant` and `delivered` computed from the sockets'
histories. **Prefix** holds the one idea these properties share with Tunnel's,
`StartOf(s, t)`: s is the first n elements of t, for some n. It is a module of its
own to keep all else out of the two instances that Tunnel has of nearly every
module.

**SessionPool** looks at the pool's index arithmetic alone, closer to the code
than EventLoop does: the two scans with their counter, the window with its wrap.

**SecretKey** and **Ciper** are the generator (one step per call of `rand()`)
and the way of the key through the configuration into the tables, one turn of
`ciper_init`'s loop per step. The configured key is the generated one or any
other 256 bytes, because nothing checks it.

**HttpChunked** is the parser of `http_parse_chunked.h`, one byte per step, called
with pieces of any size, beside a grammar of chunked bodies that knows nothing
of the parser's states. `state` stands for `ctx->state` and for the local copy
of it. The code's error for sizes above `MAX_OFF_T_VALUE - 5` is in the model
but never happens: only a size of at most `MAX_OFF_T_VALUE / 16` can be followed
by anything, and a larger one is caught there.

**RequestHeader** is the parser of `h3`, one step for the request line and one for
each field, on pointers into the cache as in the code. `WellFormed` and `FieldOf`
say by lines what a request is. ServerLoop takes the parser's verdict from the
request (`parses`, `host`, `connect`); a header without a usable Host gives the
session up there whichever way the parser comes to it.

**Base64** and **Startup** are the way into the loop and out of it: `main()` of both
programs, one statement or called function per step, each of which may fail. What
a program holds is a record `p`; descriptors are the kernel's numbers, the lowest
free one first, because the code takes "greater than 0" for "open", and a program
may be started without some of the standard ones. The decoder of the key works one
character per step on its real buffer size (scaled down), with the counter of `=`
that wraps around.

**PacketList** is one `flow_t` as the code has it: `next` and `prev`, `malloc` and
`free`, and the three loops that write, walk and drop packets, one turn per step.
It implements **ByteQueue**, the sequence of bytes that Session takes a list for.

**Tunnel** puts the two programs in a row: an instance of ClientLoop and one of
ServerLoop (through their proof modules, whose lemmas TunnelProofs cites for both),
whose far and near sockets are the ends of one TCP connection, `link`.
The programs' steps are those of their modules; Tunnel replaces only the peers:
what one program writes arrives at the other, byte by byte, with FIN behind it, or
a reset that destroys what is under way, as TCP does when a socket is closed with
bytes unread or written to after its other end has closed. `EachAsAlone`
says that nothing is lost by this: what one program does to the other is among the
things that the peers of EventLoop may do to it.

### Abstractions

* A list of packets is one sequence of bytes: `off` of the first packet is what
  has been taken from its front. Bytes are small numbers; requests are records
  that say where the header ends and what the parser makes of it.
* Time is the age of each slot and of the last walk, saturating where the code
  stops telling ages apart. One reading of the clock per turn of the loop: the
  program also takes its time from `g_cur_ms`, read once by each `epoll_wait`.
  The age of a slot not in use is 0.
* `taken`, `sent`, `out`, `gave`, `strings` and `req` are history: no guard of the
  program's steps depends on them (`req` stands for the bytes of the request, of
  which the server looks at the part it has cached). `out` is what a socket was
  given and goes when the socket goes; `gave` is the same and stays, so that a
  step that ends a session still shows what `write()` took in it. `strings` are the
  strings made of the Host field of a session's request that no one will free.
* The fraction 0.2 of the pool is `1 \div WalkShare`.
* Every system call that can fail does so when `Faults` is TRUE; `malloc` too.
  `getsockopt` that reports EINPROGRESS is unreachable after an event and left
  out; so are half-closed sockets, which the program does not support.
* Startup leaves the parsing of the JSON file to parson, which is not modelled:
  `json_validate` has already seen to it that the fields are there, so that the
  branches for missing ones cannot be taken. `ciper_init` compares a constant with
  itself and cannot fail.
* In Tunnel nothing fails but what the programs and TCP do to each other, there is
  one browser that connects once, the clock stands still, and the host answers
  when it has the whole request. A browser does not write behind a CONNECT before
  it has the answer (what the server does then is StreamIntegrity's matter).
* After `accept` errors and after `epoll_wait` fails otherwise than with EINTR
  the model does what the code does for the first (close and go on) and leaves
  the second, which ends the program, to Startup.
* RequestHeader tells five characters apart, and NUL, which fills the cache up. A
  request with a NUL in its header never gets to the parser, because `strstr`
  stops at it. Where the pointer passes the end of the cache the behaviour is
  undefined; the model stops there (`pc = "undefined"`).
* The chunked parser is not called again after it has said DONE or ERROR; what a
  caller does with the next response is its own affair.
* `gethostbyname` returns at once. It blocks the server's only thread in the
  code; how long is not modelled.

## 3. Runs

| run | configuration | what it asks | properties |
|---|---|---|---|
| `client_relay` | one slot, three bytes out and two back, reads of up to two, send buffer of one, faults, resets | one session of the client through everything that can happen to it | `NoLeak`, `ClosedOnlyToFlush`, `ArmedForWhatIsPending`, `StreamIntegrity`, `ClosedSideIsFlushed`, `KeepsPromise` |
| `client_pool` | two slots, half of the pool per walk, time, faults | stale events, reuse of slots, timeouts | `BatchNamesOpenFds`, `FreedSlotUntouched`, `IdleReaped` |
| `client_server_gone` | one slot, time, peers that read | finds the flaw of section 5 | `ServerGoneFreed` is violated |
| `server_relay` | one slot; a plain request, a CONNECT, and malformed, endless and hostless ones; header cache of three bytes, cut anywhere; faults, resets | one session of the server, as `client_relay`, and the header stage | `OnlyHostStringsLeak`, `StreamIntegrity`, `HeadCacheHasRoom`, `HostOnlyAfterHeader`, `KeepsPromise` |
| `tunnel` | one browser, one host, both programs; a plain request and a CONNECT; all buffers of one byte, a header cache of two | whether the two programs together do what they are for | `EndToEnd`, `EachAsAlone`, `EverythingArrives`, `GoneTogether` |
| `startup` | both programs, every call failing or not, with and without standard descriptors; some 480 key texts, a key of four bytes | start and shutdown | `KeyAsConfigured`, `DecodeInBuffer`, `ReleasedOnce`, `NothingKept`, `RunsFullyBuilt`, `ExitStatus`, `ClockNeverFast` |
| `packets` | three packets of one or two bytes, six bytes in all | the linked lists | `WellLinked`, `IsByteQueue` |
| `key` | five byte values, all keys | generator and cipher | `GeneratedKeyValid`, `DrawPossible`, `DecodeUndoesEncode`, `GenerationEnds` |
| `session_pool` | eleven slots, windows of two | index arithmetic | `WalkComesRound`, `MallocExact` |
| `request_header` | requests with up to three field lines, good and bad, or with any six characters in them; room for two fields | what the parser accepts and finds | `TypeOK`, `AcceptsRequests`, `FieldsSound` |
| `blank_value` | the same | finds the second flaw of section 5 | `BlankValueRefused` is violated |
| `http_chunked` | every sequence of at most eight bytes, in pieces of one or two; binary digits, largest number 15 | the chunked parser against its grammar | `TypeOK`, `AcceptsBodies`, `LengthIsLeast` |

Why the bounds are enough to be interesting. With a send buffer of one byte
(`SndBuf`), reads of one or two (`ReadMax`) and two or three bytes each way there
are partial writes, `EAGAIN`, bytes queued when the peer closes, packets queued
behind packets and packets written in part. One slot suffices for what a session
does; two are needed, and enough, for a batch with events of two sessions and of
both sides of one, for a full pool with one slot freed in between, and for a walk
that visits a part of the pool. Three byte values with a key without fixed points
tell enciphered, plain and twice-enciphered bytes apart. A header of two bytes in a
cache of three can be cut at every place, followed by a byte in the same read, and
overrun. In `tunnel` six buffers lie between browser and host (queue, send buffer
and link in each direction of each program), so that three bytes of a request
can be in three places when somebody closes.

Five key values allow swaps that move earlier values back; eleven slots do not
divide by five, so the window wraps at every offset. Eight bytes hold a body of two
chunks, one with an extension or a trailer, and every size up to the overflow when
digits are binary; pieces of one and two bytes cut it at every place. (`MaxLen` and
`MaxFeed` are bounds of the model, `Radix` and `MaxOff` scale 16 and 2^63 - 1 down.)
Three field lines where there is room for two let the limit bite; six arbitrary
characters make every short malformation: lone CR or LF, lines without a colon,
without a name or without a value. Three packets are needed for one between two
others to be unlinked; `MaxBytes` bounds a session's bytes so that packets are
freed and reused. A key of four bytes ends in a group of its own (4 = 3 + 1, like
the real 256 = 85 * 3 + 1) and the texts include keys of one to five bytes, so all
ends of a text occur; `Word` scales 2^64 down to 1024, which no honest counter
reaches; eight descriptors (`MaxFd`) are more than the program needs outside its
sessions.

Deadlock is not checked where the program stops: after the return of the two
parsers and of `main()` in `startup`.

Each property has a mutant in `PROJECT.json`: a definition replaced by a slip
one could make in the C code (kept next to the definition and commented "Slip"),
which makes TLC find the property violated.

### Fairness

* `LoopFairness` (`client_pool`, `client_server_gone`): the loop of `main()` never
  stops, so each of its calls, when possible, is taken (weak fairness), and the
  events of a batch are handled one after the other. Two conjuncts are strong
  because the alternative is enabled again and again: the clock advances
  infinitely often (`ClockAdvance`: it is the CPU's counter), and `epoll_wait` is
  not interrupted by a signal every time (`EpollWait`).
* `PeersRead` and `BrowsersKeepComing` (`client_server_gone` only): the peers'
  kernels take what has been written and handshakes end; the pool is exhausted,
  and swept, again and again. Both only make the violation stronger: the session
  stays although its peers do all they can.
* `SF(Draw)` in Ciper: `rand()` does not avoid the acceptable values for ever.
* `ClientRuns`, `ServerRuns` in Tunnel: each of the two loops goes from one of its
  calls to the next and through its batch. `LinkDelivers`, `EndsRead`: the kernels
  deliver, handshakes end, and browser and host read what they are given.

Nothing is assumed about peers sending, closing or resetting.

## 4. Properties

Of both programs (defined in EventLoop unless said otherwise):

* `NoLeak`: a kernel socket, the session's descriptor for it and its epoll
  registration exist together or not at all, and a free slot holds nothing.
  About the dozen places that free a session, in particular those half-way
  through building the far connection.
* `OnlyHostStringsLeak` (ServerLoop): the same of the server, and of the up to three
  strings it makes of the Host field (`server.c:493-532`). The code loses some of
  them (section 5); the property says which, when, and that no failing call in
  between makes it more.
* `BatchNamesOpenFds`, `FreedSlotUntouched`: use after free by an event of the
  batch, of a slot or of a descriptor. (That a new session never gets a slot in use is
  a matter of the scan, `MallocExact`; the loops take its result for granted.)
* `ArmedForWhatIsPending`: `EPOLLOUT` is armed for a side exactly while
  something waits for it.
* `ClosedOnlyToFlush`, `ClosedSideIsFlushed` (ClientLoop): a session with a
  closed side is open to be flushed and nothing else; and when an event ends it,
  `write()` has taken everything that was read from the closed side, byte for byte,
  unless the receiver's descriptor was closed before. Not so when a call fails or a
  side is reset: then the code ends the session at once, whatever is queued, and
  the property says nothing.
* `StreamIntegrity` (ClientLoop and ServerLoop, each with its own meaning of
  "what is meant for the other side"): byte-exact relaying. In the server it
  fixes how the cached part and the relayed part fit together, and that bytes
  which a client sends after the header of a CONNECT and before its answer are
  dropped if they were read with the header.
* `KeepsPromise`: every slot implements ProxySession.
* `IdleReaped` (EventLoop): an idle session ends, wherever the walk stands.
* `EndToEnd`, `EverythingArrives`, `GoneTogether` (Tunnel): what arrives at either
  end is the beginning of what the other end sent, in the clear; a request arrives
  even if the browser closes right behind it; the end of a browser ends the
  sessions of both programs. `EachAsAlone`: each program runs in the tunnel
  as its own module says, with the other one for a peer.
* `HeadCacheHasRoom`, `HostOnlyAfterHeader` (ServerLoop).
* `MallocExact`, `WalkComesRound` (SessionPool).
* `AcceptsRequests`, `FieldsSound`, `BlankValueRefused` (RequestHeader): exactly the
  fields of a well-formed request, in order; of other requests too, fields that
  do not overlap or run over an end of line; and what the comment says of a field
  without a value. `TypeOK` there bounds the array of fields.
* `AcceptsBodies`, `LengthIsLeast` (HttpChunked): the parser stops exactly at the
  end of the first complete body however it is cut, and the number of bytes it
  asks for is that of the shortest rest. `TypeOK` there says that sizes do not
  overflow.
* `KeyAsConfigured`, `DecodeInBuffer` (Startup, Base64): a key text as the generator
  prints it, with line breaks and the like put into it, becomes the key; the
  decoder stays in its buffer for every text with at most two `=`.
* `ReleasedOnce`, `NothingKept`, `RunsFullyBuilt`, `ExitStatus` (Startup): every way
  through `main()` gives back what it took, once; the loop is entered with
  everything built; the exit status tells a failure. Each names the exceptions
  that the code has (section 5).
* `ClockNeverFast` (Startup): only a signal during the calibration makes the
  clock fast.
* `WellLinked`, `IsByteQueue` (PacketList): no pointer dangles in any state between
  two statements of a loop, every packet is freed once, and the list is a queue of
  bytes.
* `GeneratedKeyValid`, `DrawPossible`, `GenerationEnds` (SecretKey, Ciper): the
  generator does not get stuck and `check_key_valid` never fails.
  `DecodeUndoesEncode` (Ciper): for which keys the two programs understand each
  other, in both directions.

## 5. What the runs found

`client_server_gone`: when the *server side* of a session closes while bytes are
queued for the browser, `__on_session_close` (`client.c:173`) keeps the browser's
descriptor to flush them and arms it for `EPOLLOUT`, but with
`SET_SVR_FD_FLAG` - the tag that says "this is the server's descriptor". From
then on the browser's events run through the branch for the server side, find
its status `CLOSE`, and end in `__on_session_close` again. Nothing is written,
the session is not freed, each event sets `update_ticks` so that no timeout
applies, and because the socket is writable the loop never waits. The comments
at `client.c:33-35` (what the tag means) and `client.c:91-93` (when all has been
sent the session is closed) say otherwise. `server.c:285` is the same line. When
the *browser* closes first, the tag is right and all is well: `GoneTogether`.

The model keeps the flaw. `StreamIntegrity`, `NoLeak` and the others hold in it
nevertheless: the session stays in order, it just does not end.

`blank_value`: "CRLF is not allowed here" says `request_header.c:122`, and the line
below it returns -1 for CRLF in front of a value. The loop before (line 120) skips
with `isspace()`, which holds for CR and LF too, so the test can never be true:
a field of blanks only is accepted and takes the next line for its value. Were
that the Host field, the session would be given up for want of a host.

A header without any field line has no colon, so the loop over fields runs to the
end of the cache and past it (`request_header.c:114`). Nothing in the repository
says what should happen; the model says "undefined", and `AcceptsRequests` shows
that well-formed requests with at least one field stay clear of it.

Further behaviour that contradicts nothing written down, and that the properties
name as their exceptions:

* When one of the two `fopen()`s of `ldlog_init` fails, the other file is closed but
  its pointer kept (`ldlog.c:44-52`), and `ldlog_uninit` closes it again
  (`ReleasedOnce`).
* When `epoll_create()` or the `malloc()` of the events fails, `main()` returns the 0
  of the call before (`ExitStatus`); the events are never freed (`NothingKept`).
* A key text that decodes to fewer bytes than the table is taken without complaint
  (`clientcfg.c:49`), and the end of the table is whatever the buffer held. A text with
  three or more `=` defeats the decoder's test for room (`DecodeInBuffer`).
* A signal that cuts a `usleep()` of `timer_ticks_init` short makes all timeouts come
  too early (`ClockNeverFast`).
* The server loses memory with its sessions (`server.c:493-523`). Nobody frees `temp`,
  the copy of the whole Host field, when there is a port in it, so every connection to
  such a host costs that string. `domain` is lost, with or without a port, when
  `gethostbyname()` does not know it, and `strport` when there was no memory for
  `domain` (`OnlyHostStringsLeak`). That `temp` itself may be NULL, which is handed to
  `strchr()` unchecked, is not modelled; without `strport` alone the default port is
  used, as if none had been given.
* The bytes that a client sends behind a CONNECT are dropped if they were read with
  the header, and relayed if they came one event later (`StreamIntegrity`).

## 6. Proofs

`tlapm` checks the eight proof modules from nothing. A run shows a property for
one small instance; these theorems hold for every value of the constants that
satisfies the assumptions below.

| module | theorem | says |
|---|---|---|
| CiperProofs | `TypeCorrect`, `AlwaysValid`, `AlwaysDrawPossible`, `DecodingCorrect`, `GeneratedCorrect` | the safety properties of the run `key`, for every key length, and what they mean for a generated key |
| SessionPoolProofs | `ScanIsExact` | `MallocExact` |
| SessionPoolProofs | `WalkMissesNothing`, `TypeCorrect` | `WalkComesRound` and `TypeOK`, for pools of at least `WalkShare` slots (with fewer the window is empty) |
| ClientLoopProofs | `TypeCorrect`, `NothingLeaks` | `TypeOK` and `NoLeak` of the client |
| ClientLoopProofs | `FreedStaysFreed` | `FreedSlotUntouched` |
| ClientLoopProofs | `ClosedFlushes`, `ArmedRight`, `EventsNameOpenFds` | `ClosedOnlyToFlush`, `ArmedForWhatIsPending`, `BatchNamesOpenFds` |
| ClientLoopProofs | `StreamIntact`, `ClosedFlushed` | `StreamIntegrity`, `ClosedSideIsFlushed` |
| ClientLoopProofs | `PromiseKept` | `KeepsPromise`: every slot implements ProxySession |
| ServerLoopProofs | `ServerTypeCorrect`, `ServerNothingLeaks`, `ServerFreedStaysFreed` | `TypeOK` of the server, `OnlyHostStringsLeak`, `FreedSlotUntouched` of the server |
| ServerLoopProofs | `ServerClosedFlushes`, `ServerArmedRight` | `ClosedOnlyToFlush`, `ArmedForWhatIsPending` of the server |
| ServerLoopProofs | `ServerStreamIntact`, `HeadHasRoom`, `HostAfterHeader` | `StreamIntegrity`, `HeadCacheHasRoom`, `HostOnlyAfterHeader` |
| ServerLoopProofs | `ServerPromiseKept` | `KeepsPromise` of the server |
| StartupProofs | `KeyInBuffer`, `KeyArrives` | `DecodeInBuffer`, `KeyAsConfigured`, for every key, text and size of the buffer |
| StartupProofs | `GivenBackOnce`, `AllGivenBack`, `LoopFullyBuilt`, `StatusTells` | `ReleasedOnce`, `NothingKept`, `RunsFullyBuilt`, `ExitStatus` |
| StartupProofs | `NeverFast` | `ClockNeverFast`, for every rate of the counter and number of samples |
| PacketListProofs | `ListWellLinked`, `QueueOfBytes` | `WellLinked`, `IsByteQueue`, for any number of packets of any length |
| TunnelProofs | `Tunnelled` | `EndToEnd`, for every key that is a permutation, all requests, answers and buffers |
| TunnelProofs | `EachRefines` | `EachAsAlone` |

**Assumptions**, each beside the constants it is about. `SessionAssumption`: the cipher
is a table of bytes per side, not even a permutation (`CipherOK`); requests and replies
are sequences of bytes (`TrafficOK`); buffers hold at least one byte (`BuffersOK`).
`LoopAssumption`: at least one slot and a positive share per walk (`PoolOK`), a
sensible clock (`TimeOK`), and nothing about failing calls and resets, which may happen
or not (`EnvironmentOK`). `HeadAssumption`: the header cache has room for a byte.
`LengthAssumption`: a key has at least four bytes, which the counting argument for
`DrawPossible` needs. `KeyAssumption` and `TunnelAssumption`: in the tunnel the key is a
permutation, the header of a request fits the cache and names a host, and the answer
to CONNECT is not empty, as in the code. Startup and PacketList assume of their
constants only what their comments say (sizes are positive, addresses are not NULL).

**Generator and cipher.** The inductive invariant is `Permutation` (the table is
injective, because every step swaps two places), `PassedDeranged` (positions
passed already hold no value of their own place, also after a later swap with
them, which is what the second half of the acceptance test is for) and
`TablesFollowKey` (the part of both tables that is filled follows the key).
`DrawPossible` then is a counting argument on four values: one is neither the
position, nor the value that stands there, nor the one place at which the
position's own value stands.

**Pool.** The scans need only that indexes are slots (`Indexes`). For the walk the
invariant is `Nearer`: the slots that a slot was passed over by, `unseen[s] *
WalkLen`, and the way still to go until the walk comes to it are together less
than the pool; a walk that does not visit the slot moves exactly `WalkLen` from
the second to the first. `WindowsCover` then bounds `unseen` by the round.

**The loops**, in layers; each module uses the one before it.

1. *EventLoopProofs, the operators*: every operator of Session keeps a slot in order
   (`SlotOK`: typed and holding what it owns). In between a handler holds half-built
   sessions, with a socket that is not yet registered; `Droppable` is the weaker fact
   that is true of them, and `FreeSession` turns a droppable slot into one in order.
   This is where "every error path undoes what was done" is established.
2. *EventLoopProofs, the pool*: `Inv == TypeOK /\ NoLeak` is inductive, but its two parts
   need each other: a peer can act only on a socket that exists, and only `NoLeak` says
   that it belongs to a session in use. There is one lemma for each action that both
   loops share: `ReplaceSlot` lifts a slot in order to a pool in order,
   `FirstFreeIsFree` says that the search round the pool finds a free slot wherever
   it starts (the least offset exists), `PeerOwner` names the owner of a socket.
3. *EventLoopProofs, the relay discipline*. `Settled` is what is true of a slot between
   two events: a closed side has no descriptor and its partner lives to flush
   (`Flushes`), epoll waits for what there is to do (`Armed`), a registration carries the
   tag of its side, or the server's when the browser's descriptor is the last one left
   (`Tagged`: the flaw of section 5, as the code has it), and the far side does not exist
   before the near side relays (`Begun`). Inside a handler epoll is behind, so `Midway`
   asks less, and `epoll_session_mod` settles it (`FinishSettles`). `Fits` ties the batch
   to the slots: an event is about an open descriptor, at most one for each.
   `Discipline` of the pool is inductive relative to `Inv`, and `ClosedOnlyToFlush`,
   `ArmedForWhatIsPending` and `BatchNamesOpenFds` are read off it.
4. *EventLoopProofs, the bytes*. `Counted` says that nothing was read that had not been
   sent. `Flows(c, d)` relates two states of a slot: of either side `d` has read what
   `c` had and some more, it passes on what it has read, in order, and drops nothing
   while the receiver lives. Every operator of Session is shown to flow, and `Flows` is
   transitive.
5. *EventLoopProofs, the promise*: what the refinement of ProxySession needs of both
   programs. `Kept`: the history of a slot is wiped with its descriptors, and what was
   given to a side that is open (`gave`) is what its socket shows (`out`). `SessionMoves`:
   a step from one settled slot to the next along which the bytes flow is a step of the
   abstract session: `Open`, `Relay`, `HalfClose`, `Flush`, `Close` or none, according to
   the statuses before and after.
6. *ClientLoopProofs*: `Streaming` (every slot's queue and history are the
   translation of what was read) is inductive relative to the discipline, because
   `Flows` preserves it. `PromiseKept` needs every slot to move at once, as a timeout
   ends several sessions in a step: `HistoryKept`, then one lemma per action.
   `ClosedFlushed` goes through the handlers of an event for the ways in which each
   may end the session (`RelayEnds`, `SvrEventEnds`, `CliEventEnds`): a call failed, or
   the queue of the closed side was empty and nothing has been added (`EndsAt`), or
   the last write emptied it (`FlushedBy`). With `StreamIntact` and `Kept` of the state
   before, that makes `gave` of the other side all that was meant for it. `Sound` gathers all that is
   invariant, for those who use the module from outside (Tunnel).
7. *ServerLoopProofs*: nothing but the connection to the host makes or loses strings:
   every other operator leaves a slot `Undisturbed`, the third stage makes `HostText`
   true whatever becomes of it (`BuildHostText`), and `HostText` of all slots is
   inductive relative to `Inv`; together they are `OnlyHostStringsLeak`. For the rest the
   strings make no difference (`HoldingSame`, `BuildHostBuilds`). A single event can run through four stages, each of which
   can fail, so there is an intermediate assertion for what a stage may leave
   behind: `Passes` (in order and midway if it goes on, free if not) and `Progress`
   (which status it may go on with). `Collecting` describes a slot whose header is
   being gathered (the cache is the deciphered beginning of what was read),
   `Processed` one whose header is accepted and waits to be passed on, `Relays` one
   beyond it, with the `Preface` (the cached request, or the answer to CONNECT) in
   front and the `Skipped` bytes taken out. `Streams` says which of them holds for
   which status; `Order` is the inductive invariant. `HeadHasRoom` and
   `HostAfterHeader` are parts of it. For `ServerPromiseKept`, `MeantGrows` shows that
   what is meant for the other side only grows, also across the acceptance of the
   header, where it begins to exist.

**The tunnel.** The invariant `TInv` is what is invariant of each program alone
(`Programs`) and what is true between them (`Between`). The heart are `Upward` and
`Downward`: the bytes under way are the piece (`Run`) of the sealed request, or of the
sealed answer, that starts where the receiver has got to and ends where the sender
has written to. That counts only while both ends are open; `EndsMeet` says how a FIN
or a reset on the link goes with the state of the two sockets. `Silent` and
`NothingBack`, that nothing comes back before the server has the end of the header,
are needed for CONNECT: they keep the browser from sending on, so that the server's
cache ends where the header does (`HeadFits`) and no byte meant for the host is
dropped with it. `NothingEarly` carries "never before it was sent" through the four
sockets. A handler of one program is looked at through `EventPromised`: what it wrote
is what its socket shows, or, if it closed the socket, `WrittenBy`. Each step of the
link or of the other program is a `PeerSends`, `PeerReceives`, `PeerShutsDown`,
`PeerResets` or `HandshakeDone` of the program it happens to (`StepsOf`), so
`Programs` is preserved by the theorems of the two modules, and the two refinements
come with it; that what arrives is a legal thing for a peer to send rests in turn on
`Upward` and `Downward`.

**Start and shutdown.** The invariant `Built` says for every statement of `main()`
what has been acquired when it is reached; at `error` no more than `Tidy`: every
descriptor and block held is named by exactly one variable, and a variable that is
not "open" in the code's sense names nothing. Descriptor 0 is the delicate case: the
code takes 0 for none, which is right only because the first log file takes 0 if the
program was started without it (`Logged`). The shutdown functions are then lemmas from
tidy to empty.

**Base64.** `KeySoFar` relates the decoder to the bytes of the key, not to the text:
after `4 * w + r` significant characters the first `w` groups are stored and `r`
digits of the next stand in `t`. `Padding` ties the counter `g` to the number of `=`
read. That noise does not count, and that the significant characters of a text are
those of the encoded key, is shown by counting (`Significant`).

**Clock.** The calibration sums its samples by a recursive function; `Sums` says what
that computes, by induction over its argument in the form of a least counterexample.
The mean of samples that are each too long is not too short, and the quotient is
rounded up.

**Packet lists.** `Chained` follows the history `order` of the packets queued: the
pointers lead round through the head and the packets in that order, and back.
`Filled`: `order` is what `malloc()` gave and `free()` has not taken back. `Added` and
`Removed` are `list_add_tail` and `list_del` on such a ring. For the queue of bytes
each step is one of ByteQueue's, or none, by lemmas on cutting (`Past`, `Upto`) and on
putting sequences together (`FlattenAppend`, `FlattenTail`).

That the code frees a session twice on some paths is covered by `FreeSessionOK`.

## 7. Only model-checked, and not modelled

**Only model-checked.** Liveness and ENABLED are beyond the prover: `IdleReaped`,
`GenerationEnds`, `EverythingArrives`, `GoneTogether`, and the two violations. So are the
induction theorems of the library, which take a predicate as an argument. Where a proof
needs induction it is done by hand, by a least counterexample in a set of numbers (the
sum of the samples, the concatenation of packets); that works for recursive functions
over numbers. The parsers (`AcceptsRequests`, `FieldsSound`, `AcceptsBodies`,
`LengthIsLeast` and the two `TypeOK`s): what they are compared with are grammars, given by
folds and by recursion over sets of positions, and the comparison for texts of every
length is a proof of its own size that has not been written.

**Not modelled.**

* parson: vendored, third-party. Build files, sample configuration: no behaviour.
* What is written to the logs.
* The macros of `list.h` that nothing uses (hash lists, splicing, sorting, the
  RCU variants), of `tick.h` all but the conversion.
* Memory: the queue of a session has no bound in the code (`client.c:150`), so there
  is none to check. Allocations whose result is used at once and unchecked (the parsed
  header of a session, `temp`) are taken to succeed.
* Waiting inside a handler: `gethostbyname()` (`server.c:519`) stops all sessions of
  the server while it waits, which has no counterpart where a handler is one step.
* `getsockopt()` with EINPROGRESS after an event: cannot happen.
