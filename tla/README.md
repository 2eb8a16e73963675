# no-ground: verification of the game server

This directory holds TLA+ models of the no-ground server, the TLC instances that
check them, and theorems about them whose proofs TLAPS checks.  The reference is
the code in `src/`; every definition that models code is listed in
`PROJECT.json` under `map` with the lines it stands for.

## 1. The system

no-ground is a small WebSocket chat/game server in C (`src/server`), a page that
connects to it (`src/platforms/web`), a JavaScript library that lays out binary
structures over WebAssembly memory (`src/platforms/js`), and headers of an
engine to come (`src/include`, `src/engine`).  The core is the server: one
thread, one `poll` loop, blocking sockets.

| Part | State it keeps | Operations | Hard because | Correct when |
| --- | --- | --- | --- | --- |
| **Connection layer** `conn.c`, `conn.h` | the poll list (entry 0 is the listener) and, one shorter, the client list; a status and `last_updated` per client | `conPollEvents`: poll, accept, scan, ping, sweep; the pushes and the swap-remove | two arrays share one index; peers act between `poll` and the scan; descriptors are reused; lists are bounded; four callbacks run in the middle of loops | arrays in step; no record outlives its descriptor; a sweep is complete; callbacks come in pairs; dead peers are reaped, waiting ones accepted, quiet ones pinged |
| **WebSocket handlers** `ws.c`, `ws.h` | nothing between two calls, besides the client list | `wsHandshake`, `wsHandleConnection`, `wsHandleMessages`, `wsHandlePing`, `wsSendToAll` | blocking `recv` and `send` in the only thread; frames found in an unbuffered byte stream; sends that raise SIGPIPE | every packet dispatched is a frame sent, in order; every listed client gets every broadcast once, in order; the loop gets its thread back |
| **Frame headers** `ws.c` | none | `wsReadPacket`, `wsSendPacket` | three forms of a length, signed/unsigned boundaries, byte order by hand | each side reads what the other wrote |
| **Chat application** `server.c` | none of its own | `handleNewConnection`, `handlePacket`, `handleMessages`, `handleDisconnect`, `main` | broadcasts start inside accept, scan and sweep, while the lists change | the clients are told a consistent story |
| **Thread pool** `thpool.c` | a locked queue, a binary semaphore, two counters, two static flags | `thread_do`, `thread_hold`, `thpool_add_work`, `_wait`, `_pause`, `_resume`, `_destroy` | binary semaphore for a queue, unlocked reads, signals at any point, flags shared by all pools | jobs run in order and once; no wakeup is lost; `thpool_wait` returns when all is done; nobody is left inside a pool that is freed |
| **Hash map** `hashmap.c` | buckets with probe distances, counters, thresholds | `set`, `get`, `probe`, `delete`, `scan`, `iter`, resize | robin-hood displacement and backward shift, resize in the middle of a sequence of calls, allocation failure, a cursor over a table that changes | a map; an iteration gives every item once |
| **Core arrays** `core.h` | length and capacity in front of the items | alloc, resize, fit, fill, push, pop, remove, swap-and-pop | capacity 0, a resize that moves what is being pushed, overlapping copies | a sequence with room for its items |
| **SHA-1** `sha1.c` | the context: block, two words of length, two flags | `SHA1Reset`, `SHA1Input`, `SHA1Result`, padding, the mixing of a block | padding at block boundaries, lengths in two words, a context that is reused | the standard's blocks, the standard's digest |
| **Base64** `base64.c` | none between calls | `base64_encode`, `base64_decode` | a length computed first and trusted by every write; padding, line feeds, foreign bytes | decode inverts encode; no write beyond the allocation |
| **Accept key** `ws.c` | none | `_wsCheckHttpHeaderForSecKey`, `_wsCalculateAcceptKey` in `wsHandshake` | what one `recv` brings of a request; three libraries in a row | the answer of RFC 6455 |
| **Binary layout library** `cwat.js` | struct descriptions, the module's memory | `CStruct`, `CArray`, `CMemView`, `CModule`: set and get | offsets and sizes computed in three places, views of live memory, a set that fails half-way | what was set is what a get finds |
| **WebAssembly runtime** `wasmstd.h` | none | `printf` over functions that the host provides | arguments taken one by one as the format is read; a format that ends anywhere | each argument taken once, as the type it was passed |
| **Web client** | one socket | greet, render | - | - |

How they interact.  `main` installs the handlers of `server.c` and `ws.c` as
callbacks and calls `conPollEvents` for ever.  `conPollEvents` calls `onconnect`
(`wsHandleConnection`) from the accept, `onmessage` (`wsHandleMessages`) from
the scan, `onping` (`wsHandlePing`) from the ping loop, and `ondisconnect`
(`handleDisconnect`) from the sweep.  All but `onping` may broadcast through
`wsSendToAll`, which walks the client list that the caller is in the middle of
changing.  Everything else is shared with the other side only through sockets.
The handshake calls the SHA-1 context and Base64.  The thread pool and the hash map
are linked into the server and not called yet; the arrays, the layout library
and `printf` belong to the engine and the page, and nothing of the server uses
them.

## 2. The modules

| Module | Models | Remark |
| --- | --- | --- |
| `ConnServer` | `conn.c`, `conn.h` | the callbacks are left open: any status, any read |
| `ChatRoom` | nothing in the code | the abstract promise of the server: an ordered broadcast to members |
| `WsServer` | `ws.c`, `server.c` in the loop of `ConnServer` (EXTENDS) | shown to implement `ChatRoom`, and to be a `ConnServer` whose callbacks are the handlers |
| `WsFrame` | header bytes: `wsSendPacket`, `wsReadPacket`; the browser's side is external | pure operators |
| `WsStream` | how `wsHandleMessages` finds frames in a byte stream (EXTENDS `WsFrame`) | one client; TCP cuts the stream anywhere |
| `JobPool` | the promise of `thpool.h` | abstract |
| `ThPool` | `thpool.c` | shown to implement `JobPool` |
| `KeyedItems` | the promise of the comments in `hashmap.c`: a map whose calls are answered at one instant | abstract |
| `RobinHood` | `hashmap.c`, one turn of a loop per step | shown to implement `KeyedItems` |
| `Sha1` | the context of `sha1.c`: states, blocks, padding | a digest is here the sequence of blocks it is of |
| `Sha1Block` | `SHA1ProcessMessageBlock`, round by round | words of 32 bits as pairs of halves |
| `Base64` | `base64.c`, one turn of a loop per step | |
| `AcceptKey` | the answer of `wsHandshake` | composes (EXTENDS) `Sha1`, `Sha1Block` and `Base64` |
| `NgArray` | the arrays of `core.h` | with the outcomes of what C leaves undefined |
| `CLayout` | `cwat.js`, one part of a walk through a type per step | |
| `Printf` | `printf` of `wasmstd.h`, one part of a directive per step | up to the calls of the host |
| `ConnServerProofs`, `ChatRoomProofs`, `WsServerProofs`, `WsStreamProofs`, `ThPoolProofs`, `RobinHoodProofs`, `LibraryProofs`, `HandshakeKeyProofs` | theorems | see section 5; `WsServerProofs` builds on the first two, `WsStreamProofs` has the headers of `WsFrame` too, `HandshakeKeyProofs` is about `Base64`, `Sha1`, `Sha1Block` and `AcceptKey`, `LibraryProofs` about `NgArray`, `CLayout` and `Printf` |
| `MC...` | instances for TLC | `MCLibraries` holds the sequential libraries, of which a behaviour uses one |

### ConnServer

`pc` is the place inside `conPollEvents`, `idx` the index of the loop it is in,
`newfd` the descriptor that `conAcceptConnections` has just got.  `poll` and
`clients` are the two arrays: C's `poll.items[k]` is `poll[k+1]`, so that
`clients[k]` belongs to `poll[k+1]`.  `armed` is what remains of
`events != 0`: the code marks an entry for deletion by clearing `events`.
`due` stands for `now - last_updated > ping_interval`.  `net`, `rx`, `backlog` and
`fdt` are the kernel's and the peers' side; `joined` and `left` count callbacks.

One action is one iteration of a loop up to the next callback or the next read of
something a peer may change: `Poll`; `Accept`, `AcceptNothing`, `ListenerError`;
`ScanDead`, `ScanMessage`, `ScanAlive`; `PingDueClient`, `PingSkip`; `SweepKeep`,
`SweepDead`; and one `On...Return` per callback, which does what the code does
with the result.  `CONN_RETRY` is modelled (`OnReconnectReturn`), though no handler
of this server returns it to the loop.

### WsServer

`call` is the handler that is running: its stage, the event it is broadcasting,
the index of the next recipient and the status it will return.  A unit of a
client's stream is a handshake request, a whole frame, or a piece of one; a
frame shorter than `WS_MAX_HEADER_LEN` makes the first read go on into the next
unit and tear it (`FirstRead`).  `log`, `since`, `tx` are history: the broadcasts, where in them a client was
listed, and what it was sent.  A client whose window is full is `slow`.

`Handled` gives the outcome of a frame: text is broadcast, a close frame kills
the client, other opcodes are ignored, and bytes out of the middle of a frame may
do any of that.  Three ends of the process are kept: the assertion on a fragmented
frame, SIGPIPE in the handshake's answer and in a ping, and `exit` on an error of
the listener.

### WsStream and WsFrame

Positions count bytes.  `FirstRead` is the `recv` of up to 14 bytes, `Packets`
what `wsReadPacket` makes of them, computed from the bytes of the header and
the zeros of the cleared buffer.  The actions are the branches of `wsHandleMessages`,
in step or out of it: after the server has lost the boundaries the bytes it reads are payload or the middle of a header, and
may read like any header of `Noise`.  Such a header may be invalid, cut, a fragment or a close frame, or promise more
than has come, and then `ReadRemainder` waits for that many of the bytes that follow, or takes them from the next frames;
`astray` remembers that the packet began at no frame.  By chance the server may be back at the start of a frame
afterwards.  A first read that takes more than a short frame makes `wsReadPacket` decode up to 8 bytes more than the payload has
(`ws.c:84-86`); they stay within the smallest chunk of `malloc`, and the model takes that for no
change.  `careful`, chosen at the start, says whether TCP delivers
headers whole and the client waits after a short frame; the properties that hold
only then say so, and `LostOnlyAtShortOrCut` shows that nothing else is needed.

### ThPool

`pc[t]` is the place in `thread_do`, `op[c]` the place of a caller.  A critical section of `thcount_lock` or of the
semaphore's mutex is one step; the queue's lock is held over two, since the
semaphore is posted inside.  Sleepers wake on signals and spuriously.  `held` threads are inside
`thread_hold`, which may begin between any two steps, also with the queue's
lock held.  With `OtherPools` another pool of the process writes the static flags.

### RobinHood

`buckets` is the memory behind `map->buckets`, of which the first `nbuckets` are
in use: after a `hashmap_clear` that finds no memory for `cap` buckets the old,
longer block stays.  `dib` is the distance field of a bucket, from 1, and 0 in an
empty one; `entry` is `map->edata` with the item a `set` or a rehash carries on, `i` the
bucket it looks at, `spare` what a `delete` has found, `map2` and `from` the new
table of `resize0` and the old bucket it has reached.

One action is one turn of a loop: `SetNext`, `MoveNext`, `FindNext` and
`ShiftBack` go on to the next bucket, `SetEmpty`, `SetReplace`, `MoveEmpty`,
`FindHit`, `FindMissing` and `ShiftEnd` leave the loop.  Every allocation may fail
(`GrowFails`, `ShrinkFails`, `memory` in `hashmap_clear`).  `call`, `answer` and
`before` are history, for the refinement: while a call is under way `KeyedItems` sees
the map as it was when the call began, though an item that is being displaced
is in no bucket at all.  `iter` is the cursor of a caller of `hashmap_iter` with
what it was given so far; `hashmap_probe` and `hashmap_scan` are operators, as they
only read.

### Sha1, Sha1Block, Base64 and AcceptKey

`Sha1` keeps the fields of `SHA1Context` under their names, except that `hashed`, the blocks
mixed since `SHA1Reset`, stands for `Intermediate_Hash`: what the padding may get
wrong is which blocks there are.  `word` is the number of values of a length word, 2^32
in the code.  The caller's side is `msg`, how much of it was `offered`, and how much of
the running `SHA1Input` is `todo`; `InputByte` is a turn of its loop.  `Sha1Block` mixes such
blocks: `BlockStart`, `Expand`, `Round` and the end of a block are the loops of
`SHA1ProcessMessageBlock`, over 32-bit words kept as two halves.

In `Base64` `olen` is what was allocated and `top` the furthest byte written; `at` is the
place in the input, `block` and `pad` the locals of the decoder.  `EncodeBlock`,
`DecodeLetter` and `DecodeBlock` are turns of the loops, `EncodeEnd` the padding, the
last line feed and the NUL.  `made` is history: the text just made, which a caller
may decode.  Sizes are computed modulo `SizeMod`.

`AcceptKey` runs the three in the order of the code.  `hs` is the place in `wsHandshake`; a
request is the sequence of tokens that `strtok` finds in what one `recv` has
brought, with what the client meant (`key`, `whole`) as history.

### NgArray

`data` is the items up to the length, as nothing reads the memory behind it.  One
action is one function or macro.  Where C leaves a step undefined, `data` takes one of
the outcomes a build can give, `undefined` records the rule, and from then on
nothing is promised; `kept` and `due` are what the array and the last removed item
have to be until then.

### CLayout and Printf

`bytes` is the module's memory, with bytes of `Base` values.  The code walks through a type by
recursion; here `parts` is what is left of the walk, in order, and a step does its first part: a struct or an
array is replaced by its parts (`SetStruct`, `GetInto`), a number is written or read (`SetNumber`,
`GetLeaf`), and what a `DataView` refuses ends the walk (`SetFails`), with what was written before left
there.  The value a get returns is flat, since the nesting is the type's.  `setting` and `walk` are history: the last
set that did not fail, and what was left and written at each step of it.

`stage` is the part of a directive that `printf` is in, `p` its place in the format,
`args` what no `va_arg` has taken.  `sent` are the calls of the host's functions, `taken`
the types that were asked for.  The formats come from pieces with a known meaning,
rendered and cut at some place, so that `PrintfRight` can compare both.  `FormatsAssumption` says what
they may be: any texts and directives, with any flags, numbers and lengths, where no part of a directive can
be taken for the one before it, and a length that `printf` refuses comes last.

## 3. The runs

| Run | Instance | Shows |
| --- | --- | --- |
| `conn_safety` | 3 peers, list of 2, 3 descriptors | arrays in step, no stale record, paired callbacks, and connections lost at capacity only |
| `conn_liveness` | 2 peers, list of 2, 2 descriptors, callbacks that answer `CONN_RETRY` | complete sweeps, also where records are pushed a second time; dead connections swept, completed ones offered to `onconnect`, quiet ones pinged for ever |
| `ws_safety` | 2 clients; text, close, fragmented frames; stalls, silences, resets | refinement of the chat room and of `ConnServer`, a consistent log |
| `ws_client` | 1 client; short, unknown, split frames sent without waiting; failed handshakes | the same room with a stream that is torn apart |
| `ws_liveness` | 2 clients that ask, finish and read; text whole and in two pieces | the loop always comes back to `poll`, and what was sent is read |
| `ws_handshake` | 2 clients | *violated*: `wsHandshake` does not block |
| `stream_frames` | 2 frames of 0, 8 or 126 bytes, pieces of 5, 13 or all that is left, 6 headers that other bytes read like | frames intact and delivered on careful streams, boundaries lost in two ways only, replies readable |
| `stream_cut` | frames of 5, 8, 300 bytes | *violated*: nothing is decoded that has not come |
| `pool_safety` | 2 threads, 2 callers, 3 jobs; pause, destroy, jobs that add jobs, another pool | refinement of `JobPool`, `thpool_wait` only returns when all is done, a quiet pool when freed |
| `pool_liveness` | 2 threads, 2 callers of whom 1 waits, 3 jobs | no wakeup lost, every job run, wait and destroy return |
| `pool_resume` | 2 threads | *violated*: `thpool_resume` releases every thread |
| `libraries` | each of the sequential libraries, under any order of its calls | the hash map answers as a map would, keeps its table in order and gives an iteration everything; digests are of the standard's blocks; accept keys are those of RFC 6455; Base64 reads back and stays in its memory; arrays keep their items; a layout gets what was set; `printf` takes its arguments right |

In `libraries` the variable `lib` chooses the library at the start, and the others stay as they
begin: none of them calls another, except for those that `AcceptKey` composes.
Its states are the sum of those of the libraries, not the product.

**Why the bounds are enough.**  `MaxConnections = 3` gives a client list of two,
the least for which a swap-remove moves an element, two entries can be condemned
in one sweep, and the list can be full.  The third peer of `conn_safety` meets
the full list and reuses descriptors.  `NoStaleClient` and `PairedCallbacks` do not hold when callbacks answer
`CONN_RETRY`, so that `conn_safety` leaves it out; `conn_liveness` has it, and checks `SweepComplete` with it.  `Lockstep` is
checked without it and proved for any results (`LockstepHolds`).  One unread unit per peer distinguishes all
that the loop can see of a socket; the handlers, which read several units at
once, get three (`ws_client`).  Two clients are enough for a broadcast that stops half
way; three would add orders of recipients only.  The lengths of the stream runs are the
empty frame, a frame of exactly 14 bytes, and the shortest one with a
16-bit length; 32-bit lengths are covered by the theorems of `WsStreamProofs`.  Pieces of 5 cut
headers and remainders, and 13 is one byte less than the first read asks for.  `Noise` has one header for each branch: an
empty packet, a masked one with a remainder, one of a 16-bit length that swallows the next frame, a close frame, a fragment, and one
with a length that is refused; the theorems allow any.  Nothing is read out of
step once `MaxPackets = 3` packets are dispatched.  Three jobs on two threads
leave one job queued while both threads work, which is where the binary
semaphore needs its second post.  The bounds of `libraries`:

* Hash map: 4 buckets or 8 at the start, where `MinBuckets` is 16 in the code: four keys
  with colliding hashes are then enough to reach `growat`, to grow, to shrink
  again and to wrap a run around the end.  Three keys share the last bucket as their home
  in the smallest table, one parts from them in the next, and two never part; a
  fifth is looked for and never set.  Iterations are of tables of `IterBuckets = 4`.
* SHA-1: one message of 136 bytes in calls of 0, 8, 55 and 60, whose sums stop before,
  at and behind the boundaries of 55, 56 and 64 bytes, in words of 1024
  values and of 32, where the length overflows both.
* Accept key: the key of RFC 6455 and another one, whose answers were computed by
  an independent implementation, a request without a key, one cut behind the
  header's name, one cut within the key, and one with the header in lower case.
* Base64: all sources of up to 3 bytes over three values, and one of each length about
  a block, a line (54 bytes), two lines (108), and those at which a `size_t`
  of 9 bits wraps (127, 128, 140); all texts of up to 5 letters over
  a letter, `/`, `=`, a line feed and a foreign byte.
* Arrays: capacities 0, 1 and 3, up to 4 items of two values.
* Layout: bytes of 4 values in a buffer of 9, filled with 0 or 3; numbers that do not fit their type,
  structs in structs, missing fields, and fields that cannot be set; one set
  (`MaxSets`) and any number of gets after it; pointers
  that are and are not aligned, and one for which the larger types do not fit.
* `printf`: every directive cut at every place, and pairs of directives.

**Deadlock** is checked for `libraries`, where a call is always possible or under way,
and for nothing else: the process really stops (assertion, SIGPIPE,
`exit`), clients may go quiet in the middle of what they do, sends are bounded,
and a destroyed pool does nothing.

**Fairness.**  `LoopStep`, `ReturnStep`, `ServerStep`: `main` calls
`conPollEvents` in `for(;;)` (`server.c:115-119`) and nothing but a callback
interrupts it.  `PingDue`: the clock advances.  In `FairClients` clients ask for
the upgrade or leave, finish a frame they have begun, and read; `SendNext` is
strongly fair because only the server's own sends fill a window, so that a window
with room stays so until the server sends.  `Delivery`: TCP delivers to a
peer that stays.  In the pool: threads are scheduled, jobs end, signals are
handled, and a held thread looks at its flag every second (`thpool.c:341-343`).
In the hash map a call that has begun goes on; nothing makes a caller call.

`PingsWhenQuiet` asks that everybody is quiet: the ping loop runs only in ticks
without any event, and the scan of a busy tick resets the clock of every merely
silent client (`conn.c:256`).

## 4. What the code does otherwise than it says

1. `ws_handshake`: `ws.c:191` says "without blocking"; the flag used belongs to
   `recvmmsg`, and `recv` blocks until the client sends.
2. `stream_cut`: `ws.c:72` and `:83` mean to validate the size; a header that TCP
   cuts gives a negative payload size that is then compared as a `size_t`.
3. `pool_resume`: `thpool.h:99` says threads go on after `thpool_resume`; one
   that handles the signal late sets the flag again and holds.

The pool is not called by the server, so the third has no effect today.

Smaller disagreements have no run; the models follow the code in all of them.

* `hashmap.c:68` gives the load factor a range up to 90%, and `clamp_load_factor` up to
  95%.  A resize makes a table with the default load factor's threshold, so that a
  factor set by the caller is lost until it is set again or the map is cleared.
* The comment of `hashmap_iter` tells callers to begin anew after a delete; an insertion
  moves items past the cursor too, and so does a set that only replaces if
  the table is full enough to be resized first.
* `sha1.h` has an error code for input that is too long; the code sets `Corrupted` to 1,
  which is `shaNull`, and the `SHA1Input` that met it returns success.
* `base64_decode` refuses the empty text that `base64_encode` makes of no bytes.
* `wsHandshake` compares the header's name with its case, which HTTP does not.
* `DelArray` does not compile.  `cwat.js` calls accessors for 64-bit numbers that a
  `DataView` does not have, its array of u64 takes an offset for an address, its
  arrays cannot be set, and its structs are packed, where C pads them.
* `printf` keeps the flag `0` if a negative width comes from an argument, reads `hl` as `ll`,
  and gives nothing for `%Lf` but a zero.

## 5. The theorems

All of them hold for every value of the constants that the named assumptions
(`ConnAssumption`, `WsAssumption`, `StreamAssumption`, `PoolAssumption`, `HashAssumption`,
`ArrayAssumption`, `LayoutAssumption`, `FormatsAssumption`, `Base64Assumption`, `Sha1Assumption`, `AcceptAssumption`) allow: any number of peers,
descriptors, connections, lengths, frames, threads, callers and jobs, any pieces,
keys, hashes, tables, messages, texts, types, buffers and formats.

| Theorem | States | By |
| --- | --- | --- |
| `ConnServerProofs!TypeCorrect` | `Spec => []TypeOK` | one step per action |
| `ConnServerProofs!LockstepHolds` | `Spec => []Lockstep` | `ListInv` |
| `ConnServerProofs!SweepLeavesNothing` | `Spec => []SweepComplete` | `SweepInv` on top of `ListInv` |
| `ConnServerProofs!ClientsNeverStale` | `RETRY \notin Results => (Spec => []NoStaleClient)` | `FdInv` on top of `ListInv` |
| `ConnServerProofs!CallbacksPaired` | `RETRY \notin Results => (Spec => []PairedCallbacks)` | `PairInv` on top of `ListInv` and `FdInv` |
| `ConnServerProofs!LostWhenFullOnly` | `RETRY \notin Results => (Spec => LostOnlyAtCapacity)` | the same |
| `ChatRoomProofs!RoomHears` | `RoomSpec => []HearsEverything` of the abstract room | one lemma per step |
| `WsServerProofs!ContractKept` | `WsSpec => HandlersKeepContract` | `CallInv` on top of the invariants of `ConnServer` |
| `WsServerProofs!LoopServesHandlers` | the five properties of `ConnServer` for the whole server, with no assumption on `Results` | `ContractKept` and the theorems above |
| `WsServerProofs!LogMakesSense` | `WsSpec => []LogWellFormed` | `LogInv` on top of `CallInv` and `PairInv` |
| `WsServerProofs!ServerIsChatRoom` | `WsSpec => ImplementsChatRoom` | step by step, from `CallInv` and `LogInv` |
| `WsServerProofs!EverythingHeard` | `WsSpec => []HearsEverything` | `ServerIsChatRoom` and `RoomHears` |
| `WsStreamProofs!ServerFramesReadBack` | a browser reads every length below 2^32 | the base-256 digits of a number |
| `WsStreamProofs!ClientFramesReadBack` | `wsReadPacket` reads every length up to its limit | the same |
| `WsStreamProofs!FramesStayIntact` | `Spec => []FramesIntact` | `StreamInv` |
| `WsStreamProofs!RepliesReadBack` | `Spec => []RepliesRead`, for any stream and any `Noise` | `PlaceInv` |
| `WsStreamProofs!BoundariesLost` | `Spec => LostOnlyAtShortOrCut`, for any stream and any `Noise` | `PlaceInv` |
| `ThPoolProofs!PoolTypeCorrect` | `Spec => []TypeOK`, the two counters included | `PoolInv` |
| `ThPoolProofs!FreedIsQuiet` | `Spec => []FreedQuiet` | `PoolInv` |
| `ThPoolProofs!WaitIsDone` | `Spec => WaitMeansDone` | `PoolInv` |
| `ThPoolProofs!Announced` | `Spec => []JobsAnnounced`, if there is no other pool | one step per action |
| `ThPoolProofs!Awake` | `Spec => []SomebodyAwake` | one step per action |
| `ThPoolProofs!Remembered` | `Spec => []WaiterRemembered`, if only one caller may wait | `SleeperInv` on top of `PoolInv` |
| `ThPoolProofs!KeepsThePromise` | `Spec => ImplementsJobPool` | `OnePlace` on top of `PoolInv` |
| `RobinHoodProofs!MapInvHolds` | `Spec => []MapInv` | one lemma per action |
| `RobinHoodProofs!MapInOrder` | `Spec => []TableOrdered` | `MapInv` |
| `RobinHoodProofs!MapKeepsPromise` | `Spec => ImplementsKeyedItems` | `MapInv` |
| `RobinHoodProofs!IterationGivesAll` | `Spec => IterationComplete` | `IterInv` on top of `MapInv` |
| `LibraryProofs!ArraysKeep` | `ArraySpec => []ArrayKept` | `ArrayInv` |
| `LibraryProofs!ReadsWhatWasSet` | `LayoutSpec => SetThenGet` | `ReadInv` on top of `MemoryInv` |
| `LibraryProofs!PrintsAsAsked` | `PrintfSpec => []PrintfRight` | `PrintfInv` |
| `HandshakeKeyProofs!WritesFit` | `B64Spec => []OutputFits` | `B64Inv` |
| `HandshakeKeyProofs!TextsReadBack` | `B64Spec => ReadsBack` | `ReadInv` on top of `B64Inv` |
| `HandshakeKeyProofs!DigestsStandard` | `Sha1Spec => []DigestStandard` | `Sha1Inv` |
| `HandshakeKeyProofs!AnswersAreRight` | `AcceptSpec => []AcceptKeyRight` | `AcceptInv` on top of `Sha1Inv` and `B64Inv` |

`Lockstep` alone is not inductive.  `ListInv` adds `TypeOK`, whose ranges keep
`idx` within the arrays, and `PcOK`: there is a listener whenever the loop accepts,
so that the pushes append behind it, `newfd` is an open descriptor while `onconnect`
runs, and every other callback has a client at `idx`.

`SweepComplete` is a statement about `pc = "poll"`; the inductive form `SweepInv`
says that, inside the sweep, all entries before `idx` are kept ones.  The element
swapped into the hole is at `idx`, not before it, because the code does not
advance after a removal: this is where the argument would break if it did.

`NoStaleClient` needs two more facts in `FdInv`: the descriptor in `newfd` is not in
the list while `onconnect` runs (it was free when accept took it), and no record
has the status `RETRY`.  A callback that returns `CONN_RETRY` makes the scan list the same connection
twice, so that `NoStaleClient` really needs the assumption; the handlers of this
server meet it (`HandlersKeepContract`).

`PairedCallbacks` compares two counters of a peer with each other and with the client
list.  `PairInv` says where a connection can be when neither callback was called for
it: nowhere, in the kernel's backlog, or behind the descriptor in `newfd`; that it is
in one of these places only, and behind one descriptor only.  With `FdInv`, a client
record is then the one place where a connection is that was announced and not taken leave of.

`HandlersKeepContract` says that every step of the server is one of `ConnServer` or
leaves its variables alone.  Which step it is depends on where the loop is, and
`CallInv` says which handler runs there, what it has announced and what it still
owes.  Since no handler returns `CONN_RETRY` to the loop, the assumption of `NoStaleClient`
and `PairedCallbacks` is met, and all that is proved of the loop for callbacks in general
holds of this server (`LoopServesHandlers`).

`LogWellFormed` speaks of the log alone and is not inductive: that a peer is not
announced twice follows from its having connected once.  `LogInv` therefore compares
the log with the counters `joined` and `left`: whoever is in it has joined, or is about to be
listed; whoever has joined was announced in it; whoever left it is gone, or is about to be removed.  `PairInv` says that
this happens once.  The refinement of the chat room then goes step by step: a
broadcast that begins is a `Post`, `wsSendToAll` reaching a client a `Deliver` or, if its connection was
reset, a `Miss`; the return of `onconnect` after the broadcast is the `Enter`, that of
`ondisconnect` the `Leave`; everything else leaves the room alone.  The recipients that are due
are the addresses behind the index of the loop; they are the ones a set in the room has
because no address is listed twice (`FdInv`, `PairInv`) and no list changes during a broadcast.

`StreamInv` says that on a careful stream the server stands at a frame's start
when it is idle, that the dispatched packets are exactly the frames before it,
and that in the middle of a frame `need` is what is missing to its end.  The
rigid `careful` is an assumption of the theorem in the form of an antecedent.

`RepliesRead` and `LostOnlyAtShortOrCut` are about any stream, where `StreamInv` says nothing.  `PlaceInv` keeps two
things only.  Whatever bytes the server takes for a header, zeros for those that have not come included, the three
forms of a length have at most 32 bits (`PacketFields`), so that all lengths dispatched have, and the one kept for a
remainder.  And a server that waits for the remainder of a packet begun at a frame stands `need` bytes before
the end of some frame; one that is astray may stand anywhere.  Hence a step that loses the boundaries is a first read,
made at the start of a frame, that takes no remainder, and its arithmetic leaves the two cases (`WholeStaysAligned`).

`PoolInv` joins what the counters count with where the jobs are.  `Counts` says that
they are the numbers of threads at the places between their increments and
decrements, `JobsHeld` that a thread has a job only at places where it counts
as working, `Lives` which places the life of the pool allows, and `Accounted`
that a job is queued, running or done.  `thpool_wait` reads two numbers, without
the queue's lock, and concludes that all jobs are done: it may, since a counter
of 0 means that no thread is working, hence none has a job, and an empty queue
leaves only the done ones.  `FreedQuiet` is the same argument with the other
counter, and needs that `thpool_init` has seen all threads alive.  The
refinement needs `OnePlace` too: without it the job that ends could be run by another
thread as well.  `Announced` and `Remembered` have assumptions because they fail
without them: another pool sets the shared `threads_keepalive` back to 1 after
a thread has dropped its wakeup, and with two waiting callers the one signal of
`thread_do` wakes one of them.

`Ordered`, which a test can see, compares a bucket of the hash map with its neighbour;
`WellPlaced` compares any two buckets: an item is never further from its home than
another bucket's item plus the way from there.  It is what `set`, `get` and `delete` rely on when they stop
at the first item that is nearer to its home than they are: the key is then
not in the table.  `MapInv` says it of the buckets and of the carried entry (`InFlight`), of all
but the hole while `delete` shifts a run, and of the new table while a resize fills it; and that the
buckets, with what is carried or not yet moved, have exactly the items that the call
is to leave.  A bucket is always empty, so that the loops end and never come
back to where they began.

`IterInv` says that an iteration was given what a scan finds before its cursor.  A scan is
a recursive function of the number of buckets; that it finds as many items as
there are buckets in use is an induction, which is made over the least number of
buckets for which it would fail (`LeastOf`, `Counting`).

`ArrayKept` is inductive with the types.  Its core is the pair of `Grown` and `Shrunk`: a
removal that halves the capacity leaves room for one item more than there are, so
that the capacity is never 0 unless a caller asked for that, and twice the
capacity always has room for one more.

`SetThenGet` is about two walks through types.  `MemoryInv` says of the walk of a set that its parts lie in
order within the value (`InOrder`), which structs keep as a field begins where the one before it ends: a number that is
written never touches one written before, so that all of them stay in the memory (`Stored`), each as what
its type can hold.  `ReadInv` says how far the walk of a get is: for the same type it stops where the set's
walk stopped, with the numbers written there (`Along`).  For an array it is the fields of the
struct one by one (`ArrayNumbers`, by counting), or the bytes of a text, or a typed array over them.  A get
of the type of a set that ended meets no error, since the set would have met it too.

`OutputFits` compares what a loop has written with a formula evaluated before it.
`B64Inv` has the equation that joins them: while `base64_encode` runs,
216 * Len(out) = 292 * at - 3 * line_len, since 54 bytes become 72 letters and a
line feed; while `base64_decode` runs, 4 * Len(out) + 3 * Len(block) is 3 times the number of
letters read, whose total was counted first.  The formula is meant without wrapping:
`OlenIsMeant` shows that when `len * 4` wraps, the result is below `len`, and
the test `olen < len` refuses the call.

`ReadsBack` needs to know what is in a text, and an invariant of two loops that run one after the other
has to say it without running the first one.  `IsText` does: it gives
the letter at each place as a function of the place, where every 73rd place is a line feed.  `Encoded`
says it of what has been written so far.  `base64_decode` does not look at places, it counts
letters: `LettersCounted` gives their number by a bijection, `FoundGrows` says how many there are
before a place, and `ReadTo` what the decoder holds after that many.  `BytesComeBack` is the
arithmetic of one block, and `LastBlock` shows that the letters of padding are as
many as the bytes that `base64_decode` takes back.

`Sha1Inv` says what the context holds while a message is read (`Reading`: the whole blocks
in the hash, the rest in `Message_Block`, eight times their number in the two words) and after
the digest (`Digested`).  `PaddedIsStandard` compares the two ways of `SHA1PadMessage`
with the standard, byte by byte; `LengthFits` and `LengthDoesNotFit` are where 55 and 56
part.  A word may be any multiple of 8, so that `Length_Low` is exactly 0 when it has wrapped: that
is how the code notices, and once `Length_High` has wrapped too the context gives no digest.

`AcceptKeyRight` says that a whole handshake, step by step, gives what the standards give at once: the
answers of RFC 6455 are the constants `Answers`, which `AcceptAssumption` compares with `StandardAnswer`, the
definition of SHA-1 and Base64 by recursive functions; TLC evaluates that for the instance, with
answers of an independent implementation.  `AcceptInv` says for each place in the handshake how far it is: the key's bytes are
being read, or the blocks are the standard's and `n` of them are mixed, with the words and rounds of the next
one as the recursion has them (`MixedTo`), or the digest is being encoded.  `WordsUnfold`, `RoundsUnfold` and `HashUnfold`
show what the recursive functions are, from `RecursionExists`.  The counters of bits must not overflow
(`KeysFit`, a conjunct of `AcceptSpec`): a key has at most 127 bytes in `ws_key[128]` (`ws.c:199`), far below 2^32 bits.

`PrintfRight` speaks of pieces, and `printf` sees characters.  `PrintfInv` joins the two: either `printf`
stands behind the first `n` pieces (`AtPiece`), having told the host just what these mean, or it is
within the next one (`InPiece`), and then what it knows of the directive is what the characters it has passed
mean, part by part (`InDirective`).  The step from one part to the next is right because the character behind a part
cannot be one of it: `PieceChars` says which character of the format stands where, and the lemmas
about `CharAt` at the end of a part, whether what follows is the next part or the cut, do the rest.  The arguments
are counted: those left are the last of what the caller passed, and their number says how many of a piece's own
are taken (`WidthArgs`, `StarArgs`).  Which piece the cut falls into is
`WholeOf`, and that the texts of more pieces are longer makes it unique.

Only model-checked: everything temporal under fairness (`DeadConnectionsReaped`,
`BacklogAccepted`, `PingsWhenQuiet`, `TickCompletes`, `EverythingRead`, `FramesDelivered`,
`JobsRun`, `WaitEnds`, `DestroyEnds`, `CallsReturn`), which is out of the prover's reach.

## 6. What is left out

* The text of HTTP requests beyond its tokens, payload bytes and their masking, log
  output, and the lengths of the fixed buffers of the handshake.  `conRecvMessage` and
  `conCheckRecvMessage` have no caller, nor has `wsMakePingPacket`.
* A reset is seen by every later call at once; the transient states of a TCP
  connection, `EINTR` and partial sends are not modelled.
* In the pool: failed allocations and thread creations, pools of no threads,
  signals handled inside a critical section that is one step here, and
  `pthread_kill` of a thread that has ended.  With two callers in `thpool_wait` the
  code wakes one and the other sleeps on; `pool_liveness` therefore has one.  The last thread may still
  be unlocking `thcount_lock` when the pool is freed: `FreedQuiet` allows that.
* In the hash map: the 16 bits of `dib` (runs would have to be longer than 65534),
  load factors that are not numbers, a map without `compare` and the freeing of
  elements.  The hash of a key is given: SipHash and the others are not modelled.
* In SHA-1 and Base64: null pointers, and an allocation that fails within the handshake.
* In the layout library: floats, text beyond ASCII, the instantiation of a module, and a
  memory that grows, which detaches the views of it.
* In `printf`: the digits the host makes of a number, widths that overflow an `int`, and what
  `%n` stores.
* No run has fewer descriptors than peers, so that `accept` never fails for want of one (`conn.c:187`) in a check; the
  model has that branch, and the theorems about safety are for any number of descriptors.
* The process may be ended by one client: a fragmented frame, SIGPIPE in an answer or a ping.  The models have
  these ends and the properties allow them.
* An iteration of the hash map is followed only while nothing is added, deleted or resized between its turns; an array after a
  step that C leaves undefined is promised nothing; a request of whose key only a part came
  may be answered with anything; and a typed array that `cwat.js` returns is looked at when the get ends, not after
  later writes.
* Creating threads may fail: `thpool_init` ignores it and spins for ever (`thpool.c:206`).
* `http.h`, `urlparser.h` and `stringx.h` are third-party or unfinished headers that no
  translation unit compiles; `http.c` and `engine.c` are empty.  The web client is
  the client of `WsServer` and `WsStream`, as far as its socket goes.

## 7. Plan

1. Done: `ConnServer`, `WsServer` over `ChatRoom`, `WsFrame`, `WsStream`, `ThPool` over `JobPool`,
   `RobinHood` over `KeyedItems`, `Sha1`, `Sha1Block`, `Base64` and `AcceptKey` over them, `NgArray`,
   `CLayout`, `Printf`, and the proofs above.
2. Done: theorems for every safety invariant, action property and refinement the runs check, those
   under fairness excepted.
