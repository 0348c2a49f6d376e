# A TLA+ verification of plugin-ipc

plugin-ipc lets plugins and daemons of one host call each other. It is three
implementations (C, Rust, Go) of one set of contracts, in layers:

* **Level 1, transports**: a Unix `SEQPACKET` socket per session (the baseline),
  and on Linux an optional shared-memory region per session with futex wakeups.
  Windows has named pipes and its own shared memory.
* **Codec**: fixed binary layouts for the envelope, the handshake, batches and
  the typed payloads.
* **Level 2**: a client context that connects, calls, retries and learns payload
  sizes, and a managed server with an acceptor and one thread per session.
* **Level 3**: a cache of the cgroups snapshot with a lookup table.

The modules here follow the **Rust crate** (`src/src/crates/netipc/src`), on POSIX
and on Windows. A definition is translated from the lines `PROJECT.json` maps it
to; the docs (`src/docs`) are used for what the program promises, never for what
it does. Where POSIX and Windows run twin code, one definition models both and is
mapped to one of them.

## Modules

| Module | Models | Code |
|---|---|---|
| `ShmSession` | a client and a session thread calling over one region | `transport/shm.rs` send, receive; the loops of `client_call.rs` and `server_session_unix.rs` around them |
| `CallChannel` | what such a session promises: submit, take, answer, collect | abstract |
| `ShmSessionProofs`, `WinShmProofs`, `ShmRegionProofs`, `UdsEndpointProofs`, `ManagedServerProofs`, `RawClientProofs`, `UdsSessionProofs`, `WinServerProofs` | theorems about the module each is named after | |
| `ShmRegion` | region files: create, stale check, sweep, attach, destroy, crash | `transport/shm.rs`, `server_unix.rs` |
| `UdsEndpoint` | the socket path: stale recovery, bind, listen, drop, crash | `transport/posix.rs` |
| `UdsSession` | a session over a socket or a named pipe: chunked messages, in-flight ids, deadline and abort, close | `transport/posix.rs`, `transport/windows.rs` |
| `Handshake` | what each end decides on a HELLO and its answer, as operators | `transport/windows.rs`, `transport/posix.rs` |
| `RawClient` | client states, retry loop, capacity learning | `client.rs`, `client_call.rs`, `client_unix.rs`, `dispatch.rs`, `server.rs` |
| `ManagedServer` | the POSIX acceptor, worker limit, session threads, stop | `server.rs`, `server_unix.rs`, `server_session_unix.rs` |
| `WinShm` | a client and a session thread calling over one Windows region, with events or busy waiting | `transport/win_shm.rs` send, receive, close; the loops of `client_call.rs` and `server_session_windows.rs` |
| `WinServer` | the Windows acceptor, pipe instances, regions prepared before the handshake, clients connecting and attaching, stop, crashes | `server_windows.rs`, `server_session_windows.rs`, `client_windows.rs`, `transport/windows.rs`, `transport/win_shm.rs` |
| `LookupCodec` | lookup requests, response items and their validation, in byte offsets | `protocol/lookup/*.rs` |
| `LookupBuilder` | the response builders, with the room kept for PAYLOAD_EXCEEDED marks | `protocol/lookup/*.rs` |
| `LookupCall` | one logical lookup of many keys: split, retried, stitched | `raw/cgroups_lookup.rs`, `raw/apps_lookup.rs`, `client.rs` |
| `SnapshotCodec` | the snapshot builder, its compaction and the decoder | `protocol/cgroups_snapshot.rs` |
| `CgroupsCache` | refresh, lookup table and close of the cache, and the provider's side of a snapshot | `raw/cgroups_cache.rs`, `raw/cgroups_snapshot.rs` |

`MC*` modules extend these for TLC and add symmetry sets. Definitions whose
comment starts with "Mutant:" are variants with a plausible slip; no
specification uses them. Each is substituted in turn to see the property of the
`mutants` list fail.

### How the parts meet

`ManagedServer` creates a region (`ShmRegion`) before it accepts on the endpoint
(`UdsEndpoint`), shakes hands and starts a session thread; `RawClient` connects,
then each of its attempts is one exchange over `ShmSession` or `UdsSession`. Each
module takes its neighbours by their outcomes: `RawClient` sees a handshake as
granted or refused and a response as fitting or not; `ManagedServer` sees a
client as connecting, saying hello, leaving; `ShmSession` starts with the region
attached and contains the Level 2 loops of both ends, because the alternation of
calls is what makes the region safe.

On Windows `WinServer` holds acceptor, handshake, regions and connecting clients in
one module, because the order of those steps is what it is about; what a session
then exchanges is `WinShm`, or `UdsSession` over the pipe. `ShmSession` and `WinShm`
implement the same `CallChannel`. `LookupCall` and `CgroupsCache` sit on a call
that answers, fails, or comes back with a larger buffer: what `RawClient` returns.

### Correspondence of state

* `ShmSession`: every word of the region is a function of the actor that writes
  it, because both ends run the same code with roles swapped. The copy of a
  payload is two steps (`lo`, `hi`), so an overlap shows as a mixture. `sig` wraps
  at `SigMod`, for 2^32. `expired` is the passing of the call's deadline or an
  abort. Memory is sequentially consistent in the model: the code publishes with
  release and reads with acquire, and no step of the futex protocol depends on a
  store being seen before a later load (the kernel compares the signal word).
* `UdsSession`: a payload is its length and whether its batch directory is
  consistent; a byte is known by the message and place it was cut from, so
  `recv_buf` shows its history. `left` counts poll slices of 100 ms. `transport`
  says which system calls are below; sockets and pipes differ when a buffer is too
  short for a packet (cut, or ERROR_MORE_DATA with the rest left in the pipe), when
  a poll ends empty, and in close (a pipe is flushed first).
* `RawClient`: sizes are in units of the 16-byte floor of `next_power_of_2_u32`.
* `ShmRegion`, `UdsEndpoint`: a file is what a server or a crash left at the path;
  each system call that another process can see is a step of its own, and may fail.
  Three history variables tell what the properties must tell apart: `failed`, the
  servers one of whose own calls failed; `deceived`, that a probe failed on a server
  that was up, which the code takes for a stale endpoint; `overlapped`, that two
  servers were starting, creating or stopping at once.
* `LookupCodec`, `SnapshotCodec`: offsets and lengths are the code's, in bytes; a
  payload is its length, its directory and the cells written at each offset, so a
  read that misses what was written finds `Garbage`. A key is its identity, its
  length and whether it is free of NUL bytes: `encode_cgroups_lookup_request` answers
  BadLayout for an empty path or one with a NUL.
* `LookupCall`: `asked` is the number of keys planned before the request is encoded.
  A raw call that reconnects gets whatever the server it finds there grants, with a
  response buffer of its own, so the request at hand may be too long for the new
  session (`Unsendable`). `ProposalAssumption` is what `client.rs` makes of a
  proposal: a power of two, not below what is granted.
* `CgroupsCache`: `buckets` is the open-addressing table, `history` the tables the
  provider published. The cache stores a name or a path that is no UTF-8 as
  `from_utf8_lossy` makes it (`Text`), so several names can become one, and a lookup
  finds the first of them; what the cache is compared with is the snapshot so
  converted.
* `WinShm`: as `ShmSession`, with `waiting` and `closed` flags, auto-reset events and
  copies that read `Torn` when they overlap a write. Memory is sequentially
  consistent here too; `waiting` is set before the sequence is read again, and the
  code has a `SeqCst` fence between the two. The sender's side has none: there the
  model relies on its atomic increment being ordered before its load of `waiting`,
  as it is on x86-64.
* `WinServer`: kernel objects exist while `held` has a handle to them; names resolve
  to whichever object has them, also across a restart (`gen`). `fits` are the kinds
  of object whose name is short enough, which the service's name decides.
* `ManagedServer`: one program counter for the acceptor and one per session.

## Runs

All runs are in `PROJECT.json`; deadlock checking is off where bounded callers
may simply have nothing left to do. Every module's `TypeOK` is checked as a
conjunct of one of its invariants.

| Run | Shows |
|---|---|
| `ShmSession` | intact receives, the inductive invariant (from which `ShmSessionProofs` derives copies that never overlap, wakeups that are not lost and answers that belong to their calls), refinement of `CallChannel`; `CallEnds`: the client's call returns whatever the server does; `MessageArrives`: with no timeout to save it (`timed` is false), the futex protocol alone delivers |
| `RawClient` | a call retries an ordinary failure once and overflows a bounded number of times, in any mixture; an overflow is given up only when it was hopeless; a proposal the server refuses stays refused; every call returns |
| `UdsEndpoint` | a listener that is up is reached by its path, unless starts or stops overlapped or a probe failed on it; a start none of whose own calls failed is refused for a cause only, whatever others left |
| `ShmRegion` | under the same conditions a serving region is reachable and clients map the region of their own session; a create none of whose own calls failed is refused for a cause only, a reused pid being one: whatever else a crash leaves is reclaimed |
| `ManagedServer` | regions and sessions match: none leaks, none is taken away, ids are apart; `stop()` ends `run()`; a slot on the socket transport is freed when its client left |
| `UdsSession` | over socket and pipe: what receive returns is one message of the peer byte for byte; a request given up stays given up; every id in flight has its answer on the way; the two ends block each other only when a caller pipelines or an operation failed |
| `LookupCall` | a lookup that succeeds, also after reconnects to a server with other limits, answers every key, in order, from one generation; a response is refused only when the generation changed; the room for marks is always there; requests carry as many keys as fit; the call returns |
| `WinShm` | every message published before a close is taken before Disconnected is reported, refinement of `CallChannel`, messages arrive without a timeout, a close is noticed; in both profiles |
| `WinServer` | no section or event leaks, but for what a name too long leaves open; an acknowledged profile has its region with room for the limits, a client being served holds objects of its own session only and never mixes two, clients of one server never share a region, only entitled clients become Ready, `stop()` ends `run()`, connects end |
| `CgroupsCache` | the cache holds one snapshot of the provider, whole and as converted to UTF-8, also after refreshes that failed; lookups are exact; every answer decodes; while calls succeed the cache catches up |

### Where the code and its documents disagree

Each of these runs checks one sentence of a document or comment and TLC finds a
behaviour of the code against it (`findings` in `PROJECT.json` quotes them):

* `UdsSessionSlice`: with an abort flag, which Level 2 always passes, a receive
  times out after one 100 ms poll whatever its deadline. `raw_recv_with_wait` of
  `windows.rs` does the same.
* `WinServerVanished`: a client that opened the pipe and left before the server
  called `ConnectNamedPipe` makes this accept and every later one fail.

These other departures are in the models as the code has them, without a run of
their own:

* Two overlapping starts can both succeed, one of them unreachable
  (`posix.rs:1079`; `level1-transport.md:537`).
* A live server's endpoint can be deleted: `connect()` failing for any reason but
  ENOENT (`posix.rs:1076`, which `level1-posix-uds.md:141` describes), or `open` or
  `mmap` failing on its region (`shm.rs:763`, `794`, `1005`, `1028`) makes another
  server's check unlink it. `level1-posix-shm.md:262` says "a live server's endpoint is
  never deleted".
* The stale check of a region compares its generation with zero only, so a reused pid
  keeps a dead server's region (`shm.rs:1051`); `level1-posix-shm.md:268` says the
  check catches PID reuse. `RefusalIsJustified` of `ShmRegion` has this among its
  causes.
* A service name of 194 to 196 characters passes the pipe and the section and is too
  long for an event: `server_create` of `win_shm.rs` returns by `?` (lines 451 and
  472) with the section and its view open, or with an event too, at every accept.
* A Windows server that does not offer the baseline and whose region cannot be
  created never calls accept (`server_windows.rs:29`): its clients wait until a
  create succeeds.
* A `stop()` made before `run()` raises its flag is lost (`server_unix.rs:29`); on
  Windows it also closes the listener under the loop that goes on.
* A client leaving a POSIX SHM session is not noticed until `stop()`
  (`server_session_unix.rs:41`; `level1-transport.md:433`).
* INTERNAL_ERROR and BAD_ENVELOPE responses do not close the session
  (`server_session_unix.rs:260`; `level2-typed-api.md:540`).
* A LIMIT_EXCEEDED handshake leaves Disconnected, not Incompatible
  (`client_unix.rs:74`; `level2-typed-api.md:371`).
* A session goes on after a protocol violation (`level1-transport.md:420`).
* A starting server sweeps before it binds, so it can remove a region that a live
  server is still creating; a region whose generation is 0 looks stale to all.
* Overlapping servers can hand one region path to two clients
  (`level1-posix-shm.md:23`). Windows session ids start again after a restart, so
  clients of the old and the new server can share a region name
  (`level1-windows-shm.md:32`); `RegionsApart` says how far they are kept apart
  all the same: a client being served has only its own session's objects, and one
  that mapped its own region never has an event of another.
* A client that connects and stays silent holds the acceptor in its handshake
  (`posix.rs:1299`); on POSIX `stop()` is not seen meanwhile.
* A lookup item can be marked OVERSIZED_ITEM although a larger response buffer
  would hold it (`level2-typed-api.md:84`, `codec-cgroups-lookup.md:168`).
* On Windows a rejected client may lose the reason, because the pipe is
  disconnected before the answer is read (`level1-transport.md:246`); a listener
  whose replacement instance cannot be created goes on without any.
* The close event of a Windows region can be absorbed by an earlier signal; the
  close is then noticed at the next timeout.
* A refresh that gets a malformed payload keeps the connection, and a handler that
  gives up on a full snapshot builder gets INTERNAL_ERROR, which grows no buffer
  (the Level 3 document says otherwise of both).
* A `max_items` override too large for the response buffer panics in
  `CgroupsBuilder::new`; in the model the refresh then
  fails.

### Bounds

`ShmSession` has three calls and `SigMod = 3`, the least value that distinguishes
the signals that can be outstanding; with 2 the wakeup is lost, which is why the
assumption is there. `RawClient` uses a default of two units and a cap two
doublings away, so that growth, the cap and the overflow limit are all met.
`UdsSession` uses a packet of two payload bytes, so that lengths 2 and 5 are one
and three packets, with one length over the limit, short and full buffers and
queues of one packet, so that every longer message blocks its sender half way. Its
`VIEW` identifies states that differ only in what was left of a deadline when a
receive ended: the next receive sets it again, and none of the properties of that
run speaks of it. That of `ShmRegion` leaves out `why` and those failures and
clients that no guard reads and no property looks at any more (its comment says
which). `UdsEndpoint` has four listeners, `ShmRegion` three servers and
two clients, `ManagedServer` one worker and one client more than that.
`LookupCall` takes request grants and response buffers around the sizes of its few
keys and answers, so that requests are split, marks are sent, the buffer grows and
the ceiling is met. `WinShm` has two calls: the second meets what the first left in
flags and events. `WinServer` has two connections, one worker, two server
processes, one mishap, and HELLOs that ask for shared memory, offer only the pipe
with a smaller packet, carry another token, exceed a limit or are malformed; one of
its configurations has a name too long for the second event. `CgroupsCache` has
names that collide and wrap in the table, two that are no UTF-8 and become a third,
buffers an item too small, and two publications. Every bound is a constant named in
its module.

### Fairness

Safety needs none. The liveness properties assume that a thread which can take its
next step does (weak fairness of each thread), which an operating system gives;
`CallEnds` also assumes that a timeout that keeps being due is delivered.
`StopReturns` assumes that clients which connect say hello or leave, and that
handlers and sends return. The first is about this library's clients, which send
HELLO as soon as they are connected; the server itself does not enforce it.

`WinShm` adds that a timeout compared in every round is seen, and that a slice is
not over before its first look at the region. `WinServer` assumes only that some
thread that can run does, and that the deadline of an attach loop passes: clients
that connect go on, and those in a session may stay for ever. `LookupCall` and
`CgroupsCache` assume that client and server threads go on, and the latter that the
caller keeps refreshing, as the cache's documentation asks.

What in `UdsEndpoint` and `ShmRegion` needs one start at a time, as a service manager
does it, or a probe that tells the truth, is stated for the behaviours in which
`overlapped` and `deceived` are still false.

## Proofs

Each `*Proofs` module extends the module it is about and proves, for every value
of the constants, what TLC checks on a small instance. The assumptions are the
named `ASSUME`s of the extended modules. Every inductive invariant was checked with
TLC before it was proved.

`ShmSessionProofs`, for every number of calls, every `SigMod >= 3`, and timed and
untimed receives alike:

* `Inductive`: `IndInv` always holds. It joins the type invariant with three
  parts. `Turns`: the two ends alternate, so from the program counters and the
  sequence numbers one knows whose turn it is. `Contents`: what the payload area,
  the length and the buffers hold at each place. `Signals`: how far the signal
  word can be ahead of the value a receiver read before waiting. None of the
  checked properties is inductive alone: a receive is intact because the writer
  cannot be in the area, which follows from the turns, which need the contents to
  know that a call accepts only its own answer.
* `TypeCorrect`, `ReceiveIsIntact`, `CopiesNeverOverlap`, `WakeupsAreNotLost`,
  `AnswersMatchCalls` follow from it.
* `SessionRefinesChannel`: every step is a step of `CallChannel` or a stutter
  under the mapping at the end of `ShmSession`.

`WinShmProofs`, for every number of calls, both profiles, timed or not:

* `Inductive`: the same turns and contents, without signals, and `Closing`: a
  thread that set its closed flag sends nothing more, and whoever is about to take
  its last look has seen that flag. A receive that reports Disconnected has counted
  one message it did not get, so the chain of counters is stated over `Got`, the
  messages really received.
* `DisconnectIsDrained`: the look after the flag finds whatever was published.
* `SessionRefinesChannel`: the same abstract channel as on POSIX.

`UdsEndpointProofs`, for any set of listener objects. The invariant says what each
place of `bind` and `Drop` knows of the path while starts have not overlapped and no
probe was deceived (`Owned`), that a start whose own calls work comes to `bind()` with the path free
(`Free`), that overlap is remembered, and that a socket is at the path only after its
own bind. `ListenersStayReachable` and `RefusalsAreJustified` follow; the second
is about steps, and holds for overlapping starts too.

`ShmRegionProofs`, for any number of servers and clients. A process makes the
region once, so its header tells how far it came whatever others do (`Once`);
`Owned` says what its place tells of the path while servers start and create one at
a time and no probe was deceived; a client is answered only once the region is complete (`Acked`).
`ServedRegionsStay`, `ClientsMapTheirOwn` and `RefusalsAreJustified` follow.

`ManagedServerProofs`, for any number of connections, workers and ids.
`RegionsMatchSessions` alone is not inductive: a new session could take an id that
is in use. `Acceptance` says what the acceptor holds at each place, and `Sessions`
that a live session has an id below `next_session_id` which no accept in progress
has. `RegionsBelongToSessions` follows.

`RawClientProofs`, for every overflow limit, request and response size, server
configuration, default and cap that `SizesAssumption` allows (the two powers of two,
the default not above the cap).

* `Inductive`: `Counting` relates the counters of the retry loop to its place,
  `Sessions` says that a session exists exactly in the Ready state and with which
  limits, `Learned` that what the server has learned stays under its
  ceilings, and `Causes` why the attempt at hand overflowed.
* `RetriesAreBounded` needs the counters: an attempt more than the overflows allow
  was the retry of an ordinary failure.
* `NoEarlyStop`: the loop gives up when an overflow taught it nothing. That this is
  never too early rests on `Causes` and on what rounding up to a power of two does;
  the lemmas on `NextPow2` prove that it exists, is not below its argument and does
  not pass a power of two that its argument does not pass.
* `OversizeIsFinal` is about steps and needs only that the proposal never shrinks.

`UdsSessionProofs`, for every packet size, queue length, set of messages and ids and
every mixture of timeouts, aborts, cuts and failures, over socket and pipe.

* `Inductive`: `Reassembly` says that what receive has put together from full packets is
  the beginning of the message whose header it holds, `Settled` that an id that was
  answered or given up is not in flight again, `InflightIsComing` is part of the
  invariant itself, and `Faultless` describes a session where nothing failed: the
  packets of a message are on the line in order, they continue what the receiver has,
  and each message is in one place. Each action is
  first shown to be one of a few kinds of step (a request, an answer, a packet taken,
  an end, a step that moves no message), and each part of the invariant is
  preserved kind by kind.
* `ReceivesIntact`, `GivenUpForGood`, `NoneForgotten` and `NeverBothBlocked` follow.
  The last is not visible from the queues alone: with one message in one place, the
  two ends cannot both have something to send.

`WinServerProofs`, for any number of connections, session ids, server processes and
mishaps, and any configuration of server and clients.

* `Inductive`: fourteen parts. `Seats` and `Sessions` say which connection the
  acceptor and each thread hold, `Objective` which names exist and at which sizes,
  `Owned` that a handle of the server is accounted for by an offer or a session, or
  is one that a name too long left over (`Stray`),
  `Acks` and `Backed` what an answer promised and what stands behind it, `Opened`,
  `Unmixed` and `Matched` what a client can have found under a name. Each action is
  shown to be one of twenty kinds of step first, as above.
* `NothingLeaks`, `AnswersAreBacked`, `ApartForGood` and `OnlyEntitled` follow.
  Names are reused after a crash, so that a client meets only its own objects is not
  a matter of names: an object made under a name that still exists is refused, and
  the server's own handles keep the name taken while the session lasts.

Model-checked only: every `~>` property and others that need fairness; and
`LookupCall` and `CgroupsCache`, whose properties are about messages laid out item by
item with folds over sequences, and about probing and searching them: to prove these
takes induction over the items, which is out of the provers' reach.

## Not modelled, and why

* The C and Go implementations follow the same contracts but are other programs;
  nothing here is about them. The interop and benchmark programs are tests.
* Batches: `BatchBuilder`, the directory arithmetic and the dispatch of a batch item
  by item. `UdsSession` only knows whether a directory is consistent.
* The increment and string-reverse calls have fixed layouts and no state of their
  own; the service facades only forward.
* The handshake's packet size detection, and limits near 2^32 (`server_unix.rs:141`
  computes the region's size in 32 bits).
* Branches that need a length over 2^32 - 33 bytes (the BadParam cases of
  `send_inner`) are outside every negotiable limit.
* Wording, logging and statistics counters.
