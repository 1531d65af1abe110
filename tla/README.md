# TLA+ models of sas / rxc

This directory holds TLA+ models of the repository `fabianishere/sas`: the
reactive-stream engine `rxc` (src/rxc) that the spec (spec.md) calls the core,
and the audio server and client (src/sas-server, src/sas-client, src/sas-core)
built on it. Every module is written from the C source; `PROJECT.json` maps
each definition to the lines it models.

## 1. Inventory

### Components and their state

| Component | Source | State | Operations |
|---|---|---|---|
| Connection protocol | rxc/src/logic.c | `requested` (C long: LONG_MIN = closed, LONG_MAX = unbounded) | inlet `pull(n)`, `cancel`; outlet `available`, `emit`, `fail`, `complete`; `rxc_connection_create` |
| Source logics | rxc/src/ops/count.c, empty.c; sas-server/src/formats/wav.c; sas-client/src/source.c | count: `count`; wav: `finished`, the file; client source: none (it acks) | `on_pull(n)`, `on_downstream_finish`, `create_logic`, `connect` |
| Sink logics | rxc/src/ops/foreach.c, canceled.c; sas-server/src/sink.c; sas-client/src/drivers/oss.c, ignore.c | oss: `fd`, `finished`; session sink: the session | `on_connect`, `on_push`, `on_upstream_finish`, `on_upstream_failure` |
| Operators | rxc/src/ops/wrapper.c, map.c | the inner sink/logic pointer | `connect_source`, `connect_sink`, map's forwarding logic |
| Trampoline scheduler | rxc/src/schedulers/trampoline.c | per worker: FIFO queue, `wip` flag | `schedule` (enqueue, then drain unless already draining), `create_worker` |
| Pipeline | rxc/src/pipeline.c | scheduler inlet: `parent` (NULL after cancel), `worker` | `rxc_pipeline_start` (wraps the sink in a scheduler adapter), scheduler inlet `pull` (scheduled) and `cancel` (direct) |
| Server sessions | sas-server/src/session.c | hash table of sessions (chained), per session `state`, `seq`, `ack`, windows, pipeline, `fd` | `session_get`, `find` (never called), `delete`, `state_machine`, `send`, `reset`, `error`, `syn_ack` |
| Server timeouts | sas-server/src/timeout.c, server.c | binary min-heap of sessions by deadline | `timeout_add` (up-heap), `timeout_pop` (heapify), `sas_server_timeout`, the `select` loop of `sas_server_run` |
| Client session | sas-client/src/client.c | `state`, `seq`, `ack`, windows, pipeline, `sink_logic`, the reused chunk | `syn`, `ack`, `state_machine`, `receive` loop |
| Transport encoding | sas-core/src/transport.c | none | byte-order encode/decode of headers |
| Entry points and log | */main.c, sas-core/src/log.c | the client's exit status | CLI parsing, socket setup, I/O |

### How they interact

Everything is single-threaded and synchronous. `rxc_pipeline_start` wraps the
sink in a scheduler adapter and calls `source->connect`, which creates both
logics, the connection, and calls the sink logic's `on_connect`. From there
control flows by nested calls: a sink's `pull` runs the source's `on_pull`,
which calls `emit`, which calls the sink's `on_push`, which may `pull` again,
and so on. Without the adapter this recursion grows the C stack once per
element; the adapter sends every `pull` of the user sink through a trampoline
worker, which queues it when the worker is already draining, so the chain
becomes a loop. `cancel` is not queued: the adapter clears its `parent`
pointer and cancels at once. The map operator sits between connection and
adapter and forwards every signal to the inner logic.

The server is a `select` loop over one UDP socket. Each datagram finds or
creates a session (hash table keyed by address), runs the session state
machine (SYN: open the WAV file and start a pipeline wav -> session sink;
ACK: `pull(1)` on the pipeline), then re-arms the session's deadline in the
timeout heap. The session sink sends each chunk as a datagram, a FIN|RST on
completion, an ERR|RST on failure. The client sends SYN, then for every
datagram pushes the chunk straight into its sink logic (not through a
connection) and acks.

### What is hard here

* Re-entrancy: callbacks run inside the calls that trigger them. The count
  source's `on_pull` loop continues after an `on_push` that pulled, cancelled
  or completed re-entrantly; the trampoline's `wip` flag decides whether a
  nested `schedule` runs or queues.
* Ordering: pulls are deferred through the worker queue but cancel is not, so
  the source may see a cancel before a pull the sink issued earlier.
* Numeric edges: the demand counter saturates at LONG_MAX through a signed
  overflow, and uses LONG_MIN as the closed sentinel.
* Terminal signals: complete, fail and cancel may each be attempted more than
  once; only the first may be delivered, and nothing after it.
* Undefined behaviour: map's `on_upstream_failure` reads `inner` through the
  wrong struct; the scheduler inlet's second `cancel` dereferences NULL.
* Server lifetime: a session can be deleted (RST, error, timeout) while it is
  still referenced by the timeout heap, and the run loop writes to it after
  the state machine deleted it; sessions are compared with an `addr_eq` that
  reports different addresses equal; `heapify` compares the right child but
  picks the left one.
* Unreliable transport: UDP datagrams may be lost, duplicated or reordered;
  sequence numbers only drop old packets, nothing retransmits.
* Partial failure: several mallocs on the server's paths are used
  unchecked (the scheduler inlet's request, the pipeline of a new session),
  so one failed allocation kills every session; a rejected WAV header sends
  a stale errno, and an error code of 0 does not end the client's receive.

### What makes each component correct

* Connection: at most one terminal signal in total and nothing after it; no
  more pushes than pulled demand unless the demand reached LONG_MAX; the
  counter encodes the abstract demand of spec section 9.
* Sources/sinks/map: elements reach the sink in order and transformed; a
  failure reaches the inner sink; completion follows once the source is
  exhausted and pulled again.
* Trampoline/pipeline: scheduled pulls run in FIFO order; drains never nest,
  so the stack stays bounded; every scheduled pull eventually runs; cancel is
  idempotent and ordered after earlier pulls (spec 4.5, 5, 8).
* Server: a session is reachable in the table iff it is live; a deleted
  session is never touched again; every live session has a deadline in the
  heap; the heap keeps its min-heap order so the earliest deadline expires
  first.
* Client/server transport: a stream that is not disturbed ends with FIN, and
  a lost datagram leaves both sides waiting (spec 9, open question).

## 2. Plan and progress

Modules, in the order they are built (most important behaviour first):

1. `Demand` - abstract demand protocol (spec 3, 9). `Connection` - logic.c as
   an open system, refining `Demand`. **(done)**
2. `Stream` - the composition: count / empty / wav source, optional map,
   direct connection or pipeline adapter with trampoline worker, and the
   repository's sinks (foreach, canceled, oss, the server session sink, the
   recording sink of spec 8) plus an arbitrary sink that makes any legal
   inlet call. **(done)**
3. `TimeoutHeap` - the server's min-heap as recursive operators over
   sequences, checked against the min-heap reference. **(done)**
4. `Server` - session table (`addr_eq`, get, delete), state machine, timeout
   heap and the run loop; session lifetime. **(done)**
5. `Transport` - client and server state machines over a lossy,
   duplicating, reordering network; the client's sink gets chunks in file
   order, and the client always returns. **(done)**
6. Construction paths (create_logic, connect, create_worker, the adapter,
   sas_formats_wav, open_audio_fd), the session struct and table types, the
   server's send helpers, the client's source and `ignore` sink, and a lost
   pull on allocation failure (trampoline.c:39). **(done)** The client's
   real ACK pattern (three for the configuration, two per chunk) replaced
   the stop-and-wait assumption of step 5 and showed that the client can
   finish with chunks missing (`transport_file`). That run took the slot of
   the former `stream_cancel_order` run (see Not modelled).
7. Server crashes on the unchecked allocations of the pull request
   (pipeline.c:101-103) and of the pipeline (session.c:339), the stale
   errno a rejected WAV header sends, and the client's session type.
   **(done)**
8. addr_hash translated, so that sessions collide through real address
   bytes rather than an assumed bucket function, and the server crash on
   get's unchecked NULL (server.c:151-154). **(done)**
9. Next steps (all twelve runs are in use, so new questions replace or
   join existing runs): stale heap keys, wrapping sequence numbers.

## 3. Modules and runs

| Run | Module / cfg | Expect | Properties |
|---|---|---|---|
| connection | MCConnection / MCConnection.cfg | pass | DemandAccounted, QuietAfterTerminal, Backpressure, DemandRefinement |
| stream | MCStream / MCStreamAll.cfg | pass | TypeOK, InOrder, QuietAfterTerminal, StackBounded, PullsInOrder, Terminates |
| stream_double_cancel | MCStream / MCStreamDoubleCancel.cfg | violation | CancelIdempotent |
| stream_map_failure | MCStream / MCStreamMapFailure.cfg | violation | FailureDelivered |
| stream_round_trip | MCStream / MCStreamRoundTrip.cfg | violation | RoundTripCompletes |
| heap | MCTimeoutHeap / MCTimeoutHeap.cfg | pass | TypeOK, HeapConserves, AddKeepsOrder |
| heap_pop | MCTimeoutHeap / MCTimeoutHeapPop.cfg | violation | PopReturnsMinimum |
| server | MCServer / MCServer.cfg | pass | TypeOK, NoForgottenSession, SessionsExpire |
| server_use_after_free | MCServer / MCServerUseAfterFree.cfg | violation | NoUseAfterFree |
| server_addr_eq | MCServer / MCServerAddrEq.cfg | violation | OwnSession |
| transport | MCTransport / MCTransport.cfg | pass | TypeOK, ClientInOrder, ClientReturns |
| transport_file | MCTransport / MCTransportFile.cfg | violation | ClientGetsFile |

Every property of a passing run has a mutant in `PROJECT.json`. A mutant is
a variant of a mapped definition, written just above it, the way a
plausible slip in the C would change it; TLC finds the property violated
with the variant in place.

### Demand / Connection

`Connection` has one variable per piece of C state: `requested`. The
callbacks it made are the history `delivered`, and `calls` bounds the model.
The actions are the C functions `InletPull`, `InletCancel`, `OutletEmit`,
`OutletFail` and `OutletComplete`. Each has two disjuncts: the early-return
branch and the branch that takes effect. A C long is W bits wide. The
overflowing add is wrapped in two's complement and then clamped, as the code
does.

Run `connection` uses W = 4 (LONG_MAX = 7), pulls of 1, 3 and 7, and six
calls. That is enough for overflow from two kinds of sum (3+3+3 and 7+1) and
for every ordering of terminal calls. It checks four things:
- `DemandAccounted`: while the connection is open, `requested` is exactly
  the demand pulled and not yet pushed, until that demand first reaches
  LONG_MAX; from then on it is LONG_MAX. This pins down the wrap and the
  clamp of logic.c:28-33 and the decrement of emit. Without the clamp, an
  overflowed sum would stay negative and block every emit.
- `QuietAfterTerminal`: nothing follows a terminal signal.
- `Backpressure`: pushes stay within the pulled demand.
- `DemandRefinement`: the connection implements `Demand` under the mapping
  LONG_MIN -> closed, LONG_MAX -> Unbounded.

Deadlock checking is off because the call bound is the only way the open
system stops.

Note on the spec: section 8 bounds pushes by the sum of pulls "unless it
went past the maximum". The code treats a demand of exactly LONG_MAX as
unbounded too (logic.c:83), so `Backpressure` says "reached". With a 64-bit
long this edge is unreachable in practice.

### Stream

`Stream` models one pipeline end to end. The fixed record `cfg` picks the
source, the sink, whether map is in between, and whether the sink sits
behind the scheduler adapter of `rxc_pipeline_start`. Every call is
synchronous, so the model keeps the C call stack.

- **Call stack.** `stack` is a sequence of frames `[fn, arg]`. An action is
  one function body (or the part of it up to its next call), guarded by
  `Running(fn)`. It either pushes its callee or pops itself. A call in tail
  position replaces its caller's frame.
- **Connection state.** The connection's `requested` is the one of
  `Connection`, reused through `INSTANCE`.
- **Construction.** `Init` is the state that `rxc_pipeline_start` or a
  direct `connect` leaves. `SourceConnect` is the stack with the sink's
  `on_connect` about to run. `CountCreateLogic`, `WavSource`,
  `CreateWorker`, `AdapterCreate` and `OssCreateLogic` are the fields that
  the constructors set.
- **Scheduler adapter.** `PipelineInletPull` enqueues a pull on the worker
  and drains unless `wip` is set. `WorkerDrain` runs the queued pulls in
  FIFO order. `PipelineInletCancel` clears `parent` and cancels at once; a
  second cancel sets `crashed`, for the NULL call.
- **Sources.** Each source is an `on_pull` action: count's loop, empty's
  nothing, and wav's read. The wav read is a choice among a chunk, end of
  file and an I/O error.
- **Sinks.** Each repository sink is a handler of `SinkHandler`:
  - foreach pulls one after each element;
  - canceled cancels on connect;
  - oss opens, writes and cancels on a failed write;
  - the server's session sink sends, and the client acks each chunk
    (`AckPull`);
  - the recording sink of spec 8 pulls `RecordPull` once;
  - the arbitrary sink `any` makes up to `AnyBudget` pulls or cancels from
    any handler.
- **Map.** Map doubles elements; `MapForwardFailure` models its
  `on_upstream_failure`. That function reads `inner` through the wrong
  struct, which is undefined behaviour. The model chooses between the two
  outcomes: a crash, or the failure not delivered.

Fairness: `WF_vars(Next)`. There is one thread, and whatever frame is on
top of the stack runs. The only waiting is for the client's acks, which the
model makes a step of the same thread (the client of sas-client acks every
chunk). Deadlock checking is off: the program's work is done when the stack
empties.

Run `stream` (MCStreamAll.cfg) covers:
- all three sources and all six sinks;
- map and no map;
- direct and scheduled wiring;
- W = 4, count 0..3, two WAV chunks, pulls of 1 and 2, three calls by the
  arbitrary sink.

That gives 8806 states, and every action and branch fires. It checks:
- `InOrder`: elements arrive in the order the source made them, mapped.
- `QuietAfterTerminal`: the connection gives at most one terminal signal
  and nothing after it.
- `StackBounded`: behind the adapter the stack never exceeds 5 frames. The
  5 are the handler that started the drain, the drain, `on_pull`, a sink
  handler and an inlet call. Without the `wip` test the stack grows once per
  element.
- `PullsInOrder`: the pulls reach the source in the order the sink made
  them.
- `Terminates`: every stream from count or wav into a repository sink ends
  with the connection closed.

Violation runs:
- `stream_double_cancel`: a second cancel calls through NULL
  (pipeline.c:114).
- `stream_map_failure`: a wav read error through map never reaches the sink
  (map.c:51).
- `stream_round_trip`: count pulled exactly `to - from` delivers the
  elements but never the completion spec 8 promises (count.c:28).

### TimeoutHeap

The heap of timeout.c is modelled as RECURSIVE operators over a sequence
with 0-based indices (`At(h, k) == h[k+1]`): `UpHeap`, `TimeoutAdd`,
`Heapify` and `TimeoutPop`. The deadlines are looked up in a function at
comparison time, as the code dereferences `session->timeout`. The module's
own state machine adds and pops sessions with fixed deadlines.

Run `heap` covers every assignment of deadlines 1..3 to four sessions, with
up to four entries (77301 states). It checks:
- `HeapConserves`: the swaps never lose or duplicate an entry.
- `AddKeepsOrder`: add keeps a min-heap a min-heap, equal deadlines
  included.

Run `heap_pop` shows `PopReturnsMinimum` violated. In heapify
(timeout.c:69) the right child is compared but the left one is taken, so a
pop can return a later deadline than one still in the heap.

### Server

`Server` is the run loop of server.c, the session table and state machine
of session.c, and `sas_server_timeout`. It uses the heap operators through
`INSTANCE TimeoutHeap`.

**Memory.** Sessions are heap blocks:
- `Ids` are the pointers malloc may return;
- `mem` holds their contents, records of `Session` (the fields of struct
  sas_server_session that the loop and the table read);
- `alive` holds the blocks currently allocated.

free only leaves `alive`, and the block keeps its contents until malloc
hands it out again. That is what a read after free sees in the common
build. Every read, write or free through a pointer that is not alive sets
`uaf`.

**Table.** One chain per bucket. `AddrHash` is addr_hash (session.c:41-54):
djb2 over the 16 address and 2 port bytes (`AddrBytes`), with char signed,
taken modulo the capacity 32 (`Capacity`). Reducing modulo 32 at each step is
exact, because 32 divides the 2^64 at which the unsigned long wraps.
`Bucket` is the resulting index of each address. The MC instances use the
IPv4-mapped addresses 192.168.1.10 and 192.168.1.42 with ports 49162 and
49194. Their bytes differ by 32, and 33 is 1 modulo 32, so every address
lands in one bucket and the walks of get and delete meet. `AddrEq` is addr_eq for two distinct pointers, with memcmp's
nonzero result read as "equal". Delete also counts pointer equality. It
unlinks the first match but frees its argument.

**The loop.** `pc` splits the loop into steps:
- `Pop`: lines 104-105.
- `Expire` and `ExpireDone`: the loop of lines 108-111.
- `SelectTimeout`: select returns 0 after sleeping `timeout - now`, then
  `sas_server_timeout`.
- `Receive` or `RecvFailed`: a datagram arrives before the deadline. The
  popped session is re-added, then get runs.
- `StateMachine`.
- `Arm`: lines 155-156.

Nothing else runs between two selects, so the split changes no outcome.

**The state machine.** A datagram is `[from, flag, stale]`. `stale` stands
for a sequence number below the session's ack (a duplicate or late copy),
which the machine drops once the session has acked something. The outcome of
a SYN is a choice: the file and WAV source open, or they fail and the
session is deleted. What the server sends and the stream it runs are left
out: they do not change the table, the heap or a session's lifetime.

**Bounds.** All addresses hash to one bucket, so the walks of get and delete
see every session. The other bounds are:
- three session blocks, which is enough for malloc to reuse a freed block;
- `SAS_SERVER_SESSION_TIMEOUT` = 2 ticks;
- datagrams arrive up to tick 4;
- at most three datagrams.

With these bounds a session can be added twice, time out and be freed, and
a datagram can still race its expiry. Deadlock checking is off: with the
heap empty and no datagram left, select blocks for ever, which is what the
server does.

**Fairness.** `WF_vars(Next)`: the loop is the only thread, and select
returns once a datagram is there or the deadline passed.

Run `server` covers one host on two ports, all three flags, and SYNs that
fail and succeed (470k states, about 35 s). It checks:
- `NoForgottenSession`: every live session the table holds is in the heap,
  is the popped one, or is the one being handled.
- `SessionsExpire`: once datagrams stop, the table empties.

Both hold even across the use-after-free below. Once that has happened,
though, a live session can be unlinked by another session's delete and is
then leaked, outside the table.

Violation runs:
- `server_use_after_free` uses only what the repository's client sends
  (SYN, then ACK) and a file that exists. A datagram that arrives while its
  session is the popped one adds it twice: re-added at server.c:135 and
  added at 156. Its timeout frees it through one entry. The next pop
  returns the other entry, and server.c:108 reads freed memory. An RST or a
  failed SYN gives a second path, the write at server.c:155 after the state
  machine deleted the session.
- `server_addr_eq`: two hosts on one port whose addresses share a bucket.
  addr_eq returns memcmp's nonzero result for different IPs, and get reads
  that as equal, so the second host's SYN runs on the first host's session
  (`OwnSession`).

### Transport

`Transport` covers one stream between the client and one server session,
over a network that loses, duplicates and reorders datagrams.

**Client side.** It has the state, seq, ack and result of client.c.
- `ClientReceive` is the client's state machine: drop an old datagram,
  process one at or past the ack and move the ack, end on RST (0 after
  FIN), and otherwise push the datagram to the sink and send ACKs.
- The ACKs: main.c gives the client the `ignore` sink, which pulls 1 on
  connect and on every push. Behind the pipeline adapter each pull reaches
  the client source's `on_pull` (source.c), which sends an ACK. The state
  machine also ACKs directly. So the configuration brings three ACKs
  (`Configuration`: connect, direct, push) and a chunk two (`ChunkAcks`).
  `Acks(k)`/`SendAcks` send them with consecutive seqs.
- An RST|ERR ends the receive loop with the code it carries; a code of 0
  does not end it (client.c:308-311), and the client keeps waiting in its
  old state (`ErrResult`).
- `ClientTimeout` is the 30-second select of the receive loop.
- `ExitSuccess` is the client's `main`: it exits with EXIT_SUCCESS exactly
  when the receive returned 0.

**Server side.** It has the session's state, seq and ack, the WAV source's
next chunk, and whether the pipeline connection closed.
- `ServerReceive` is get plus the state machine of session.c. Every ACK in
  SACK_SENT or ESTABLSH pulls one chunk, so with the client's extra ACKs
  the server has several chunks in flight.
- `PullOne` is `pull(1)` running the WAV source's `on_pull` into the session
  sink. It sends a chunk (`SendChunk`), RST|FIN at end of file (`Reset`), or
  ERR|RST on a read error (`Error`). Or, up to `MaxAllocFail` times, an
  allocation fails: in `worker_enqueue` (trampoline.c:39) the pull is lost
  and nothing is sent (`LostPull`); in `pipeline_inlet_pull` the request is
  written through NULL (pipeline.c:101-103) and the server dies
  (`CrashedPull`). A datagram from a new address whose session malloc
  fails makes get return NULL, which the run loop hands to the state
  machine unchecked (server.c:151-154); the server dies (`CrashedGet`).
- A SYN's setup opens the file and parses the WAV header (`OpenResults`).
  A failed open sends ERR with errno. A rejected header
  (`sas_formats_wav` returns NULL, wav.c:141-153) sends whatever errno
  held, 0 or an error (`ErrCodes`). If the pipeline's own malloc fails
  (`rxc_source_to`, unchecked at session.c:339), the SYN|ACK still goes
  out and `rxc_pipeline_start` then crashes the server (`CrashedStart`).
- A dead server (`sdown`) receives nothing and expires nothing.
- `ServerExpire` is the deadline passing. The table and heap that realise it
  are `Server`'s.

**Network.** `net` is the set of datagrams in flight, which gives
reordering. Delivery either consumes a datagram or leaves it as a
duplicate, up to `MaxDup`. `Lose` drops one, up to `MaxLoss`.

**Abstractions.**
- Every datagram advances seq by one. Only the order of sequence numbers is
  compared, never their distances.
- Time is silence. The client's select and the session's deadline fire only
  when nothing is in flight towards that side. This assumes that a datagram
  that is not lost arrives within the 30 seconds.

**Fairness.** `WF` on delivery, on the client's timeout and on expiry. There
is no fairness on loss.

Run `transport` uses a two-chunk file, setups and reads that may fail, two
duplicates, one loss and one failed allocation (about 361,000 states). Deadlock
checking is off, because the client's return is the end of the program. It
checks:
- `ClientInOrder`: the client's sink gets chunks of the file in file order,
  none twice. It rests on the seq test of client.c:184 and on the server
  sending chunks in seq order.
- `ClientReturns`: the receive loop always returns, with the stream
  finished, an error, or a timeout. A lost pull stalls the stream, a server
  crash silences it, and an ERR with code 0 is ignored; in each case the
  client returns ETIMEDOUT after 30 seconds.

Run `transport_file` has no loss, no duplication, no failure, only
reordering. `ClientGetsFile` (a client that exits with EXIT_SUCCESS has
given its sink the whole file) is violated. Chunk 2 overtakes chunk 1, the client processes it
("out-of-order, we just process it", client.c:189-192), and chunk 1 then
falls below the ack and is dropped. A FIN that overtakes the last chunk ends
the stream with success in the same way.

## 4. Not modelled

- **Other allocation failures:** the lost pull of trampoline.c:39 and the
  crashes at pipeline.c:101, session.c:339 and server.c:154 (get's NULL)
  are modelled. The checked failures of the sinks' and sources' constructors, and the unchecked
  chunk mallocs of wav.c:61-62 (another crash, on the same pull as
  `CrashedPull`) are not.
- **The stale errno as a finding:** a rejected WAV header can send ERR
  with code 0, which the client ignores (see Transport). No run slot is
  left for a property that says a server reset ends the client's receive.
- **The cancel that overtakes queued pulls** (pipeline.c:113, spec 4.5). A
  cancel is run at once, while earlier pulls wait in the worker's queue.
  A former run (`UpstreamInOrder`) found this against spec 4.5; its slot
  went to `transport_file`. No sink of the repository is harmed: the late
  pull runs on a closed connection, and `QuietAfterTerminal` in run
  `stream` checks that it makes no callback.
- **Teardown:** `rxc_pipeline_dealloc`, the `dealloc` of sources and sinks,
  and `sas_client_dealloc` only free memory. No code calls a sink or
  source logic's `dealloc` (only the adapter's and map's logic deallocs
  call their inner one, and nothing calls those), so oss's `dealloc`
  (oss.c:28-36), which would close an fd `on_push` already closed, never
  runs; the logics leak instead.
- **The client's connection setup:** `sas_client_connect_hostname` is I/O.
- **Chunk sizes:** `ClientReceive` pushes a chunk whose size is computed as
  `header->length - sizeof(cfg_ack)`, which is wrong for a short last chunk
  (client.c:252). Sizes are abstracted away.
- **Wrapping of 32-bit sequence numbers:** it would take a stream of 4 GiB.
- **Sequence arithmetic and window fields:** abstracted to a stale flag.
- **Transport encoding (sas-core/transport.c):** byte-order conversion of
  header fields, with no state.
- **Entry points (beyond the client's exit status), logging, OSS ioctl
  setup and WAV header parsing:** I/O with no protocol state; a rejected
  header is the `badwav` outcome of a SYN. The WAV source's reads are a nondeterministic
  choice of outcomes.
- **The order of expiries under stale keys:** `session->timeout` changes
  while the session is in the heap. The heap's order is already broken by
  heapify.
