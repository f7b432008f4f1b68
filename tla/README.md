# TLA+ models of the WireTAP server

The modules here model `src/tools/wiretap-server/wiretap-server.py`, a
single-process bridge between SocketCAN interfaces, GVRET TCP clients
(SavvyCAN and similar tools) and an optional PostgreSQL ingest path with a
SQLite spill cache. They are checked with TLC.

## The system and its parts

| Part | Code | Threads | State |
|---|---|---|---|
| Frame codec | `dlc_to_len`, `len_to_dlc`, `format_candump_line` | pure | none |
| `DiskCache` | lines 215-344 | used by the ingest worker and by `close()` | SQLite table of rows with autoincrement ids; file size |
| `PostgresWriter` | lines 346-778 | main thread and client rx threads enqueue; one worker thread; a stats thread; `close()` on the main thread | bounded `queue.Queue`, the worker's connection, `_alive`, counters |
| `GVRETClient` | lines 780-1019 | one rx thread per client; the main thread pushes frames | `buf`, `binary`, `alive`, a send lock |
| `CanTcpServer` | lines 1022-1258 | main thread: `select` loop | client registry, CAN sockets |
| Bit-rate detection | `detect_bitrates`, `_parse_tlvs`, lines 68-127 | main thread at start-up | none; the result becomes `bus_speeds` |
| CLI / config / `main` | lines 1261-1470 | main thread | none after start-up |

How they interact:

* The main loop reads CAN frames, pushes each to every registered GVRET
  client (`send_frame`) and enqueues it for ingest (`enqueue`, direction rx).
* A client's rx thread parses GVRET requests. A BUILD_CAN_FRAME request is
  sent to a CAN socket by `_tx_can`, which also enqueues it for ingest
  (direction tx). Other requests are answered on the client socket.
* The ingest worker takes batches from the queue and commits them. When the
  server is unreachable, or the queue is half full, entries are spilled to
  the SQLite cache. The cache is drained, oldest first, before the queue on
  every later loop.
* `main` calls `PostgresWriter.close()` on exit. It wakes the worker, joins
  it with a 5 s timeout, and then spills whatever is left in the queue.

## Modules

### `IngestPipeline` — `PostgresWriter` + `DiskCache`

State (VARIABLES) and where it lives in the code:

* `q`: the `queue.Queue(maxsize)`. It holds entry numbers and the wake
  sentinel `Wake`, which stands for the `()` put by `close()` (line 444).
* `wpc`: the worker's position in `_worker`, `_maybe_flush_queue_overflow`
  and `_shutdown_flush`. Each value is a point where the worker talks to
  SQLite or the SQL server, or hands over to another thread.
* `batch`, `ids`: the worker's local batch and the cache ids it read.
* `conn`: `self._conn`. `"broken"` is a connection object whose server has
  gone away, so the next call on it raises.
* `alive`: `self._alive`.
* `cache`, `cacheNextId`, `cacheSize`, `cacheOpen`: the SQLite table
  (rows with ids), its AUTOINCREMENT counter, and the file size. The file
  size is counted in rows as a high-water mark: deletes never shrink the file
  because the code never VACUUMs. `cacheSize` also stands for
  `size_bytes() >= max_bytes` in `is_full`.
* `db`: the rows committed to the SQL table, in commit order. `dbUp` and
  `outages` model the server's availability.
* `mpc`: the main thread in `close()`. `restarts` counts crash/restarts.
* Ghost variables `produced`, `dropped` and `crashLost` record what was
  offered, what the code counted as dropped, and what a crash took with it.

Actions:

* `Enqueue(dir)`: `enqueue`. `"rx"` comes from the main loop and stops
  once `close()` starts. `"tx"` comes from a client thread and can continue
  until exit.
* `Worker*`: the steps of `_worker`. The cache and overflow helpers are
  operators (`CacheWriteBatch`, `CacheReadBatch`, `CacheDeleteBatch`,
  `WriteToCache`, `SpillHead`).
* `Close`, `JoinReturn`, `EmergencyCheck`, `EmergencySpill`,
  `EmergencyDone`, `CloseAndExit`: `close()` and `_emergency_flush_to_disk`.
  `JoinReturn` is enabled when the worker is done, or when it is blocked
  where the code can block for long (`WorkerBlocked`). That is the only case
  in which a 5 s join can time out. The places are a SQL round trip
  (connect, execute, commit) and the backoff sleep of up to 10 s. The
  `q.get` wait is not among them: it lasts `flush_interval`, 0.5 s by default.
* `Commit(next)` is `execute_values` + `commit` of either batch. With
  `LostAcks` the server may apply the COMMIT and the connection drop before
  the reply: psycopg2 raises, the except branch spills the batch that is
  already stored, and it is committed again after recovery.
  `WorkerShutdownFlush` has the same three outcomes for the commit of
  `_shutdown_flush`. A lost reply there writes the committed rows to the
  cache as well (`ShutdownSpill`).
* `Crash` and `Restart`: the process dies, which loses the queue and the
  worker's batch. The SQLite file and the SQL table survive. `__init__`
  starts again with the same cache file.
* `DbDown` and `DbRecover`: the environment.

### `IngestStore` — what the ingest path promises

An abstract specification with no code of its own: `offered` frames are
`waiting`, `stored` or `lost`. `Offer` accepts a frame or refuses it,
`Store` commits the n oldest waiting frames, and `Lose` gives waiting
frames up. It and the mapping helpers `Firsts` and `FirstCommits` are
not in PROJECT.json's `map`, since they translate no code. `IngestPipeline`
implements it (`ImplementsStore`) under the
refinement mapping `Store == INSTANCE IngestStore WITH ...`:

* `offered` is `produced`.
* `waiting` is every pending entry not yet in the store.
* `stored` is `FirstCommits`: the store read as distinct entries in
  first-commit order (`Firsts`). A crash replay commits an entry again;
  that is `NoDuplicateCommit`'s question.
* `lost` is what was dropped or crashed and is neither pending nor stored.

A worker step that stores an entry while an older one is still waiting
(in the cache or the queue) is not a `Store` step, so the check fails.

### `NetlinkAttrs` — `detect_bitrates` and `_parse_tlvs` (lines 68-127)

* `src` is the list of attributes the kernel encoded. `cut` bytes of their
  encoding reach `IFLA_INFO_DATA` (`info`), as bytes or as pyroute2's
  colon-hex string (`HexStr`). `RawBytes` is the code's conversion:
  `raw.split(':')` (`SplitColon`) and `int(x, 16)` (`HexInt`). `raw` is
  `raw_bytes`, any prefix of the encoding (`Encode`: header `<u16 len, u16 type>`, value, padding
  to 4), so a stream cut anywhere is an input. `lookup = "error"` is the
  `except` branch (no link, no IFLA_INFO_DATA).
* `ParseStep` is one pass of `while i + 4 <= len(raw)` (`HalfAt`, `Align4`).
  `ScanStep` is one pass of `for t, v in tlvs` (`U32`).
* `MC_NetlinkAttrs` gives the values: empty, 3, 4 and 5 bytes, so every
  padding length and a value too short for a rate occur.

### `GvretSession` — a `GVRETClient` session (lines 792-966)

The client writes GVRET requests into a TCP byte stream. The rx thread reads
it in chunks of any size and parses it.

* `wire`: the bytes written and not yet read. `sent` and `writes` are the
  requests the client wrote. `cpc` is the client: ascii, binary or closed.
* `buf` and `binary`: `self._buf` and `self._binary`. `alive`:
  `self._alive`. `rpc`: the rx thread's position (recv, parse or exited).
* `effects`: what the session did, in order: a reply to an opcode, or a
  CAN frame handed to `tx_func`.
* `Recv` is one `recv` plus the E7 E7 scan that runs on every chunk
  (`StripHandshakes`, `RECURSIVE`). `ParseWait`, `ParseFrame`,
  `ParseCommand` and `ParseParamsRaise` are the parse loop's branches:
  * `ParseWait` covers both waits: too few bytes, or an incomplete frame.
  * `ParseFrame` is a BUILD_CAN_FRAME.
  * `ParseCommand` is any other opcode.
  * `ParseParamsRaise` is the `IndexError` of `reply_canbus_params`.
* `Resync` drops the bytes before the first F1. `DecodeFrame` translates
  `_try_consume_send_frame`: the 29- or 11-bit id, the bus, and dlc clamped
  to 8.
* The send path: `sock` (open, or failed by a timeout or a reset), `lock`
  (`self.lock`: free or held by a thread), `mpc` (the main thread in
  `send_frame`), `pushes` and `toClient`, the bytes the client receives as
  message halves. A reply makes the rx thread call `_send` (`rpc = "send"`).
  `SendStart(t)` takes the lock and `sendall` writes the first half;
  `SendFinish(t)` writes the rest and releases the lock. On a failed socket
  either step raises and runs `close()`. `MainPush` is the main thread's
  `send_frame`, which returns before the handshake. `RecvClosed` is the
  loop ending once `alive` is false. `RecvReset` is `recv` raising on a
  connection the client reset: the `finally` clause runs `close()`.
* `Expected` is what the client asked for. It is computed from `sent` by
  an independent encoder and decoder (`Encode`, `Meaning`), so
  `EffectsFaithful` compares the parser with a reference.

### `Bridge` — `CanTcpServer` (lines 47-65, 410-439, 780-1258)

* `registry` is `gvret_clients`. Per client, `peer` is the state of the
  far end (idle, pending in the backlog, reset, up, gone). `alive` and
  `binary` are the session's flags. `pushed` holds the frames the client
  received, and `since` the frames read since its handshake. `cause` is why
  the session closed.
* `canLog` and `txLog` are the frames read from and written to CAN.
  `ingest` is what was enqueued for the ingest path. `server` is running
  or crashed.
* `CanRx(i, f)` is one pass of the fan-out in `run()`:
  * The frame is pushed to every registered binary session.
  * Any subset of the pushes may fail. A failed push closes its session in
    `_send` and leaves it in the registry.
  * The frame is enqueued.
* `Accept` is `_accept`. `AcceptReset` is `getpeername()` raising for a
  reset connection, which ends `run()`.
* `Handshake`, `TxRequest` (`_tx_can`: a bus out of range, a successful
  write, a failed write) and `RxEof` are a session's rx thread. The byte
  level is `GvretSession`'s.
* `dlc_to_len` and `len_to_dlc` are operators. `Push` builds the record
  that `send_frame` packs, with the bus as `bus & 0x0F`. `PushComplete`
  compares `Push` with `SpecDlc`, the DLC table of the spec.

## Runs

| Run | Module | Checks | Result |
|---|---|---|---|
| `ingest_safety` | `IngestPipeline`, `FairSpec`, 2 outages (one may be a lost COMMIT reply), 1 crash | `TypeOK`, `NoSilentLoss`, `ImplementsStore`, `EventuallyStored` | passes |
| `ingest_shutdown` | `IngestPipeline`, `ShutdownFairSpec`, 1 outage, lost COMMIT replies, close | `ShutdownTerminates` | passes |
| `ingest_dup` | `IngestPipeline`, `Spec`, 2 outages | `NoDuplicateCommit` | violated: a cache batch whose commit fails is spilled again (line 597) |
| `ingest_cache_reset` | `IngestPipeline`, `Spec`, cache of 2 rows | `CacheReclaimed` | violated: the reset branch at lines 550-559 is unreachable |
| `ingest_shutdown_loss` | `IngestPipeline`, `Spec`, close + 1 restart | `NoSilentLoss` | violated: after the worker finished and the check at line 451 found the queue empty, a client thread enqueues a TX entry (line 1153); it is never written or counted |
| `gvret_safety` | `MC_GvretSession`, `FairSpec`, bus_count 2, one speed, 1 push | `TypeOK`, `EffectsFaithful`, `WholeMessages`, `Served`, `SendReturns` | passes |
| `gvret_e7_in_frame` | `MC_GvretSession`, an extended id 0xE7E7 | `EffectsFaithful` | violated: the E7 E7 scan in binary mode cuts the frame (line 877) |
| `gvret_params_close` | `MC_GvretSession`, bus_offset 1, one interface | `SessionPersists` | violated: GET_CANBUS_PARAMS raises IndexError (line 844) |
| `bridge_safety` | `MC_Bridge`, `Spec`, 2 clients, 2 interfaces, 2 frames | `PushComplete`, `IngestFaithful` | passes |
| `bridge_tx_error` | `MC_Bridge` | `ClosedBySocket` | violated: a failed CAN write closes the session (line 1148) |
| `netlink_parse` | `MC_NetlinkAttrs`, up to 2 attributes, every prefix, bytes or hex string | `ParseFaithful`, `BitratesFaithful` | passes |
| `bridge_dead_session` | `MC_Bridge` | `FailedPushDropped` | violated: closed sessions are never dropped from the registry (line 1238) |


What the properties say:

* `NoSilentLoss`: every entry offered is pending (queue, worker batch or
  cache), stored, counted as dropped, or was in memory when the process
  crashed.
* `ImplementsStore`: the pipeline implements `IngestStore`. No entry is
  committed for the first time while an older one still waits, and no
  entry disappears without being counted. A lost COMMIT reply makes
  delivery at-least-once; the replay must not break the order.
* `NoDuplicateCommit`: no entry is committed twice.
* `CacheReclaimed`: once the worker has drained the cache, the cache accepts
  spills again.
* `EventuallyStored`: every entry is eventually stored or counted as
  dropped.
* `ShutdownTerminates`: `close()` returns.
* `EffectsFaithful`: the session's replies and CAN writes are a prefix of
  what the client's requests mean, whatever the chunking and junk.
* `Served`: every request written is eventually served, unless the rx
  thread has exited.
* `SessionPersists`: a session ends only when its client closes or a send
  fails.
* `WholeMessages`: the client receives whole messages. Main-thread pushes
  and rx-thread replies never interleave inside a message, and a message
  is cut only by a failed send (which closes the session) or while it is
  still being written.
* `SendReturns`: every call of `_send` returns, on either thread. The lock
  is released on every path out of `sendall`, so a timed-out push cannot
  leave the rx thread, or the main loop, waiting for ever.
* `ParseFaithful`: `_parse_tlvs` returns exactly the attributes wholly
  contained in the bytes the kernel sent, in order and unpadded, whether
  pyroute2 handed them over as bytes or as a hex string.
* `BitratesFaithful`: `detect_bitrates` returns the rates of the last
  complete bit-timing attributes, or `(default, 0)` when the lookup fails.
* `PushComplete`: a live binary session whose peer is up has received every
  frame read since its handshake, in order, with the bus, DLC and length
  of the spec's table.
* `IngestFaithful`: the ingest queue receives every frame read and written,
  with the length its DLC stands for.
* `ClosedBySocket`: a session is closed only by EOF or a failed socket
  write.
* `FailedPushDropped` (an action property): a session closed by a failed
  push during a fan-out is removed from the registry.

### Bounds

* Queue of 3 with batches of 2 and the overflow spill at 50%. This makes
  the queue fill up, an overflow spill, and a batch of fewer than
  `BatchSize` rows all reachable.
* 4 entries, which is enough for two batches and a spill that interleave.
* The cache holds 3 or 4 rows, so a full cache is reachable (2 rows in
  `ingest_cache_reset`).
* At most 2 outages and 1 crash. One outage already gives the failure
  spill and the reconnect. A second outage lets a cache drain itself fail.

* `GvretSession`: 2 client writes (3 in the violation runs) and 1 push by the main thread, chosen from a GET_DEV_INFO-style
  request, GET_CANBUS_PARAMS, an unknown opcode, a classic standard frame,
  and an extended frame with dlc 9. Junk is `66` and a stray `F1`. The rx
  thread reads chunks of every length, so every split of a request between
  reads is reached.
* `Bridge`: 2 clients (symmetric only in `bridge_tx_error`; the liveness run has no symmetry reduction), classic
  length 3 and FD lengths 12 and 64, 2 interfaces plus a bus without a
  socket, 2 frames read, 2 TX requests, and 1 failed CAN write. Lengths 12
  and 64 are the ones where `len_to_dlc` must round up, or hits the last
  table entry.

### Fairness

* `FairSpec` makes the worker weakly fair. It runs in a daemon thread,
  and each of its waits ends: `q.get` after `flush_interval` (0.5 s by
  default), the backoff sleep after at most 10 s, and a SQL call when the
  server answers or the connection fails. `DbRecover` is weakly fair:
  the liveness claim is about an outage that ends.
* `ShutdownFairSpec` assumes the worker's non-blocking steps and the main
  thread are weakly fair. It does not assume the SQL server answers. The
  5 s join timeout is what lets `close()` finish.
* `FairSpec` also makes `Restart` weakly fair: the service manager restarts
  a crashed process.
* The violation runs use `Spec` without fairness.
* `GvretSession!FairSpec` makes the rx thread weakly fair. It is a thread
  that only blocks in `recv`, and `recv` returns when bytes are there. The
  main thread inside `_send` is weakly fair too: `sendall` returns or
  times out after 0.1 s.
* `bridge_safety` checks only invariants and uses `Bridge!Spec`.

### Known issues not kept as runs

* With `close()`, `ImplementsStore` is also violated. The emergency-flush
  race at line 452 (`ingest_shutdown_loss`) shows first, so the order of
  `_shutdown_flush` (the queue before the cache, line 676) is not checked
  separately.
* The parse loop does not check `alive` (line 886). After the main thread
  closed a session on a failed send, the rx thread still transmits the
  BUILD_CAN_FRAME requests already buffered. This is reachable in
  `GvretSession`, and no run states it.
* `AcceptReset` is in every Bridge run, and it crashes the server. No run states that `run()` survives it; spec section 7 says
  it should.
* `count_dropped` is incremented without a lock by the main thread, the
  client threads (both via `enqueue`, line 438) and the worker (lines 614,
  622). A lost update undercounts the drops in the `close()` summary.
  `IngestPipeline` records drops as the set `dropped`, updated in one step,
  so the counter race is not in the model.
* `send_frame` packs the bus as `bus & 0x0F`. `PushComplete` fails when
  `BusOffset + NIfaces > 16`.

## Remaining work

* `Bridge` treats a session's send as one step. Composing it with the
  `GvretSession` send path would need more state than TLC can explore.

## Not modelled

* Stats thread and threshold warnings (`_stats_loop`,
  `_maybe_warn_thresholds`): logging only. They change no state that other
  code reads.
* The pyroute2 link lookup of `detect_bitrates`, beyond its two outcomes
  (the attribute bytes, or an exception).
* `load_config`, `apply_config_overrides`, `build_parser` and `main`'s
  environment fallbacks: start-up parsing whose results become the
  CONSTANTS of the modules. No thread reads or changes them later.
* `format_candump_line` and `_colour_*`: console text only.
* `CanTcpServer._drop`: only reached through the dead list of the
  fan-out, which nothing fills (see `bridge_dead_session`).
* Row contents: timestamps, ids and payloads are never compared by the
  ingest code. An entry is its arrival number.
* Reply payloads (`reply_dev_info`, `reply_canbus_params`,
  `reply_num_buses`, `reply_timebase`, `reply_keepalive`): a reply is its
  opcode. The bytes are fixed or derived from constants and decide no
  control flow. Checked runs could not see the one layout that depends on
  the configuration: with `bus_offset + interfaces >= 2` and one speed,
  GET_CANBUS_PARAMS raises before any byte is sent (`gvret_params_close`).

What is left is either start-up parsing, text output, or I/O whose only
effect on the model is already an outcome the model chooses among. The
known issues above need violation runs of their own. The crash at line 797
and the TX after close at line 886 are already behaviours of `Bridge` and
`GvretSession`. The counter race at line 438 would also need the counter
split into a read step and a write step for each thread.
