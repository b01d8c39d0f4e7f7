# TLA+ models of pgdog

This directory holds TLA+ models of pgdog, a PostgreSQL pooler and proxy.
They are checked with TLC. Each module is translated from the Rust sources
under `src/`. `PROJECT.json` maps every modelled definition to the lines it
models. It also lists the runs, the mutants that show each property can fail,
the findings and the hazards.

## The system

In the sources here, pgdog has these parts:

| Part | Source | State it keeps |
|---|---|---|
| Client session | `src/src/frontend/client.rs` | client socket, request `Buffer`, the checked-out server guard |
| Server connection | `src/pgdog/src/backend/server.rs` | socket stream, `State` (Idle, Active, IdleInTransaction, TransactionError, Error, Disconnected), byte and time counters |
| Connection pool | `backend/pool/mod.rs`, `src/src/backend/pool/config.rs`; `pool_impl`, `inner`, `guard` are not among the sources | idle connections, checked-out count, waiters, timeouts, bans |
| Query router | `frontend/router/mod.rs`, `router/parser/query.rs`, `parser/value.rs`, `pgdog-plugin/src/route.rs` | round-robin counter, the route of the current request |
| Sort buffer | `backend/pool/connection/sort_buffer.rs` | rows buffered from all shards for a cross-shard ORDER BY |
| Wire codec | `net/messages/*` | none: it encodes and decodes frames (DataRow, RowDescription, Parse, ParameterStatus, Password) |
| Admin | `admin/mod.rs` | none: only the `Command` trait |
| Startup | `main.rs` | none: CLI, logging, runtime |

### How the parts interact

A client session runs `Client::spawn`. It loops on a `select!` between two
futures:

- `self.buffer()` reads client messages into a `Buffer` until one of them
  completes a request (a Query, a Sync, and so on). The session then checks
  a server out of the pool (`server.get`) unless it already holds one, and
  sends the buffer on it.
- `server.read()` forwards each backend message to the client. When
  `server.done()` holds (the last ReadyForQuery had status Idle), the session
  drops the guard.

Dropping the guard gives the connection back to the pool. The pool rolls
back an open transaction (`Server::rollback`), discards a connection in
Error, and pushes any other connection on its idle list.

The router decides which shard a request goes to. The sort buffer merges
ordered results from several shards. The codec turns all of these messages
into bytes.

## Inventory

Each part, its operations, and what makes it hard:

- **Server connection.** Operations: connect, send, flush, read, execute,
  rollback, healthcheck, drop. The state follows the ReadyForQuery status
  byte. A dead socket turns send and read into Error.
  - Hazard: `execute` and `rollback` read only up to the first
    ReadyForQuery.
  - Hazard: `done()` depends only on the last status read.
  - Properties needed: an idle connection is clean; a transaction stays on
    its owner's connection.
- **Client session.** Operations: buffer a message, check out, send, read
  and forward, release, terminate, and exit on an error.
  - Hazard: the two futures of the `select!` race. A cancelled
    `Client::buffer` drops its local Buffer.
  - Hazard: a pipelined request can be sent on a connection that is still
    answering an earlier one.
  - Properties needed: no message is lost; no client reads another client's
    results; every request is answered.
- **Pool.** Operations: checkout (pop idle, open new, wait, checkout
  timeout) and checkin (rollback, discard Error, push idle). Also connect
  timeout, bans, healthchecks and eviction.
  - Hazard: ownership of a connection being handed over.
  - Hazard: the maximum size.
  - Hazard: a timeout racing a checkin.
  - Hazard: dead idle connections.
  - Hazard: `connect_timeout()` returns the checkout timeout.
  - Properties needed: exclusive ownership, pool bound, and every waiting
    checkout ends.
- **Router.** A pure decision: shard from a comment, from sharding-key
  values in WHERE or INSERT, round robin for reads, all shards otherwise.
  Transaction commands, read_only/write_only shortcuts, COPY.
  - Properties needed: agreement with a reference routing function over
    small ASTs.
- **Sort buffer.** A pure algorithm: the ORDER BY comparator used in a
  stable sort. NaN and unreadable columns compare Equal to everything.
  - Property needed: the output is sorted and is a permutation of the input.
- **Codec.** Pure conversions with fixed-width lengths (i16 column counts,
  i32 lengths, -1 for NULL).
  - Properties needed: decode inverts encode; `equivalent` agrees with
    field-by-field equality.

## Modules (built)

### `ServerConn.tla` — one server connection (server.rs)

A connection is the record `[state, out, tx, txOwner, broken]`:

- `state` is `Server.state`.
- `out` holds the backend replies pgdog has not read yet.
- `tx` and `txOwner` are the backend's transaction status and the session
  it belongs to.
- `broken` means the socket is dead.

The `server.rs` methods are operators from record to record: `Connect`,
`Closed` (Drop), `Send`, `Read`, `Execute`, `Rollback`, `InSync`,
`InTransaction`, `IsError`, `Done`. `Proxy` applies them inside its own
atomic steps.

The PostgreSQL backend is the environment (`PgRun`). It answers a message
the moment it is written. It has no input but this socket, so only when
pgdog reads an answer matters, and `Proxy` explores every such order.
Replies are reduced to their tag, the ReadyForQuery status, and the session
they answer (a ghost field used by `NoCrossTalk`).

### `Proxy.tla` — sessions, connections and the pool (client.rs, pool)

Variables:

- Per client: `csock` (written, unread messages), `buf` (the Buffer),
  `conn` (guard held), `pc` (`select`, `waiting` in `server.get`, `done`).
- History: `sent`, `fwd`, `recv` (what has been flushed to the client's
  socket, so what the client has received).
- Per client stream: `wbuf` (replies written with `send` but not flushed)
  and `flush` (the local `flush` of `Client::spawn`).
- Per connection: `srv`.
- Pool: `idle` (LIFO), `open`, and `checking` (the connection the
  monitor holds for a healthcheck).
- Crash budget: `crashes`.

Actions:

| Action | Code |
|---|---|
| `ClientWrite(c)` | the client program (environment) writes a message; `"X"` is Terminate |
| `BufferRead(c)` | the `buffer()` branch of `select!`: Terminate ends the session; otherwise append to the Buffer, and on a full Buffer either send on the held server or start a checkout |
| `Checkout(c)` | `server.get` succeeds: pop the idle list, or open a connection below the maximum, then `server.send` |
| `CheckoutTimeout(c)` | `server.get` fails: the session ends |
| `ServerRead(c)` | the `server.read()` branch: forward one message (`Forward`), release on `done()`; a read error ends the session |
| `ServerCrash(s)` | the backend dies or the network drops (environment) |
| `HealthStart(s)` | the monitor takes idle connection `s` for a healthcheck (only when the constant `Healthchecks` is TRUE) |
| `HealthEnd` | `Server::healthcheck` (`HealthcheckOk`: in sync, and `execute` of the query does not fail): success returns the connection through `Checkin`, failure closes and discards it |

`Forward(c, m)` is client.rs:86-95. ReadyForQuery, or any message while
`flush` is set, goes out with `send_flush`: it is written after what the
stream buffers, everything is flushed to the socket, and `flush` is
cleared. Any other message is written with `send` into the stream's
buffer. `BufferRead` sets `flush` from `Buffer::flush` (`BufferFlush`: the
request ends with a Flush) whenever a request is complete. `Stream`
(net/stream.rs) is not among the sources: that `send` only buffers and
`send_flush` flushes is what the two names, the call sites and
specification 5 ("flush" is a suspension point) say. The stream buffer's
own flush when it fills up (8 KiB) is not modelled, since the replies are
small. When a session ends, its unflushed replies are dropped with the
stream.

Every exit from `Client::spawn` (error or Terminate) runs `EndSession`. It
drops the guard, which runs `Checkin` (`Rollback`, then discard or push
idle).

The pool module (`pool_impl.rs`, `guard.rs`) is not among the sources.
`Available`, `Checkin`, `Buffer::full` (`Full`), `HealthStart` and
`HealthEnd` are modelled from the specification and marked `spec_modelled` in the map.

### `MCProxy.tla` and the configurations

Two clients and two connections as model values. The pool maximum is 1, so
clients compete for a connection and one of them waits. A client writes at
most 3 messages, which is enough for BEGIN; SELECT; COMMIT or Parse; Sync
and a pipelined second request.

### `Session.tla` — what a client is promised, and the refinement

`Session` is the abstract specification of one client's view (specification
sections 1 and 8). Talking to pgdog is talking to a private backend. Its
variables are `sent[c]` (everything c wrote), `recv[c]` (every reply c got)
and `live[c]`. `Ideal(c)` is what `ServerConn`'s `PgRun` answers, from
status Idle, to the messages of `sent[c]` up to the last sync point (Query,
Sync or Flush; `Completed` and `Answers` in `ServerConn`). `Reply(c)`
delivers the next one or more of these replies, since a flush delivers
what the stream had buffered all at once. `Spec` asks weak
fairness of `Reply`, so a due reply arrives unless the session ends.

`MCProxy` maps the proxy onto it:

- `sent` and `recv` are the proxy's own `sent` and `recv`;
- `live[c]` is `pc[c] # "done"`.

Two properties check the refinement:

- `ImplementsSession` is `Init /\ [][Next]_avars` of the instance, the
  safety part;
- `RepliesDelivered` is the fairness part, written out as
  `[]<>~ReplyDue(c) \/ []<><<Reply(c)>>_avars`. TLC cannot evaluate
  `ENABLED` through the substitution of `live`, so `ReplyDue` states the
  enabling condition of `Reply` directly.

Pooling, releases between transactions, crashes and checkout timeouts all
appear only as stuttering steps or as `End` steps of the abstract session.

### `SortBuffer.tla` — cross-shard ORDER BY (sort_buffer.rs)

Variables:

- `rows`: every DataRow added so far, in arrival order.
- `buffer`: the VecDeque, as positions into `rows`.
- `full`, and `out` (the rows `take` has returned).
- `sortedBy`: the ORDER BY the buffer was sorted by.

Actions are `Add` (`add`), `MarkFull` (`full` without a sort, as for a
query without ORDER BY), `SortAndMarkFull` (`sort` then `full`, the
sequence specification 4.7 prescribes) and `Take` (`take`).

The sort is modelled by what it does:

- `Resolve` turns each `OrderBy` into a 0-based column. A name goes through
  `RowDescription::field_index` (`FieldIndex`). An unknown name is skipped.
- `Compare` is the `order_by` closure. An unreadable column, or NaN
  (`partial_cmp` answering `None`), stops the comparison with `Equal`.
  `Equal` falls through to the next column.
- `InsertionSort` and `InsertTail` are the standard library's
  `insertion_sort_shift_left`. `sort_by` uses it for slices of at most 20
  elements. It is stable.

`DataRow::get_column` and `Datum` are not among the sources. A cell is a
number, `NaN`, or `Unreadable`.

`MCSortBuffer.tla` gives the reference order: PostgreSQL's order, with NaN
above every number and ties kept in arrival order.

### `Router.tla` — the query router (query.rs, router/mod.rs)

Variables:

- `cluster`: shard count and the `read_only`/`write_only` flags, fixed.
- `command`: `QueryParser.command`.
- `rr`: the process-wide round-robin counter (`round_robin::next`). It
  grows by one per read without tables, and the route takes it modulo the
  shard count, as query.rs:119 does. Other sessions move it too, so `Init`
  lets it start anywhere in `0..MaxRoundRobin`, and reads without tables
  stop at the bound `MaxRoundRobin` (3 in the cfgs: with two shards this
  reaches both residues and wraps past them).
- `input`: the last statement routed (history).

A statement is what pg_query, `comment::shard` and `WhereClause::keys`
return: its kind, whether it has tables, the comment shard, the key values,
whether a Bind is present, the SortBy nodes, and whether `CopyParser`
found a sharded table.

`RouteQuery` is `Router::query`, built from:

- `Query`: the single-shard shortcut, the round-robin read, then `Dispatch`
  followed by `Overrides`.
- `Select` and `SelectSort`.
- `Fails`: on an error the previous Command stays.

The Route constructors (`parser/route.rs`) are not among the sources. They
are modelled from the specification.

`MCRouter.tla` has the reference routing of specification 4.5.

### `Codec.tla` — wire messages (net/messages)

Bytes are integers 0..255. The `put_i16`/`put_i32` and `get_i16`/`get_i32`
operators keep two's-complement width and sign.

Encoders and decoders of DataRow, RowDescription, ParameterStatus, Parse
and the SASL Password messages. A decoder returns one of:

- `Ok(m)`;
- `Err`, when the `code!` tag check fails;
- `Panic`, when a `Buf::get_*` reads past the end of the buffer.

`Equivalent` is `RowDescription::equivalent`.

`Payload` framing and `c_string_buf` are not among the sources. They are
modelled from specification 3.

`MCCodec.tla` has three steps:

- `Transmit`: encode, then decode.
- `Receive`: decode a frame a peer sends. This is a DataRow framed the way
  a backend frames it, with -1 for NULL, or one of `ClientFrames`: a Parse
  with parameter count -1, a Parse that announces a type and ends, or a
  SASLInitialResponse cut inside its length.
- `Compare`: run `equivalent` on two descriptions.
- `ReadInt`: a backend sends an integer in a column of type int2, int4 or
  int8, in text (decimal digits, as `ToDataRowColumn` writes them) or in
  binary (big-endian, the type's width). `GetInt` reads it the way
  `DataRow::get_int` does: it parses text, and it reads binary by the
  column's width (2, 4, 8, otherwise None).

### `PoolTimers.tla` — pool deadlines (config.rs, pool from the specification)

The connection pool's timers are modelled over a discrete clock `now`. The
durations are `Config::connect_timeout`, `checkout_timeout`, `idle_timeout`
and `max_age`, applied to a constant `Cfg` record that holds the Config
fields. `ConnectTimeout` keeps the code's body: it returns
`cfg.checkout_timeout`.

`pool_impl.rs` and `monitor.rs` are not among the sources. The steps
follow specification 4.3 and are `spec_modelled`:

| Action | Step |
|---|---|
| `Checkout(c)` | pop the most recent idle connection, else connect a new one below max, else queue in FIFO order |
| `ConnectOk(c)`, `ConnectExpire(c)` | the caller's connect completes, or its connect timer fires |
| `WaitExpire(c)` | the checkout timer fires, and the caller leaves the queue |
| `Release(c)` | the guard drops: discard past `max_age`, else `Hand` it to the first waiter, else push it on top of idle |
| `Evict(s)` | monitor: close an idle connection past `idle_timeout` or `max_age` while above min |
| `Spawn`, `SpawnOk`, `SpawnExpire` | monitor: connect for waiters or up to min; the new connection is handed on like a release |
| `Healthcheck(s)` | monitor: an idle connection whose `healthcheck_age` exceeds the interval is checked; success stamps `last_healthcheck`, failure (backend down) discards it and bans the pool |
| `Unban` | the admin surface lifts the ban |
| `BackendDown`, `BackendUp` | the backend stops answering or comes back (environment); while down, connects do not complete |
| `Tick` | the clock advances, but never past a due timer or a due healthcheck (timers fire on time) |

`Checkout` is refused while the pool is `Banned` (the ban is younger than
`BanTimeout`). The durations of a connection are taken from
`backend/server.rs`: `Age` (`Server::age`), `IdleFor` (`Server::idle_for`)
and `HealthcheckAge` (`Server::healthcheck_age`), which is `Duration::MAX`
(`DurationMax`, beyond the clock's bound) for a connection never checked.
`ConnectOk` and `SpawnOk` make a new `Server`, whose `last_healthcheck` is
None (server.rs:130).

`MCPoolTimers` has two callers and two connections (symmetric). Its Config
is min 1, max 2, checkout 2, idle 1, connect 1 and max_age 3 ticks, the
healthcheck interval and the ban timeout are 2, and the clock stops at 6.

## Runs

| Run | cfg | Expect | Checks |
|---|---|---|---|
| `proxy_safety` | `MCProxySafety.cfg` | pass | `TypeOK`, `OwnershipExclusive`, `IdleConnReusable`, `TransactionPinned`. Clients wait for each answer; one server crash; all five message kinds; symmetry over clients and connections (sound because no property or action names a particular one). |
| `proxy_refinement` | `MCProxyLive.cfg` | pass | `ImplementsSession` and `RepliesDelivered`: the proxy implements `Session`. Clients wait for each answer; no crashes; BEGIN, SELECT and COMMIT with Terminate; no symmetry (checked with liveness). |
| `proxy_flush` | `MCProxyFlush.cfg` | violation | `RepliesDelivered` when clients write Parse, Flush and Sync and wait for each answer. TLC's counterexample ends in a stuttering state where a reply stays in the stream buffer for ever (finding 10). |
| `proxy_pipelined` | `MCProxyPipelined.cfg` | violation | `ImplementsSession` when clients write ahead: Parse and Sync, and a next request before the answer. TLC's shortest trace is the buffer loss (finding 1). Symmetry over clients and connections is sound here because the property is a safety property that names neither. |

What the properties say:

- `OwnershipExclusive`: each open connection is in exactly one place, either
  the idle list (once) or one guard.
- `IdleConnReusable`: every idle connection is in state Idle, has nothing
  unread and has no open transaction.
- `TransactionPinned`: a client inside a transaction holds its connection,
  and an open backend transaction is held by the session that began it.
- `ImplementsSession`: every step of the proxy is a step of `Session`. Each
  client receives, in order, a prefix of exactly what a private backend
  would answer to its completed requests, so there is no cross-talk, no
  loss, no duplication and no reordering across checkouts.
- `RepliesDelivered`: a reply that is due is delivered, unless the session
  ends.

| Run | cfg | Expect | Checks |
|---|---|---|---|
| `sort_buffer` | `MCSortBuffer.cfg` | pass | `TypeOK`, `SortedResult`, `StableResult`. Up to 3 rows of 2 columns with values 1 and 2, and four ORDER BY lists (by position, descending then by name, an unknown name, an out-of-range position). |
| `sort_buffer_nan` | `MCSortBufferNaN.cfg` | violation | `SortedResult` with NaN among the values. |
| `router` | `MCRouter.cfg` | pass | `RouteAgreesWithSpec`. 1 or 2 shards and every flag combination. Every statement kind, keys on one shard, on two, or unresolvable, with and without Bind, plain ORDER BY, comments. |
| `router_order_by` | `MCRouterOrderBy.cfg` | violation | `RouteAgreesWithSpec` for `ORDER BY users.id` and `ORDER BY id USING <`. TLC reports the qualified column (finding 4). |
| `codec` | `MCCodec.cfg` | pass | `RoundTrip`, `IntColumnsRead`. |
| `codec_peer_frames` | `MCCodecPeerFrames.cfg` | violation | `PeerFramesDecode` for backend rows that contain NULL and for malformed client Parse and Password frames. Which of these TLC reports depends on the order it explores them; each one panics alone (findings 6 and 9). |
| `pool_timers` | `MCPoolTimers.cfg` | pass | `IdleHealthchecked`. All actions fire: waits, timeouts, evictions, spawns, discards past max_age, passed and failed healthchecks, bans and unbans. |
| `pool_connect_timeout` | `MCPoolTimersConnect.cfg` | violation | `ConnectBounded` with connect_timeout 1 and checkout_timeout 2. |

More properties:

- `SortedResult`: once the buffer is sorted and full, what the client gets
  (taken, then left) is a permutation of the rows with no pair out of
  ORDER BY order.
- `StableResult`: rows equal under the ORDER BY keep their arrival order.
- `RouteAgreesWithSpec` is an action property. Every `Router::query` step
  leaves the Command and counter that specification 4.5 gives. Without a
  routable statement, the previous Command and counter stay.
- `RoundTrip`: every message decodes to itself after encoding.
- `PeerFramesDecode`: every frame a peer sends decodes to a message or to
  an error, and never panics.
- `IntColumnsRead`: an int2, int4 or int8 column, in text or in binary,
  reads back through `DataRow::get_int` as the value the backend sent
  (`Field::data_type` and `is_text_encoding` select the reading).
- `IdleHealthchecked`: no idle connection goes longer than the healthcheck
  interval (plus the tick in which it falls due) since its last check or
  its return to the pool. A new connection is checked at once because
  `healthcheck_age` is `Duration::MAX` for it; a zero there breaks this.
- `ConnectBounded`: a connect (a caller's or the monitor's) is pending no
  longer than `connect_timeout` (specification 4.3 step 3 and section 5).

### Findings

The first two are code bugs in `client.rs`. Both break `ImplementsSession`
in `proxy_pipelined`, whose trace shows the first. The second shows up in
the same configuration with Parse and Sync taken out of `Writable`: the
Buffer is then always complete, and the shortest violation is the
cross-talk. Findings 4 and 5 both break `RouteAgreesWithSpec` in
`router_order_by`. Its trace shows finding 4; finding 5 shows up when the
run's statements use `UsingSort` alone.

1. **Buffer loss.** `select!` cancels `self.buffer()` when a server message
   wins the race, and the Parse already read into its local Buffer is
   dropped (client.rs:63).
2. **Cross-talk.** A second request is sent on the held connection before
   the first is answered. `done()` then becomes true at the first
   ReadyForQuery(Idle), and the connection goes back to the pool with the
   second request's results unread. The next client reads them
   (client.rs:80, :97). `Server::rollback` cannot catch this, because the
   state is Idle.
3. **NaN order** (sort_buffer.rs:72). `partial_cmp` answers `None` for
   NaN, and the closure returns `Equal` for the whole row. In TLC's trace,
   rows `(NaN,NaN)` and `(NaN,1)` sorted by column b stay in arrival order,
   where PostgreSQL puts 1 before NaN.
4. **Qualified ORDER BY column** (query.rs:226). `fields.first()` is the
   table `users`, not the column `id`, so the sort buffer skips it.
5. **ORDER BY ... USING** (query.rs:207). This is a divergence from the
   specification. `sortby_dir` 4 falls outside `0..=2` and is treated as
   DESC, but specification 4.5 says ascending unless DESC is written.
6. **NULL column** (data_row.rs:139). `get_i32() as usize` turns -1 into
   2^64-1, and the byte loop reads past the buffer and panics. Any NULL in
   a cross-shard result reaches this through `SortBuffer::add`.
7. **`equivalent` ignores the field count** (row_description.rs:163).
   This is a divergence from the specification. `zip` stops at the shorter
   list, so `()` is equivalent to `(a)`, but specification 4.7 requires
   the same number of fields. No run of the project keeps this question:
   `tlc -config MCCodecEquivalent.cfg MCCodec` reproduces it with the
   property `EquivalentMatchesSpec` over all pairs of descriptions.

8. **Connect timeout** (config.rs:27). This is a divergence from the
   specification. `Config::connect_timeout` builds its Duration from the
   `checkout_timeout` field. In TLC's trace the monitor starts a connect at
   time 0, and it is still pending at time 2 although connect_timeout is 1.
   The defaults (both 5000 ms) hide this.

9. **Client frames panic the decoder** (parse.rs:50, auth/password.rs:34).
   This is a divergence from the specification. `get_i16() as usize`
   turns a count of -1 into 2^64-1. Neither decoder checks the remaining
   length before `get_i32`. A client's malformed Parse or Password
   therefore panics, where specification 7 makes a framing error a
   ProtocolError that is returned.

10. **Replies stranded after a Flush** (client.rs:91). This is a code bug.
    `flush` is set when a request ends with Flush, and it is cleared after
    the first server message is forwarded. Every later message goes out
    with `send`, which only buffers, until a ReadyForQuery. A request
    ended by Flush gets no ReadyForQuery. In TLC's trace client c1 writes
    Parse, Parse, Flush. It receives one ParseComplete, while the second
    stays in the stream buffer. The client waits for it before writing
    again, so the session stutters for ever. Drivers that Parse and
    Describe a statement, then Flush and wait (to learn its parameter
    types), meet this. Specification 4.8 makes a Flush a sync point and
    copies every server message to the client.

## Fairness

| Action | Fairness | Why |
|---|---|---|
| `BufferRead` | weak | a tokio task whose socket has data is polled again |
| `ServerRead` | weak | the same |
| `Checkout` | weak | `server.get` returns once a connection is free |
| `CheckoutTimeout` | strong | the checkout timer fires even when availability keeps changing |
| `HealthStart`, `HealthEnd` | weak | the monitor loop keeps running; a started healthcheck completes (the model has no hang) |
| `ClientWrite`, `ServerCrash` | none | the environment need not act |

`RepliesDelivered` is checked under this fairness and nothing more.
Healthchecks are on (`Healthchecks = TRUE`) in `proxy_safety` only: with
them the refinement run outgrows five minutes. The refinement run checks
the client paths, and `proxy_safety` checks that a healthcheck never
breaks ownership, the pool bound or the cleanliness of idle connections.
`PoolTimers` checks only safety and assumes no fairness. A timer due
blocks `Tick`, which models tokio's timer firing on time. The run has
`CHECK_DEADLOCK FALSE` because the clock stops at `MaxTime`.

## Bounds

| Bound | Value | Why it is enough |
|---|---|---|
| Clients | 2 | enough for contention and cross-talk; ownership and pinning are pairwise |
| Connections | 2 | room to open a new one while another is idle; the LIFO order matters |
| Pool maximum | 1 | makes a client wait behind a transaction |
| Messages per client | 3 | covers a transaction, a pipelined pair, Parse; Sync, and Parse; Parse; Flush (two replies to one Flush request, the fewest that strand one) |
| Crashes | 1 | one dead idle or held connection exercises every error path |
| Sort buffer rows | 3 | three rows are enough for an insertion to shift past two others, and for a tie between two rows on either side of a third |
| Sort values | {1, 2} (and NaN) | enough for less, equal and greater in each column |
| Shards | 1, 2 | 1 takes the shortcut and the overwrite to 0; 2 makes keys disagree and round robin wrap |
| Key values | a, b (resolve to different shards), c (does not resolve) | one, several and no resolved shards |
| Codec strings | at most 2 bytes, including NUL | empty, non-empty and an embedded NUL in `c_string_buf` |
| Codec integers | -1, 4, 23, 25 | the sign of i16/i32 is visible only with a negative value |
| Integer columns | -300, -1, 0, 9, 10, 256 in int2/int4/int8, text and binary | a sign, a second digit, a carry into the second byte |
| Pool timers | max 2, min 1, checkout 2, idle 1, connect 1, max_age 3, healthcheck interval 2, ban 2, clock 6 | distinct durations so that each timer fires first somewhere; max 2 lets eviction (above min) and waiting (at max) both happen; 6 ticks outlive max_age, a healthcheck interval and a ban |
| Refinement run | 2 clients, 2 connections, pool max 1, 3 messages, no crash | the checked liveness run stays under five minutes; safety with a crash is covered by `proxy_safety` |

## Not modelled (yet), and why

- `Server::flush` follows the same Error rule as `send`.
- `cancel` opens a fresh socket and has no state.
- Counters (bytes and times).
- Replica selection around bans, and bans after repeated checkout
  errors (specification 6 leaves "repeated" open): the cluster selector is
  not among the sources. Bans after a failed healthcheck are modelled.
- `value.rs` (`Value::shard_placeholder`, `shard`, `From<AConst>`): no
  code among the sources calls it.
- `DataRow::get_float` and the f64 column formatting: floating point is out
  of TLC's reach. `is_float`, `is_varchar` and the `Field` constructors are
  only called from helpers outside the sources.
- `messages/mod.rs`: the `Message` wrapper and `debug` carry bytes and log,
  and nothing among the sources calls `debug`.
- Admin and main: no protocol state.

## Plan

Done in the first sitting: `ServerConn`, `Proxy`, `SortBuffer`, `Router`
and `Codec`, with their runs. Done in the second: the `Session` refinement,
`PoolTimers`, and the integer column readers. Done in the third: the
malformed client frames (`codec_peer_frames`), healthchecks in `Proxy`,
and healthchecks, bans and an unreliable backend in `PoolTimers`. Done in
the fourth: the client stream buffer and the `flush` flag in `Proxy`, the
Flush message, and the stranded-reply finding (`proxy_flush`).

Still to come:

1. **Router across sessions.** Several sessions share the round-robin
   counter. Liveness: every shard is eventually chosen.
2. **A sort-buffer step in `Proxy`.** Multi-shard reads would go through
   `SortBuffer`, composing the two modules.
3. **Flush in `proxy_safety`.** With Flush writable the run takes about
   4m40s, too close to the five-minute budget; a smaller instance (one
   fewer message kind) would make room.
4. **A crash in the refinement run**, if a cheaper encoding of the
   abstract session brings it under five minutes.
5. **Non-atomic pool handoff.** `PoolTimers.Hand` gives a returned
   connection to the first waiter in one step. The window of
   specification 4.3, where the waiter is woken and another caller takes
   the connection first, or the waiter's checkout timer fires after the
   wake-up, is not modelled; a property about it (a woken waiter is served
   or times out, and no connection stays idle with a waiter queued) would
   need that step split.
