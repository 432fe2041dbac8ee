# libnhttp in TLA+

libnhttp is an HTTP/1.1, HTTP/2 and WebSocket server library in C++20
coroutines. This directory models the parts of it whose correctness depends on
the order of steps or on where a byte stream is cut: threads around lock-free
and blocking queues, event loops, coroutines that share a connection, codecs
that keep state between reads, and files that change while they are served. TLC
checks the modules on small instances; TLAPS proves the main safety properties
of the queue, the thread pool, the event loop and the listener for every value
of the constants.

## The system and its parts

Paths are relative to `src/src/` (`include/` to `src/`).

| part | source | module | status |
|---|---|---|---|
| MPMC ring buffer | `include/nhttp/async/detail/mpmc_queue.hpp` | `MpmcQueue`, `BoundedFifo` | modelled, proved |
| thread pool | `async/thread_pool.cpp` | `ThreadPool` | modelled, proved |
| event loop, timers, epoll reactor | `async/io_context.cpp`, `async/socket.cpp`, `platform/posix/reactor.cpp` | `IoContext` | modelled, proved |
| IOCP reactor | `platform/win32/reactor.cpp` | `IocpReactor` | modelled |
| listener, pool of contexts | `server/listener.cpp`, `async/io_context_pool.cpp` | `Listener` | modelled, proved |
| HTTP/1.1 connection, bodies | `server/connection.cpp`, `server/http1_io.cpp`, `protocol/http_chunked.cpp`, `io/range_stream.cpp` | `Http1Connection` | modelled |
| HTTP/2 connection | `server/connection_h2.cpp` | `H2Connection` | modelled |
| HPACK | `http2/hpack.cpp` | `Hpack` | modelled |
| TLS stream | `tls/stream.cpp` | `TlsStream` | modelled |
| WebSocket | `ws/connection.cpp` | `WsConnection` | partly (no handshake) |
| multipart | `protocol/http_multipart.cpp` | `Multipart` | modelled |
| reverse proxy | `server/extensions/reverse_proxy.cpp` | `ReverseProxy` | partly (no header rewriting) |
| router, middleware, plugin scopes | `router/`, `plugin/plugin_scope.cpp` | `Router` | modelled |
| extensions, virtual paths, hosts | `server/extension.cpp`, `server/extensions/` | `Extensions` | modelled |
| static content, files, ranges | `server/extensions/static_content.cpp`, `io/file_stream.cpp`, `platform/posix/file_mapping.cpp` | `FileServing` | partly (reading, POSIX) |

How they interact: `listener::run` starts one thread per `io_context`. A
coroutine on each context (or on context 0, which then hands clients over)
accepts clients. Every client is a detached coroutine on one context that
peeks at its first bytes or shakes hands, and then runs an HTTP/1.1 or HTTP/2
connection. A request goes through the chain of extensions, of which the router,
the overlays and the proxy are some. Blocking file work goes to `thread_pool`
through the MPMC queue, and its completion is posted back to the context.
`ThreadPool` is checked against what `MpmcQueue` guarantees, and `IoContext` has the
pool as the place a coroutine comes back from.

## Modules

### MpmcQueue and BoundedFifo

One step is one access to shared memory: the load of a position, the load of a
slot's sequence number, the compare-and-swap, the move of the value, the store
that publishes or releases the slot. `enqueue_pos`, `dequeue_pos`, `sequence`
and `value` are the fields of the C++ class; `pc`, `pos` and `arg` are the
locals of each thread; `log`, `sent` and `delivered` are histories. `BoundedFifo` is
what the queue promises; a push takes effect at its compare-and-swap, and so
does a pop.

The model is sequentially consistent. The acquire and release orderings of the
sequence numbers are what makes this adequate for the slots; the relaxed loads
of the positions may read old values, and so may the model's threads, which keep
a position across any number of other threads' steps. Positions do not wrap at
2^64. `Slot(x)` is `x % Capacity`, which equals `x & mask_` for the powers of two
that callers must pass (`mpmc_queue.hpp:26`); the proofs need only `Capacity >= 2`.

The comments at `mpmc_queue.hpp:54-55` and `91-92` say that false is answered
only when the queue is full or empty. `FalseHasACause` states it exactly: false is
also answered while the one slot that is needed is claimed by another thread and
not yet released or published.

### ThreadPool

`enqueue`, `worker_loop` and the destructor, with the mutex (`lock`), the
condition variable (`waiting`), `stopping` and the queue. The queue may answer
false in the cases that `FalseHasACause` leaves open, so the pool is checked
against the queue as it is, not against an ideal one.

### IoContext

`run` with its stages (posted handles, timers, wait, ready events), `post` and
`stop` from other threads, `update_interest`, `forget`, and the epoll set with
its eventfd. `work` says which directions of which sockets a coroutine waits for, one
at a time. It may wait, sleep, go to the thread pool and come back by `post`, or
finish; the last of the coroutines that share a socket closes it. The pumps of a
proxied upgrade are different (`reverse_proxy.cpp:52-73`): a pump that ends closes the
socket it writes to, from which the other one reads. `close` forgets the waiters
(`CutOff`) and frees the registration, and an event that `epoll_wait` has returned for
it is then handled on freed memory (`ProcessFreed`: it finds no waiters, or the loop
goes wrong). A sleep takes at least one tick of the clock; the clock is bounded by
`MaxTime`.

### IocpReactor

The same contract over a completion port. A `socket_state` is a number, new for
each `add`, so that a completion that carries the address of a freed state is
told from one of its successor. The network, the Win32 thread pool that fires
the one-shot waits, `TransmitFile` and other threads' `wake` are actors of their
own. Coroutines that a completed `TransmitFile` resumes run before the events of the
same `wait` are looked at. The sockets in `Serial` are used by one coroutine each, as
those of HTTP/1.1 connections are; the others have a reader and a writer and may be
closed under either. The model stops at the first use of a freed state.

### Listener

`listen` and `listen_tls` (with and without `SO_REUSEPORT`, and failing after some
contexts were bound), `run`, `stop`, the accept loops, the hand-over to another
context, the limit that both endpoints share, the peek or the handshake, and the
end of a connection. `AcceptThrows` is the error of a connection that failed while
it was pending, which Linux reports from `accept()`.

### H2Connection and Hpack

`H2Connection`: the frame loop, the stream table, `writer_lock`, the send windows,
dispatch and the responders. Coroutines of a connection share a thread, so the
steps are the stretches between suspensions; resuming a coroutine runs it nested
in the one that resumes it, which `stack` models. The peer is a session: the frames
it may send, how many, whether it keeps to the stream states, and the bodies that
handlers answer. SETTINGS_INITIAL_WINDOW_SIZE is taken for the streams opened after
it, as in the code, which never applies it to open ones; the peer's grant is
counted the same way. `peer_max_frame_size_` is never assigned in the code and is the
constant `MaxFrameSize`. A header block is complete, in progress or malformed. A
response body comes in one piece, cut into frames by the windows. What
responders do after `run()` returned is outside the model.

`Hpack`: `hpack_decoder` on real bytes, against a peer that keeps the table RFC 7541
describes and writes each field in any representation, and `hpack_encoder` read
back by the decoder. A block that does not decode is answered 400 on its stream and
the connection goes on. The static table is 61 opaque entries, and the Huffman code
is that of the few characters in use.

### Http1Connection

`connection::run` with the body streams. A line is one token and so is a unit of
body data; a read returns any number of the tokens sent, so that requests are
split and joined anywhere. `read_buffer` is the connection's buffer, `body` is the
decoder with its own read-ahead buffer. The handler reads as much of the body as
it likes, with buffers of any size up to `ReadSize`. The client may pipeline, send
malformed lines, and go away at any time with a part of what it sent.

### TlsStream, WsConnection, Multipart, ReverseProxy

`TlsStream`: `accept`, `connect`, `read`, `write` and `close` over the two memory BIOs.
OpenSSL is external: it consumes records and makes numbered units of ciphertext.
One coroutine uses the stream, or two do as in a proxied upgrade.

`WsConnection`: `receive` with its buffer, fragments and control frames, the sends
and `close`. Lengths have their three encodings, with smaller digits and a smaller
inline limit than the code's 256 and 125; masking is addition modulo 2. A frame is
written in pieces of any size, and the stream may throw between two of them.

`Multipart`: `next_part` and the part streams on characters, with bodies that hold
pieces of the delimiter and messages that are cut off.

`ReverseProxy`: `on_handle` with round-robin upstreams, the connection and its TLS,
the request sent on, the response read and relayed, and the two pumps of an
upgraded connection.

### Router, Extensions, FileServing

`Router`: a route is named by the path of names from the root. Registration calls go
through routes or through groups whose bodies may be nested; a request is
matched by `RouteMatch`, which follows `route::route_match`, and compared with a
definition by sets (`Fits`, `NotBetter`). Middleware may answer, throw or go on;
`plugin_scope` is one kind of it.

`Extensions`: registries by priority, `vpath` and `vhost` with registries of their own,
and the leaves. An exception of a leaf passes through `vpath` without its `pop_back`,
which nobody sees, since it ends the request. What extensions leave to each other is in `tags`: the stack of
subpaths and the caches of overlays and single files.

`FileServing`: one request for a file while other processes replace, resize or
remove it. A byte is the pair of its inode and its offset. The body goes out by
`sendfile`, mapped windows or `fread`. The numbers of a range wrap as an `int64_t` does,
with `IntLimit` for 2^63.

## Runs

| run | shows | instance |
|---|---|---|
| `queue` | slots are exclusive, nothing is lost or duplicated, false answers have a cause, the ring implements `BoundedFifo`, every call returns | 2 producers, 2 consumers, 2 slots, 2 items each |
| `pool` | a job is in one place, the destructor drains and returns, every job runs | 2 callers, 2 workers, queue of 2, 2 jobs each |
| `listener` | the connection count is exact, the limit is overrun by less than the number of contexts, a client handed over is taken up, a stop that finds `run` blocked works | 3 clients of 2 endpoints, 2 contexts, limit 1 |
| `listener_stop_lost` | violation: a stop between the predicate and the wait is lost | 1 client, 2 contexts |
| `io` | no coroutine is resumed twice, only a pump loses another or frees a registration the batch refers to, waiters are resumed, stop ends the loop | 2 sockets, 3 workloads of 2 coroutines, 1 tick |
| `io_freed_registration` | violation: a pump that ends closes the socket of the next event | the pumps of a splice |
| `h2` | frames never interleave, stream windows are respected, the connection window is overspent by at most a frame per further stream, no stalled writer, one complete response per stream, responses progress | 2 streams, up to 4 frames, 3 kinds of peers |
| `h2_broken_stuck` | violation: a failed write leaves the lock locked and `run` waiting | 2 streams, 2 frames |
| `http1` | the next request is found where it starts, bodies reach the handler intact, responses are framed and in order, every request is answered | 2 requests, each pair of framings; reads of 2 tokens |
| `site` | matching keeps its priorities and captures, groups reach their routes, scopes release and report, subpaths follow the mounts, overlays serve their own files, a body is one range of one file, and the range that was asked for | 3 registration calls; 10 extensions in every order; files of 0, 2 or 5 bytes, windows of 2, 2 changes, `IntLimit` 16 |
| | readiness of a socket with one user reaches the loop; header blocks, multipart bodies, WebSocket messages, ciphertext, relayed and spliced bytes come out as they went in | 2 sockets (one with a reader and a writer), 2 states, 2 queued completions; blocks of 2 instructions, table of 70; 16 messages, reads of 1, 3 or 8; 3 scripts of frames; 4 TLS calls; 4 proxied requests |
| `mapped_truncation` | violation: a mapped file that shrinks is not end of file | the file server of `site` |
| `iocp_lost_readiness` | violation: a completion without a wanted bit uses up the wait | 2 sockets with a reader and a writer, 3 states |

`MCSite` puts nine independent modules side by side. The variable `moving`, chosen at
the start, says which one of them moves; the others stay in their initial state, so that the states of such a run are the sum and
not the product of those of its modules. It is not a composition: it asks
each module's own questions in one run.

The bounds are chosen so that the interesting cases happen: a ring of two slots
with four items goes round twice, so that stale positions of an earlier lap
occur; a pool queue of two can be full and empty with both callers inside; one
connection allowed and two contexts is the smallest race for the limit; windows
and frames smaller than the bodies make responses wait and overlap; chunks of
two units with reads of two tokens put the end of a chunk, its CRLF and the
next size line on both sides of a read; a table of 70 holds two small entries
and a value of 127 characters reaches the limit of a prefix; a file of five
bytes takes three windows.

Runs whose system may come to rest (all clients served, connection closed, loop
stopped, no more input) do not check for deadlock. `queue` does, since its
consumers can always call `try_pop` again. Progress is checked by the temporal
properties.

### Disagreements with comments

- `stop()` is said to make `run()` return (`listener.hpp:71`). It stores the flag
  and notifies without the mutex, so it can fall between the predicate and the
  wait.
- A write to a reset connection is said to be an ordinary closed connection
  (`listener.cpp:25-26`). `send_frame` does not unlock when the write throws.
- A file truncated after opening is said to be treated "like EOF rather than
  reading garbage" (`file_stream.cpp:200`). `ensure_window` still returns its
  window: reading it raises SIGBUS, or gives zeros in the last page.
- An operation on a socket is said to resume "once the reactor observes readiness"
  (`socket.hpp:13-14`). A pump that ends closes the other pump's socket; if an event
  of that socket is in the same batch, its waiter is gone and its `user_data` dangles.
- FD_WRITE is said to be reported "reliably" (`reactor.cpp:46-50`). The event object stays
  set over `arm`, so a new one-shot wait can fire for an old event; its completion
  finds no recorded bit, `wait` goes on without arming again (`reactor.cpp:191-192`), and the
  next readiness reaches nobody.

### Known not to hold

The notes of the hazards in `PROJECT.json` say more about these; the properties that
are checked leave them out by their premises: `accept()` throwing out of its loop ends the process; a response
that waits for window is out of reach after RST_STREAM; trailers replace the stream
object; a malformed header block can be answered twice; a request pipelined behind
a chunked one is lost with the decoder's read-ahead; a response body shorter than
its Content-Length leaves a kept-alive connection out of step; a table size that
is lowered and raised again ends the connection; a Range of an empty file, or in
another unit, is answered with bytes 0-0; an overlay mounted twice answers from
its cache; a nested group registered without a path recurses; two coroutines that
write to one WebSocket or one TLS stream mix their bytes; a pump that ends drops
the other pump's waiter; a proxied response that ends with its connection is
relayed without its body; a range number of 2^63 and more is taken for another one;
of a file that can be opened and not mapped nothing is sent after the head
(`file_stream.cpp:199-200`; `file_stream.hpp:41-43` promises `fread`); `remove` frees a state
whose address is still queued in the port, and `wait` reads it (`reactor.cpp:127-140`).

## Fairness

- Threads that are not blocked go on: weak fairness of their steps. A
  compare-and-swap, the lock of a mutex and a push that yields and retries get
  strong fairness: a thread that tries again and again succeeds if it can
  again and again. The C++ scheduler and `std::mutex` do not promise this in
  so many words; without it no retry loop has a liveness property.
- The event loop and a resumed coroutine go on (weak fairness); the clock
  ticks; a thread that has begun `post` or `stop` finishes it.
- HTTP/2: a write completes if it can again and again, that is, the peer keeps
  reading. Nothing makes the peer send.
- HTTP/1.1: a handler returns, the coroutine goes on unless it waits for the
  client. Nothing makes the client send.
- Listener: `run` and a begun `stop` go on. A context takes up posted work and
  sees `stopping_` (strong fairness): each round of `io_context::run` does both,
  however many clients come. Connections need not end.
- `site` checks safety only and assumes no fairness.

## Proofs

| module | theorem | says |
|---|---|---|
| `MpmcQueueProofs` | `TypeCorrect`, `RingPhases` | types; the inductive invariant `QueueInv` |
| | `NoSlotRace` | no two threads are inside one slot, so the plain moves of values do not race |
| | `FalseExplained` | the causes of a false answer |
| `MpmcQueueFifoProofs` | `ItemsConserved` | nothing is lost, duplicated or received half-written |
| | `QueueIsFifo` | the ring implements `BoundedFifo` |
| `ThreadPoolProofs` | `JobsConserved` | a job is in exactly one place, and runs at most once |
| `ListenerProofs` | `LimitHolds` | the count is exact, the overrun is less than the number of contexts |
| `IoContextProofs` | `OnlyPumpsFree` | an event of the batch refers to an open socket, unless a pump that ended closed it |
| | `CoroutinesConserved` | a coroutine is in exactly one place, or in none because the other pump closed a socket under it |

Queue. Exclusivity alone is not inductive, because a thread's right to a slot
rests on a sequence number it read earlier. `QueueInv` says, for each of the
`Capacity` positions from `dequeue_pos` on, in which phase its slot is, as told by
its sequence number (published or being written below `enqueue_pos`; free or
still being read from there on), and what a thread about to claim still knows
if its position is current. Lemmas on `%` show that these positions fall on
distinct slots and cover the ring (`SlotInjective`, `SlotCovered`); there is one
lemma per group of actions, and `NextInv` combines them. The refinement follows
action by action: the two claims are the abstract push and pop, the read is the
delivery, every other step stutters. Assumptions: `CapacityAssumption` (a ring of
one slot is excluded; the header discusses it as degenerate at
`mpmc_queue.hpp:28-38`), `ThreadAssumption` and `NoneAssumption`.

Thread pool. The property counts; the invariant `Placed` says it without
counting: no job twice in the queue, no job in two hands, none both queued, held
or run, and a job is claimed exactly when it is one of these. `HoldsWhileRunning`
ties what a worker holds to where it is. `PlacedIsOnePlace` goes from one form to
the other. Assumption: `PoolAssumption`.

Listener. A context between the load and the `fetch_add` has room reserved only
if each such context holds an admitted client of its own (`HoldsAdmitted`) and a
client handed over is posted once (`HandedOnce`). The bound is on the count plus
those contexts. Assumption: `ListenerAssumption`.

Event loop. `OnlyPumpsFreeEarly` survives the end of a coroutine because that
coroutine is one of those being resumed, and the batch names each socket once
(`BatchInv`): a socket of a later event has a waiter, hence another coroutine that
shares it and has not finished (`SlotsInv` ties waiters, interest and the kernel's set
to what the coroutines use). `CoroutineInOnePlace` counts; `PlaceInv` says it without
counting: the queues name no coroutine twice, and there is a function from
coroutines to the kind of place each is in, so that the places exclude one another.
`KindCounts` goes from that form to the count. A step moves one coroutine from one
kind to another; a pump that closes a socket moves the other one to no place, and
`CutOff` holds of it from then on. Assumption: `ContextAssumption`, in particular that no
two coroutines wait in the same slot.

Each inductive invariant was model-checked before it was proved. Only
model-checked: all liveness properties (fairness is out of the prover's reach),
the modules with recursive operators (`Hpack`, `Router` and others), and every other
property.

## Not modelled

- Coroutine tasks (`async/task.hpp`, `sync_wait.hpp`): language machinery; a
  coroutine is a handle that is resumed.
- Text codecs (`protocol/` for URLs, dates, MIME types, statuses), `ws/sha1.cpp`,
  `ws/handshake.cpp`, `http2/frame.cpp`: stateless work on characters and fixed
  layouts, left to unit tests.
- `platform/` sockets, addresses and file information, `io/socket_stream.cpp`,
  `io/memory_stream.cpp`: wrappers of system calls and of memory. Windows file
  mappings differ from the POSIX ones in what a truncation does.
- `plugin/plugin_manager.cpp`: runs once and in order, before and after the server.
  A hook that throws skips the `join` of `run_on_fresh_context` (`:25-31`), which ends the
  process.
- `tls/context.cpp`: configuration of OpenSSL.
