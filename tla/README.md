# npb-rpc in TLA+

TLA+ models of `npb-rpc` (`src/src/npb_rpc`): a typed unary RPC library over
ZeroMQ, NNG or iceoryx2, with service discovery and Redis-backed events beside
it. The modules model the control of the code, TLC checks them on small
instances, and TLAPS proves the properties that matter most for all instances.

## Inventory

| Part | State it keeps | Operations | Interacts with |
|---|---|---|---|
| `_base.py` | method registry, `_closed` | `call`, `serve_once`, `serve_forever`, `stop`, `register` | implemented by the three transports |
| `_protocol.py`, `_errors.py` | none; envelopes are values | `encode_envelope`, `decode_envelope`, `RpcContext.abort` | every transport |
| `_zmq.py` | client: socket, lock, closed flag; server: socket, `_stopping`, closed flag | `call`, `close`; `serve_once`, `serve_forever`, `stop`, `close` | DEALER/ROUTER pipes of libzmq |
| `_nng.py`, `_framing.py` | the same over NNG sockets; one frame per message | the same | NNG |
| `_iceoryx2.py` | ports, pending response, `RLock`, borrowed responses | `call`, `call_borrowed`, `serve_once`, ... | shared memory |
| `_event.py` | in Redis: a counter, metadata per slot, bounded streams; per object: slot, generation, cursor | `create`, `set`, `wait`, `refresh_lease`, `release` | Redis, through five Lua scripts |
| `_discovery.py` | service records, as files or as Redis keys with a TTL | `register`, `heartbeat`, `unregister`, `list_*`, `resolve` | several servers and clients at once |
| `_service.py` | a server, its record, a heartbeat thread | `serve_forever`, `stop`, `close`, `call` | transports and discovery |
| `utils.py` | a target holds the discovery object it shares with the clients it opens, one per call | API reflection, FastAPI routes | all of the above |

### What is hard in each part, and what makes it correct

**ZeroMQ transport.** A client object is shared by threads that take turns on
one DEALER socket under a lock. Replies to calls that timed out stay in the
socket and are found by the next call. The deadline is fixed before the wait
for the lock and travels with the request, so that the server can refuse what
its caller no longer waits for. Connections break, pipes fill up, the server
process dies and comes back, `stop()` and both `close()` come from other
threads. Correct means: a caller is told the outcome of its own call; a handler
runs at most once per call; what the caller is told agrees with whether the
handler ran; a call that timed out is not accepted afterwards; every call with
a deadline ends, and every call ends while the server serves; a serving loop
that was told to stop ends.

**Events.** Processes that know nothing of each other create, set, refresh,
release and await events in a pool of slots. Each slot has a generation, and a
stream trimmed to a few entries that all its generations share. Scripts run
atomically, but the clock they are given, the slot they probe and the snapshot
a waiter took are older than the script. Correct means: an event has an
identity of its own and one outcome; what a waiter is told is true of its own
event; no wakeup is lost, whatever is trimmed; the status only moves forward;
nobody loses a lease or a retained slot early; "exhausted" is only said of a
pool that is.

**NNG transport.** Every message is one frame. A REQ socket keeps one
outstanding request, drops replies to any other, and transmits its request
again, unasked, when a connection breaks or a minute has passed: the handler of
one call may run twice. The receive timeout is the whole timeout again after a
wait for the lock, and a reply that cannot be sent ends the server's loop.
Correct means: as over ZeroMQ, but for runs of the handler, of which there are
no more than copies transmitted; a caller is told the answer to a copy of its own
request; a call that holds the socket and has a deadline ends.

**iceoryx2 transport.** Responses live in shared memory and are borrowed. One that
the caller has not closed keeps the client's lock, and the port's only active
request. Client and server poll; the client's deadline bounds the wait for the
lock, too; its `close()` takes no lock and has to wake calls without a deadline.
Errors of a handler's own calls look like errors of the server's port. Correct
means: the contract of a unary call; a port is not used again while a pending
response lives; a call with a deadline ends, whoever borrows; `close()` ends the
calls that wait; `stop()` and `close()` end the serving loop, and `close()` gets
its lock.

**Discovery.** Files are written to a temporary name and renamed; a service's
directory comes and goes with the records in it; whoever lists prunes what it
finds stale, and between its second read and its unlink another process may
write. In Redis a record is a key with a TTL, found by a scan that is not
atomic. Correct means: a server that beats in time is listed; one that lost its
record is listed again; one that unregistered is not; a lookup does not miss
what was listed all along, and finds nothing that was never listed meanwhile.

**Discovered server and client.** A heartbeat thread beside the serving thread:
it must be joined before the record is removed, or a last heartbeat leaves a
record of a server that is gone. A failure in the middle of starting or
stopping must leave neither a thread nor a record behind.

**Envelope.** Pure: what `decode_envelope` accepts is what `encode_envelope`
makes, and the frame of NNG and iceoryx2 gives back both of its parts.

**utils.** Reflection and delegation; the one piece of shared state is the
discovery object a target lends to the clients it makes.

`PROJECT.json` lists every one of these hazards at the line where it bites,
with the properties that would notice it going wrong.

## Modules

| Module | What it models |
|---|---|
| `UnaryRpc` | the contract of a unary call, for any transport (`_base.py`) |
| `RepeatedRpc` | the same for a transport that may transmit a request again (NNG) |
| `RpcMessages` | requests, replies, deadlines and the server's checks, as all transports have them |
| `ZmqWire` | the pipes of libzmq and how they fail (external) |
| `ZmqClient` | `ZmqRpcClient.call` and `close` |
| `ZmqServer` | `ZmqRpcServer.serve_forever`, `serve_once`, `stop`, `close`; a crash |
| `ZmqRpc` | clients, server and network together; properties; refinement of `UnaryRpc` |
| `NngRpc` | `NngRpcClient`, `NngRpcServer` and the REQ sockets between them; refinement of `RepeatedRpc` |
| `Iceoryx2Rpc` | `Iceoryx2RpcClient`, `Iceoryx2BorrowedResponse`, `Iceoryx2RpcServer`; refinement of `UnaryRpc` |
| `EventPromise` | what events promise, whatever stores them |
| `EventSlots` | the Lua scripts `_NEXT_SLOT`, `_TRY_CLAIM`, `_COMPLETE`, `_REFRESH_LEASE`, `_RELEASE` on counter, metadata and streams |
| `RpcEvent` | `create`, `set`, `refresh_lease`, `release`, `wait` of any number of processes; properties; refinement of `EventPromise` |
| `RpcEventScan` | `RpcEvent` with an observer of what `create` could have claimed |
| `Registry` | what service discovery promises, whatever stores the records |
| `DiscoveredServer` | `DiscoveredRpcServer.serve_forever`, its heartbeat thread, a crash |
| `FilesystemDiscovery` | `FilesystemDiscovery` for one service: files, directory, `register`, `heartbeat`, `unregister`, `resolve`; extends `DiscoveredServer` |
| `DiscoveryWatch` | `FilesystemDiscovery` with observers of lookups and lateness; refinement of `Registry` |
| `RedisDiscovery` | `RedisDiscovery` for one service: keys with a time to live, commands that fail or whose reply is lost, `SCAN` and `MGET`; extends `DiscoveredServer`; refinement of `Registry` |
| `ZmqRpcProofs`, `NngRpcProofs`, `Iceoryx2RpcProofs` | the theorems about the transports; `RpcMessagesProofs` has the lemmas they share |
| `RpcEventProofs` | the theorems about events, and about the scan of `create` |
| `RedisDiscoveryProofs`, `DiscoveryWatchProofs` | the theorems about discovery; `DiscoveredServerProofs` has the lemmas about the two threads of a server |
| `MCZmqRpc`, `MCNngRpc`, `MCIceoryx2Rpc`, `MCRpcEvent`, `MCRpcEventScan`, `MCFilesystemDiscovery`, `MCDiscoveryWatch`, `MCRedisDiscovery` | small instances |

### ZeroMQ: model and code

`ZmqClient.pc[c]` and `ZmqServer.server` say where a thread is. There is one
value for each point of the code at which another thread, the peer or the clock
can make a difference; the code between two such points is one action.

| Code (`_zmq.py`) | Action |
|---|---|
| `call`: arguments, limits and the deadline | `Begin`, `BeginFails` |
| `with self._lock` | `Acquire`; released in `Finish` on every way out |
| `send_multipart`, `zmq.Again`, `ZMQError` | `Send`, `SendFails` |
| the remaining time at the head of the loop | `LoopHead` |
| `poll` and `recv_multipart`, a foreign ID skipped, the status mapped | `Receive` with `IsResponseTo`, `Outcome` |
| `poll` that comes back empty or fails | `PollExpires`, `PollFails` |
| client `close`: the socket, then the flag | `CloseSocket`, `CloseFlag` |
| `serve_forever`: clear `_stopping`, test it | `ServeForever`, `ClearStopping`, `LoopTest` |
| `serve_once`: closed check, poll, checks in their order | `EnterServeOnce`, `PollIdle`, `PollError`, `Take` with `Rejection` |
| decoding the payload, running the handler | `Dispatch`, `HandlerEnd`, `HandlerBadAbort` |
| sending the one reply | `SendReply` |
| `stop`, and server `close` in its three steps | `Stop`, `CloseSetsStopping`, `CloseServerSocket`, `CloseServerFlag` |
| the process dies and is started again | `Restart` |

A request is its ID, deadline and *shape*, where the shape is what the server's
checks tell apart: an envelope that cannot be read, an unknown method, a payload
above the limit, one that does not decode, a good one. A response is its ID,
status and whether it suits the caller. A call is its request ID: `uuid4` is
taken to be fresh. The ways a handler may end are `AllHandlerEnds`. All this is `RpcMessages`, which
the three transports share. One clock
stands for `time.time_ns()` on both sides: processes whose clocks disagree are
not modelled. What happens to a poll whose socket another thread closes is
undefined in libzmq; it may fail, time out or go on. `taken`, `runs` and `answer`
are history: no guard reads them.

### NNG: model and code

| Code (`_nng.py`) | Action |
|---|---|
| `call`: arguments, limits, deadline, frame | `Begin`, `BeginFails` |
| `with self._lock`, the socket's `recv_timeout` | `Acquire`; both restored in `Finish` |
| `send`, `recv` and their errors | `Send`, `SendFails`, `Receive`, `RecvFails` |
| `_unpack_message` and the checks of the reply | `NngOutcome` |
| client `close` | `CloseSocket`, `CloseFlag` |
| `serve_forever`, and the poll of `serve_once` | `ServeForever`, `ClearStopping`, `LoopTest`, `PollEnds` |
| the checks of `serve_once` in their order | `Take` with `Unpacks`, `NngRejection` |
| decoding the payload, running the handler | `Dispatch`, `HandlerEnd` |
| `_send`, `_send_error` | `Respond` |
| `stop`, server `close` | `Stop`, `CloseServer`, `CloseServerSocket` |
| NNG itself | `Resend`, `Discard`, `Break`, `LoseConnection`, `ResendTimer` |

What the code leaves to NNG is modelled as the REQ and REP protocols have it:
`outstanding[cl]` is the request the socket keeps, `owed[cl]` says that it has to
be transmitted (again), and `routable` that the pipe of the request in hand still
exists. An envelope that cannot be read has no ID to answer to: the server makes one
up, and the caller takes the reply for somebody else's (`"unaddressed"`,
`RpcProtocolError`). On a closed socket reading or restoring `recv_timeout`
raises `pynng.Closed`, which is none of the library's errors (`"raw_error"`).
`copies`, `taken`, `runs` and `answers` are history.

### iceoryx2: model and code

| Code (`_iceoryx2.py`) | Action |
|---|---|
| `_start_call`: arguments, the two clock reads | `Begin` |
| the timed acquire of the lock | `Acquire`, `AcquireTimesOut` |
| the head of the loop: closing, expired | `LoopHead` with `Closing`, `TimedOut` |
| `_send_model`, no server connected, errors | `Send`, `SendUnreceived`, `SendFails` with `Receivable` |
| `pending.receive()`, `_idle_wait` | `Receive`, `Idle` |
| the ways out of `_start_call`, `call`, `call_borrowed` | `Finish` with `DropPending` |
| `Iceoryx2BorrowedResponse.close` | `CloseBorrowed` |
| client `close` | `CloseClient` |
| `serve_forever`, `serve_once` with its lock | `ServeForever`, `ClearStopping`, `LoopTest`, `EnterServeOnce`, `PollEnds` |
| `_dispatch` | `Take`, `Dispatch`, `HandlerEnd`, `HandlerFails` |
| `_send_empty`, `_send_model_response` | `Deliver` with `Connected` |
| `stop`, server `close` with the lock it waits for | `Stop`, `CloseServer`, `DeletePort` |

`pending[cl]` is the call whose pending response lives, `mail[cl]` the reply in it,
`buffer[cl]` the request the server has not received: `_open_port` asks for one
server, one active request per client, and for requests without room to be
discarded. The caller's own deadline and the one it sends come from two reads of
the clock, up to `MaxBetween` apart, so that a call may give up "early", before
the deadline it sent; only the latter is the server's to keep. A wait strategy
only changes how long an idle wait takes, and is left out. The three steps of
the client's `close` are one action: in between a call sees what it sees before or
after all of them. `taken`, `runs` and `answer` are history.

### Events: model and code

The Lua scripts are the operators of `EventSlots`; Redis runs each of them at
once. An action of `RpcEvent` is a script together with the Python around it,
and reading the clock is an action of its own, since a script acts on a time its
caller read before. `log[s]` keeps every entry that was ever added to the stream
of slot `s`; what Redis still has of it after `MAXLEN` is `Kept(s)`, and a stream
ID is a position in `log[s]`. `XREAD` can only return kept entries after the last
position read (`Fresh`). Metadata and stream of a slot never expire in Redis by
themselves, and nothing else deletes them.

| Code (`_event.py`) | Action |
|---|---|
| `create`: `_NEXT_SLOT`, `_now_ms`, the scan | `CreateStart`, `ReadClock`, `Claimed` and `Refused` with `Probed` |
| `_TRY_CLAIM` | `Claim`, `Abandon`, `AbandonAndClaim`, `Refuse` |
| `set` | `Set` with `Complete`, at any clock read before |
| `refresh_lease`, `release` | `Refresh`, `ReleaseEvent` |
| `status`, `_snapshot` | `Status` |
| `wait` | `WaitStart`, `Snapshot`, `Read` with `Decides`, `TimedOut` |

An event whose owner's lease ran out is `failed` with the error "event owner
lease expired"; the model calls that state `abandoned`, so that properties can
tell it from a `set("failed")`. All creates share one `pool_size` and one
`stream_maxlen`; retentions and leases are per event. Redis keeps its data and
stays reachable: a connection error raises out of every operation and leaves
the state a script made, which is the state between two actions anyway.
`acked` is history, and so is `spare` in `RpcEventScan`.

### Discovery in files: model and code

Each system call on the shared directory is a step of its own, for nothing locks
it. `pc[Main(s)]` and `pc[Heart(s)]` follow the two threads of a server,
`step[t]` the write or removal a thread is in, `lpc[l]` a lookup.

| Code (`_service.py`, `_discovery.py`) | Action |
|---|---|
| `serve_forever`: make a record, register it | `ServeForever`, then `MakeDirectory`, `MakeTemporary` or `MakeTemporaryFails`, `Replace` |
| flags, and the heartbeat thread starts | `Spawn`; `SpawnFails` if it cannot |
| the wrapped server returns or raises; `finally` | `ServeEnds`, `Joined` |
| the heartbeat loop | `Beat` and the same writes, `HeartStops` |
| `unregister`: unlink, then `rmdir` | `Unlink` or `UnlinkFindsNothing`, `RemoveDirectory` |
| `list_instances`: cutoff, glob, one read per file | `Look`, `Glob`, `Read`, `AllRead` |
| `_prune_if_still_stale`: read again, unlink | `Recheck`, `PruneUnlink` |
| `resolve`: the round robin counter | `Pick` |
| the process dies, leaving record and temporary file | `Die` |

A record is who wrote it and when: `file[i]` is the file of instance ID `i`,
whatever server has that ID. A temporary file only matters because a directory
with one in it cannot be removed: `temps` are those being written, `litter` says
that a dead process left one, which nothing cleans up. Lookups share one
discovery object, and with it the round robin counter. `heartbeat_interval` is
not compared with `heartbeat_timeout` in the code, so a beat comes at any time,
or too late. `untidy`, `possible`, `certain` and `late` are history.

The prune race is in the model and it happens: a heartbeat that renames its
file into place between `Recheck` and `PruneUnlink` is lost. So "a live server is
always listed" is false, and is not what the project claims. What holds is that
a server which was never late is spared (`PunctualStaysListed`), for its record is
not stale when a lookup reads it, and that one which was hit is listed again
with its next heartbeat (`ListedAgain`). In the same way a server whose heartbeat
thread cannot be started keeps its record without serving, as a dead one does:
`Registry` lets the records of the dead stay until they are stale.

### Discovery in Redis: model and code

| Code (`_discovery.py`) | Action |
|---|---|
| `register`, `heartbeat`: one `SET` with `PX` | `Register`, `RegisterFails` with `Written` |
| `unregister`: one `DEL` | `Unregister`, `UnregisterFails` with `Without` |
| a command that took effect and whose reply is lost | `RegisterUnheard`, `UnregisterUnheard` |
| `list_instances`: `SCAN` page by page, `MGET`, errors | `Look`, `Scan`, `MGet`, `LookFails` |
| `resolve`: order and round robin | `Before`, `Pick` |
| Redis: keys grow old and expire | `Elapse` with `Aged` |

The threads of `DiscoveredRpcServer` are those of `DiscoveredServer`, as for files.
Nobody reads `heartbeat_at`: Redis alone measures time, so that the clock of the
processes stands still here, and a key's rest of life is part of it. `SCAN` promises to
return the keys that are there all along; of the others it may return those it
comes to while they are there. A server that left with a failed command counts as
dead (`adrift`): its key may stay until it expires, as a crashed server's does.

## Runs

| Run | Question | What it shows |
|---|---|---|
| `zmq_faults` | two threads on one client, lost messages, one server crash, every request shape and every handler end | no caller gets a reply that is not its own, and the poll loop discards only replies nobody waits for; no handler runs twice; `ok` means it ran, a refusal that it did not; nothing is accepted after its caller timed out; the contract `UnaryRpc` |
| `zmq_ending` | losses, a crash and a `close` of the client, all timeouts finite | each call ends |
| `zmq_served` | no faults, timeouts finite or none, `stop` and `close` of the server at any point | each call ends unless the loop was stopped; the loop ends after `stop` or `close` |
| `nng_resent` | two threads on one client; a broken connection, resend or restart; a stalled reply; `stop` and both `close` | the contract `RepeatedRpc`: the handler may run for each copy, and callers are told answers to their own requests; calls that hold the socket end |
| `iceoryx2_serving` | a call and a borrowing call on one client; `stop`, both `close`, a crash and a restart | the port's one active request is respected; calls with deadlines end whoever borrows, `close` ends the others; `close` of the server gets its lock; the contract `UnaryRpc` |
| `events_reuse` | three creates and two waits on one slot, a stream of two entries | identity, one outcome, honest waits, no lost wakeup, statuses only forward, nothing taken early; each wait on an ended or recycled event ends, and each with a timeout; the contract `EventPromise` |
| `events_exhausted` | four creates scan three slots at once | "exhausted" is said only if no slot was claimable during the whole scan |
| `discovery_lookups` | two servers come, beat, leave, die or break; one lookup prunes | no server that left in order is listed; punctual servers stay listed; the contract `Registry` |
| `discovery_beating` | two servers of one ID that may die, one lookup, fair | a serving server that lost its record is listed again; the teardown ends |
| `redis_expiring` | two servers, expiring keys, failing commands, lost replies, one lookup | no server that left in order is listed; the keys of the dead expire; the contract `Registry` |

Two runs show that what a docstring says is not what the code does;
`PROJECT.json` quotes the lines:

- `zmq_abort_lost`: `abort(details=...)` with details that are not JSON or too large
  makes `encode_envelope` raise while the abort is reported. The error leaves
  `serve_once`: the caller gets no answer and the serving loop ends. (Over NNG it
  is the same, and over iceoryx2 while the caller still waits.)
- `iceoryx2_nested`: a handler that makes a call of its own, and gets
  `RpcTransportError` (or `RpcTimeoutError`, which is one), is taken for a failing port
  of the server: `serve_forever` raises, though nobody called `stop()`.

Where the code is what it is, and no document says otherwise, the models show it as well:
a `stop()` before `serve_forever` clears the flag is forgotten by all three
transports (`StopEnds` is about a loop that is past that line); the clients'
`close()` of ZeroMQ and NNG takes the socket from under a call.

Each property of the passing runs has a mutant: a plausible bug in one mapped
definition (a reply taken for any call, a deadline not tested, a heartbeat
thread not joined, `>` for `>=`), kept beside the definition, under which the
property fails in the same run. So no property holds by the shape of the model.

### Bounds

- *ZeroMQ.* Two calls on one client: the smallest instance in which a late reply
  meets another call, and a thread waits for the lock. `MaxTime` 2 lets a
  call with timeout 1 start before or after another's deadline. `Hwm`, the
  messages a pipe holds, is 1, so that full pipes happen, and 2 in `zmq_served`,
  where a queue must be able to build up. One restart, since a server keeps nothing over
  a crash. `Interventions` names what the environment may do in a run; each is
  used in a passing run.
- *NNG.* Two calls on one client, one of them of a request that may not decode;
  `MaxTime` 1; one fault (`MaxFaults` counts lost connections, resend timers and restarts
  together), so that a request is transmitted twice and the second copy meets a handler that runs, a
  call that has ended, or a new server.
- *iceoryx2.* Two calls on one client, one of them borrowing; `MaxTime` and `MaxBetween` 1, so that
  the deadline sent may or may not be that of the caller; one restart.
- *Events.* One slot and three creates: the smallest in which an event is
  recycled twice, so that a stream of two entries loses the one a waiter has not
  read. `MaxLen` 2 is the least value for which the properties are stated:
  `SlotsAssumption` asks for at least 2, as `RpcEvent.create` does of `stream_maxlen`.
  One of the events may be reused at once, the others after a
  tick; leases last one tick. For the scan there are three slots, and one
  create more.
- *Discovery.* Two servers that serve once each, one lookup, a clock of 0 to 2
  and a timeout of 1: a record can be fresh, just fresh, and stale. Two
  instance IDs, or one for both. Lookups meet each other only
  in the round robin counter and in unlinked files, where a lookup and an
  `unregister` meet already. In Redis a key lives for two ticks (`Ttl`), so that a
  heartbeat may come in time or not, and two IDs make a `SCAN` of two pages.

Symmetry is used in runs of safety properties alone. `CHECK_DEADLOCK FALSE` is
set because the bounded systems may come to rest: all calls ended, the server
stopped, the clock at its bound.

### Fairness

- *Transports.* The clock goes on; a thread inside `call`, `serve_forever` or a
  handler is scheduled (weak fairness of one thread's steps together). Nothing
  makes anybody start, stop, close or crash. A handler that never returns is not
  excluded by the code; that handlers end is an assumption of the liveness runs. NNG transmits what it
  owes and drops what nobody waits for; a borrower of iceoryx2 need not ever close.
- *Events.* A process inside `create` or `wait` goes on. Nobody has to set,
  refresh or release an event, and `Tick` is not fair: that a timed wait ends is
  due to `BLOCK`, whose expiry is a step of the waiter.
- *Discovery.* A thread that writes, starts or joins a heartbeat thread,
  unregisters or beats goes on. Nobody has to start or end a server, and
  lookups may stop anywhere. Keys in Redis grow old (`Elapse`).

## Theorems

Every invariant, action property and refinement that a passing run checks is a theorem,
for all values of the constants: any number of calls, clients, creates, waits,
servers and lookups, any pool, timeout, clock and bound on faults. The proofs follow one
pattern: an inductive invariant `IInv` of named parts, first
checked by TLC on the run's own instance; `Init => IInv`; one lemma for each action or
group of actions; and the property from `IInv`. A refinement is
proved action by action, each mapped to an action of the abstract specification or to a
stutter.

The assumptions are those the modules name: `RpcAssumption`, `WireAssumption`,
`ClientAssumption`, `ServerAssumption`, `NngAssumption`, `Iceoryx2Assumption`;
`SlotsAssumption` and `EventAssumption`; `ServiceAssumption`, `FilesAssumption`,
`RedisAssumption`. They give constants their types and keep the names of servers
apart from those of nobody. Beyond that, pipes and pools hold at least one entry,
streams at least two, and a heartbeat timeout and a time to live are not 0; the
constructors of `RpcEvent` and of the discoveries check as much. Nothing is assumed of instance IDs: servers may share one.

**ZeroMQ.** No single property is inductive. That a reply
belongs to the call which takes it rests on what every message in a pipe, in the server's
hand and in a caller's hand has in common, and that is `IInv`:
- `TypeInv`: types, and the server has a real request or response in hand (`InHand`);
- `LockInv`: a call is inside the socket just when it holds its client's lock;
- `ResultInv`: a call has a result just when it is done;
- `RequestInv`, `DistinctInv`: a queued request is its call's, sent once, not
  yet taken, and no two are of one call;
- `HandInv`: what the server is working on, and what the history says of it, agree;
- `HistoryInv`: a call that never sent was never taken; it runs at most once, after it was taken;
- `ReplyInv`: every queued reply is the server's answer to its call.

`AtMostOnce` follows from `RequestInv` and `HandInv`, `Correlation` and
`HonestOutcome` from `ReplyInv` and `HistoryInv`. For `RefinesUnaryRpc` each action is mapped
to the action of `UnaryRpc` it implements, or to a stutter, under `IInv`.

**NNG.** A request may be in the pipe any number of times, so nothing is "sent once".
What takes the place of that is counting, in `CountInv`: for each call, the runs of its
handler, the copy about to be dispatched, the copies still in the pipe and a refusal, if there was
one, are together no more than the copies transmitted. The lemmas about `Positions` say how
appending a copy, taking the first and dropping a whole pipe change the count.
`HonestOutcome` is then arithmetic: a refused call has fewer runs than copies. The other
parts are `LockInv`, `SocketInv` (what a socket keeps is the request of the call that
waits at it), `RequestInv` and `ReplyInv` (every copy carries its caller's deadline, every
reply is in the server's `answers`), `HandInv`, `AnswerInv` and `ResultInv`. `TimeInv` is what
`RefinesRepeatedRpc` needs most: `recv` starts its whole timeout again after the
wait for the lock, so it ends at or after the deadline in the request, and never before; a
call that timed out is therefore one whose deadline the server would refuse.

**iceoryx2.** `PendingInv` says whose the one pending response of a port is: that of the call that
holds the lock, whether it waits or borrows. `PortNotReused` follows from it.
`MailInv` ties the response memory to what was answered to that call, `UnsentInv` and
`BufferInv` say that what was not sent, or is in the buffer still, has met no server;
`HandInv`, `HistoryInv` and `ResultInv` are as for ZeroMQ. The subtle part of
`BufferInv` concerns a request whose caller has ended: it may stay in the buffer, so if the caller
was told "timeout", its deadline has to have passed (a caller that gave up before the
deadline it sent has the outcome "early", and its request may well be served).

**Events.** The difficulty is that the evidence of how an event ended may be
trimmed away. `IInv` is:
- `SlotInv`: the entries of a stream have ascending generations, and agree with the slot's metadata;
- `CoverInv`: every generation a slot has reached was given to a create;
- `HandleInv`, `UniqueIdentity`: a create that returned holds a generation its slot has reached, and no two hold the same;
- `ClockInv`: a clock that was read is not ahead;
- `AckInv`: an outcome that was acknowledged is in the log;
- `WaitInv`, `ReadInv`, `WaitHonest`: what a waiter was told, has seen and has not yet read.

`NoLostWakeup` is then a matter of order. What a waiter read last did not decide
(`ReadInv`), so the end of its own event is written after it. If that entry
is kept, the waiter finds it. If it was trimmed, all the entries that are kept come later,
and the last of them is of a younger generation, which tells the waiter
"expired". `RefinesEventPromise` is proved action by action, as for ZeroMQ.

`ExhaustedMeansBusy` is about the scan of `create`, and needs `ScanInv` beside `IInv`: a slot that
was claimable at every moment since the scan began lies ahead of the probe. A probe
that is refused found its slot not claimable (`RefusedNotSpare`); and as the probes go
round, `(start + offset) % PoolSize` comes to every slot (`TurnCovers`), so none is left
ahead when `create` gives up.

**The two threads of a server.** `ThreadInv` says that the heartbeat thread only runs between the
start of the wrapped server and the join. So no register or heartbeat is in flight
when `unregister` runs, and that is why a server that left in order
has no record (`NoGhost`; `NoGhostKeys` in Redis). It is a matter of the order in
`serve_forever`, not of the backend, which is why these lemmas are shared.

**Discovery in Redis.** `KeyInv`: a key holds a record of its own instance. `Sees(l)` follows a lookup: what
was listed all along (`certain`) is still to be scanned or was returned, and what it returned was listed
at some moment (`possible`). For the refinement every step is one of seven kinds: a step of a
server or of the clock fades records, joins, leaves, dies or publishes (`ServerSideView`), or
a lookup moves on, or it gives its answer. `NoGhostKeys` is derived from the refinement alone:
what holds of every registry holds here.

**Discovery in files.** Here a write takes several system calls, with other
processes between them. `Steps(t)` says where a thread may be inside one, `Tidy(s)` that a server which was never
interrupted is listed from its first rename until its unlink only, `FileInv` that a
record is under its own instance's name and in a directory that exists. A lookup
unlinks by name, so another server's fresh record may go; what saves a
punctual server is that `reading[l]`, the names a lookup may still unlink, contains only IDs that
were late once (`Sees`). `PunctualInv` is then inductive for a server with an ID of its own,
and gives `StaysListed`. `Observed` shows that every behaviour of `DiscoveryWatch` is one of
`FilesystemDiscovery`, so that what is proved of the latter carries over.

**Only model-checked.** Liveness under fairness (`CallsEnd`, `ServedCallsEnd`,
`CloseEndsCalls`, `StopEnds`, `WaitsEnd`, `GhostsExpire`, `ListedAgain`,
`TeardownEnds`) is out of the prover's reach, which has neither `ENABLED` nor rules for
fairness. The two violations are counterexamples, and need no proof.

## What is not modelled

- *`DiscoveredRpcClient`*: its `call` is a `resolve` and a call on a new client of a transport.
  Both halves are modelled, their composition is not written.
- *Envelope validation*: `Readable` and `Encodable` stand for what `decode_envelope` and
  `encode_envelope` accept; their rules are not spelled out.
- *Endpoints*: `portable_tcp`, `portable_ipc` and the normalisation of names are pure. Messages
  above `recv_max_size`, which NNG drops by itself, are above the limits both sides check first
  when they are configured alike.
- *Misuse*: one borrowed response closed by two threads (the lock would be released
  twice); `close()` of an iceoryx2 server from inside its own handler (the `RLock` lets it
  in); processes that share an event pool with different `pool_size` or `stream_maxlen`.
- *`list_services`*: reads what `list_instances` reads.
- *`utils.py`*: reflection, FastAPI routes and delegation. Its one piece of shared state is the
  discovery object a target lends to the clients it makes; closing that is a no-op for files and
  only drops pooled connections of Redis.
- *The environment*: clocks of two machines that disagree, a Redis that loses its
  data, events over a Redis connection that fails, file operations that fail for other reasons than the races
  (permissions, a full disk), handlers that never end.

## Plan

1. Done: `UnaryRpc` and the ZeroMQ modules; the event modules; `Registry`, discovery in files
   and in Redis; `NngRpc` refining `RepeatedRpc`, `Iceoryx2Rpc` refining `UnaryRpc`.
2. Done: the proofs of all safety properties, action properties and refinements.
3. Next: a discovered call, that is `resolve` and then a call of a transport, on an instance
   that may be gone.
4. `Envelope`: what encoding and decoding accept, the frame, over bounded inputs.
