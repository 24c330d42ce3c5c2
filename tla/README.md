# casper-node-proxy: a TLA+ verification project

The proxy stands between clients and Casper nodes. For every configured network
it runs one listener that follows the node's SSE stream, one event bus that
replays and broadcasts events to websocket and SSE clients, and one pool of TCP
connections to the node's binary port; a JSON-RPC proxy, rate limiters and
metrics complete it. This directory holds models of these parts and of how they
work together, the TLC configurations that check them, and TLAPS proofs.

    tlc -workers 2 -config BinaryPoolSafety.cfg MCBinaryPool
    tlapm BinaryPoolProofs.tla

`PROJECT.json` lists the runs with the properties each checks, the mutants that
show that each property can fail, the source lines every definition models, the
findings, the hazards and the theorems.

## Inventory

| Part | State | Operations | Hard because | Correct when |
|---|---|---|---|---|
| Connection pool (`binary_proxy.rs`) | semaphore, stack of idle connections | `send`, `get_connection`, `return_connection`, `reconnect` | many websocket tasks; the node closes streams at any time; retry; no identifier links answers to requests | no permit is lost, no stream shared, every caller gets its own answer, every call returns |
| Codec (`binary_proxy.rs`) | none | `parse_request`, `rewrite_response_bytes` | many outcomes, each with its own error code | peers never leave the proxy, what cannot be decoded becomes an error |
| Binary websocket (`handlers.rs`) | rate limiter, connection gauge | message loop | runs concurrently with every other socket | one answer per message, counters balance |
| Event bus (`state.rs`) | id counter, backlog, broadcast channel, ApiVersion cell | `push`, `remember_api_version`, `wait_for_api_version`, `snapshot_from`, `subscribe` | `push` is three steps, clients run in between; lag; wake-ups | backlog is the latest events, no wake-up lost |
| Events endpoint (`handlers.rs`) | receiver, `last_sent_id`, snapshot | websocket handler, SSE stream | switch from replay to live, the two kinds do it differently | each event once, in order, none left out |
| SSE listener (`sse.rs`) | `start_from`, Redis connection and key | connect, receive, store, push, reconnect | crash between store and push, Redis comes and goes, streams end | no gap and no step back in what the bus gets |
| JSON-RPC proxy (`jsonrpc_proxy.rs`) | none | classify, filter, forward, sanitise | early returns | filtered methods never reach the node, peers are removed |
| Rate limiting (`rate_limit.rs`) | token state in a library | period arithmetic | integer division | the configured rate is an upper bound, and nobody is refused below it |
| Metrics (`metrics.rs`) | counters, gauges | guards, counters, labels from the path | dropped futures, writers in several functions | gauges are true, counters add up |
| Layers and routes (`lib.rs`, `handlers.rs`) | none | metrics, limiter, router, extractors | their order | every response is counted once |
| Startup (`lib.rs`, `db.rs`, `config.rs`, `main.rs`) | network map, never changed later | `run`, `migrate` | - | - |

The parts meet as follows. The listener calls `remember_api_version` and `push`
of its network's bus and is the only caller. The handlers of the events endpoint
share the bus through its mutex, its broadcast channel and its `Notify`. The
handlers of the binary endpoint share the pool through its mutex and its
semaphore. Redis outlives the process and is written by the listener alone.
Metrics are written from everywhere: a binary message is counted by its handler
when it is read and by `send` or the handler when it ends, in-flight calls by a
guard; a JSON-RPC request before and after the call to the node; every HTTP
response by the outermost layer.

    RequestService <--implements-- BinaryPool --extended by-- BinaryPoolExecutions
          |                            | extends
     extended by BinarySocket     BinaryMessages --extended by-- BinaryCodec

    EventFeed <--implements-- EventBus
        |
    instance in EventPipeline --extends--> SseListener

    HttpStack --extends--> JsonRpcProxy          RateLimit stands alone

Proofs about a module are in a module of their own, named after it; those about
`BinaryPoolExecutions` and `JsonRpcProxy` are with `BinaryPool` and `HttpStack`.

## Modules

### BinaryPool

The state of the pool (`free`, `pool`), of the tasks inside `send` (`phase`,
`attempt`, `permit`, `stream`, `got`, `reply`) and of the TCP streams (`peer`,
`outbox`, `inbox`). An action is the code from one await to the next:

| Action | Code |
|---|---|
| `Send` | the checks of `send` that answer a request without the node: undecodable, wrong version, too large, peers, in this order |
| `PopHit`, `PopMiss` | `get_connection` looks at the pool once, under its lock |
| `Acquire` | `acquire_owned` |
| `DialOk`, `DialFails` | `TcpStream::connect`; a failure drops the permit |
| `WriteOk`, `ReadOk` | the two halves of `send_and_receive` |
| `Retry`, `Fail` | an I/O error of kind `k`, retried once if `is_retryable_io_error` |
| `RedialOk`, `RedialFails` | `reconnect`: the new stream replaces the old one, the permit stays |
| `Return` | the answer is rewritten and the connection goes back |
| `Deliver` | the websocket handler sends the reply on |

The node (`NodeAnswers`, `NodeCloses`, `NodeResets`) is external: it answers the
requests of a stream in order and may close or reset any stream at any time,
with answers under way arriving or not. A request is its task and a call number
modulo `CallNumbers`, so that an answer left over from an earlier call can be
told from the right one. What a payload and an answer are is in `BinaryMessages`:
what the checks of `send`, and `rewrite_response_bytes`, can tell about them. A
permit is an element of
a set, which makes losing and duplicating one visible.

Left out because they cannot happen or change nothing: the error of a closed
semaphore (it is never closed), failure to encode an error response, metrics and
log lines. The websocket handler awaits `send` in its loop, so a call is never
dropped halfway.

### RequestService and BinaryPoolExecutions

`RequestService` is what the pool promises its callers: a call asks, is refused
at once or is served while it holds one of the permits, and returns something
about its own request. There are no connections in it. `BinaryPool` implements
it (`ImplementsService`) under the mapping `ServiceState`: a caller is served
from the moment it has a permit; permits, call numbers and replies are mapped to
themselves, so a permit that lies idle in the pool is free for the service.

`BinaryPoolExecutions` adds a history variable that counts how often the node
executes the request of the current call. The node executes what it answers; a
request lost with its stream may have been executed or not. The retry can make
it two, never three, and never through a connection left by somebody else.

### BinaryCodec

A request is the outcome of each decoder `parse_request` calls, in its order; a
frame of the node is the outcome of the two ways `parse_response_envelope` reads
it, with a response that has an error or a tag and a payload. The tags are
grouped by what `rewrite_response_bytes` does with them: read and written
(`roundtrip_response` of some type), kept as they are (`OpaquePayload`), node
status, peers, unknown, none. A payload can fail to decode, leave bytes over, be
in canonical form or decode from another form. Assumed of the node: its error
responses have no payload, peers are listed in node status and peers responses
only. Assumed of the libraries: encoding does not fail and gives the canonical
form. `AgreesWithPool` ties this module to the cases `BinaryPool` works with.

### BinarySocket

`handle_binary_socket` for several websockets, with the pool replaced by
`RequestService`. A binary message is counted and then limited (`ReadLimited`,
`SendLimited`), refused by `send` on the spot (`ReadRefused`), or served
(`ReadForwarded`, `GetConnection`, `SendReturns`); `PassOn` sends the reply, and
`PassOnFails` is the one place where a client that is gone ends the handler
outside its read. Which messages the limiter refuses is left open here. Counters
and gauges are variables.

`RequestService` counts a permit that lies in the pool as free, whereas a call
that waits on the semaphore does not get it (finding 1). For safety this makes no
difference, the pool implements the service. Fairness may not build on it: in
`SocketFairSpec` a call is sure to get a connection only if there are as many
permits as websockets.

### EventBus

`push` is `Stamp`, `Store`, `Publish`; `remember_api_version` is
`RememberApiVersion`, `NotifyWaiters`. The listener is one task, so these do not
overlap (`pc`), but clients run between them. A client goes through its handler:
`Connect` subscribes; `Listen`, `Check`, `Wake` are the loop of
`wait_for_api_version`; `Greet` sends the ApiVersion event; `Snapshot`, `Replay`,
`ReplayEnds` are the replay; `Recv`, `Lag` the live loop. `HangUp` is a client
that leaves, `HandlerEnds` its handler noticing it, which it can in the phases
`Noticing`: a websocket handler that waits for ApiVersion cannot.
An SSE client takes its snapshot right after it subscribed and counts all of it
as sent; a websocket client takes it after the ApiVersion event and counts as it
sends. `channel` holds everything ever published and a receiver is a position in
it; one that is more than `RingSize` behind has been overrun, as in tokio's
broadcast channel. The snapshot keeps the copied backlog in `queue` and skips
the events before `start_from` when it sends (`Kept`), which comes to the same as
filtering the copy. An event is its identifier.

### EventFeed

What a client of `/events` may count on, without snapshot, channel or receiver:
events are numbered as they are stored; a client is sent the first event it is
due (`First`) and then one after the other, unless it lagged. `EventBus`
implements it (`ImplementsFeed`). The feed does not know the size of the channel:
what finding 2 is about is a first event later than the one asked for, which the
feed allows when that one is no longer kept.

### SseListener

The listener task with Redis (`persisted`, survives a crash), the node's stream
(`head`, `cursor`, `apiDue`) and two history variables: `covered`, what all
processes together pushed, and `amnesia`, whether a process began without the
identifier its predecessor left. `Receive` sets `start_from` in memory,
`StoreOk`/`StoreFails` write Redis, `Deliver` pushes; `Crash` can strike between
any two of them. The node is external: it replays from `start_from` on,
inclusively, and still has the events it is asked for. If it had dropped them
the code could not notice.

### EventPipeline

`SseListener` fills an `EventFeed`; clients read from it, leave, and come back
with the identifier after the last one they had. `log` holds the node's event
behind each proxy identifier and is empty again after a crash. A client that
finds a new process (`fresh` is false) asks for everything: its old identifier
means nothing there. `skipped` remembers that a client was told of a hole or
could not be served before a crash. That clients behave this way is an
assumption: nothing in the protocol tells them of a restart.

### JsonRpcProxy

`rpc_proxy` from the early returns (`Rejection`, in the order of the code, of
what is not `Accepted`) over
the two awaits (status line, body) to the reply. Each await can fail, and the
client can leave at it (`Cancel`). A request is its network, the shape of its
JSON, its method and id; a reply its status, error code, id and whether peers
are in it. Content type and headers are left out. Assumed of the node: of the
methods the proxy can be asked for, the results of `info_get_status` and
`info_get_peers` list peers (`ListsPeers`). Only the first is on the allowlist, so
a hole in the list would show in `PeersNeverLeave`.

### RateLimit

Both limiters with the arithmetic of `per_minute_to_period`, the burst rule and
the defaults of `config.rs`. The limiter of the governor crate is external: a
key owes the time until its quota is whole, and a request is admitted if it fits.
Times are in milliseconds; a connection of the binary endpoint begins with a
limiter of its own.

### HttpStack

A request goes through `track_http`, the limiter, the router and an endpoint.
The labels of the metrics (`NetworkFromPath`, `EndpointFromPath`) and the routes
(`Route`) are separate functions of the path, as in the code. The JSON-RPC
endpoint is `JsonRpcProxy`: `Call` enters it, `NodeReplies` are its steps with
the node, `RespondToCall` takes its reply out through the layers, and
`CancelCall` drops handler and layers together when the client leaves. The other
endpoints answer at once with one of their statuses: which ones depend on whether
the network is known, with the extractors before the lookup. So does the JSON-RPC
endpoint when its body cannot be read or is too large for axum. Every connection has
an address, so the limiter and the metrics always find an IP.

## Runs

| Run | Instance | Result |
|---|---|---|
| `pool_safety` | 3 tasks, 2 permits, 3 streams, calls modulo 2 | all seven invariants hold, 586,048 states |
| `pool_service` | 3 tasks, `MaxConnections` 0, hence 1 permit, 2 streams | `RequestService` is implemented; at most one execution per attempt; replies tell the truth; 435,152 states |
| `pool_calls_return` | 2 tasks, 2 permits, 3 streams | every call returns, 140,260 states |
| `pool_starved` | 2 tasks, `MaxConnections` 0, 1 permit | violated: finding 1 |
| `codec` | every request and frame | all four invariants hold, 953 states |
| `socket` | 2 websockets, 2 permits, 3 messages | all three invariants hold, messages are answered, handlers end; 131,713 states |
| `bus` | 1 client, backlog 2, channel 1, 5 events, `start_from` none or 0..6 | all four invariants hold, `EventFeed` is implemented, no wake-up is lost, overrun clients catch up, handlers of clients that left end; 155,558 states |
| `bus_evicted` | as `bus` with channel 2 | violated: finding 2 |
| `listener` | 5 events; one of them and ApiVersion not serialisable | all three invariants hold, later events arrive; 42,873 states |
| `pipeline` | 4 events, one not serialisable, backlog 2, 1 client | both properties hold, 3,071,885 states |
| `http` | 3 requests, 2 at a time, 14 paths | all four invariants hold, 478,353 states |
| `rate` | 700 a minute, a period of 85.7 ms rounded to 85; burst 2, binary burst 0 | both invariants hold, 137,123 states |

Bounds. Three tasks on two permits give a waiter while two others work, fail and
return; three streams suffice because each open stream has a permit and a
reconnect closes the old stream in the step that opens the new one. Numbering
calls modulo 2 tells an answer of the previous call from the current one; quiet
streams never hold an older one. Five events wrap a backlog of two and a channel
of one more than once before, during and after a replay; clients do not affect
each other except through the bus, so one client is enough for delivery, and
`start_from` covers values before, inside and beyond the backlog. Five upstream
events allow a gap and a step back on both sides of the event that cannot be
serialised. For the pipeline four are enough to be pushed, crashed over, pushed
again under new identifiers and dropped from a backlog of two. Two websockets
share counters and gauges while one is answered, fails or loses its client; they
have a permit each, as their liveness needs it (how callers wait for one is the
matter of the pool's runs, and the invariants are proved for any number of
permits); two messages per connection tell an answer too many from one too few. Two HTTP
requests at a time, JSON-RPC calls among them, and a third after one of them
suffice for counters that each request writes for itself. The rate instance has
time steps that add up to just below, at and above multiples of the period, and
admits twice the burst. The paths are one of each shape that the two path functions and the
router tell apart: empty segments in front, in the middle and at the end, one
too few, one too many, an escape, a network that is not configured. Crashes,
reconnects, connects and disconnects are not bounded. The forwarding of the
ApiVersion event to the bus is in `pipeline`, where it can be serialised. Tasks,
permits, streams, clients, versions and handlers are interchangeable model
values; symmetry is used in runs that check safety only.

Fairness. Tasks that can run are polled (weak fairness of a task's steps). For
the pool also: tokio's semaphore serves waiters in order (strong fairness of
`Acquire`), and the node answers what it has read or closes the stream. The last
is an assumption about the node: `send` has no timeout, and a silent node keeps a
call for ever. No error other than a lost peer is counted on. For the bus, a
`push` or `remember_api_version` once begun ends. For the listener, calls to
Redis come back, and `LaterEventsArrive` has as its premise that streams do not
end for ever; without it, a stream that always ends after the repeated last
event makes no progress. For the websocket loop, handlers are polled, a call that
has a connection returns, and a call gets one if there are as many permits as
websockets: what run `pool_calls_return` shows of the pool, and `pool_starved`
refutes for fewer permits. `HandlersEnd` has the ApiVersion event as its premise. Nobody has to send, connect or emit anything.

## Findings

1. A caller that saw the pool empty waits on the semaphore, but finished calls
   return connection and permit to the pool. With more callers than permits a
   waiter can hang while the connection lies idle (`pool_starved`). With at most
   as many callers as permits it cannot: `DemandBounded` says that callers past
   the pool and idle connections together never exceed the callers, so a caller
   that waits leaves a permit free (theorem `PermitsAreAtHand`).
2. A client misses an event when the channel is at least as large as the backlog
   (`bus_evicted`): the event left the backlog before the snapshot, and the live
   loop takes it for one of the replayed. With the default sizes it cannot.

Seen while modelling, smaller, and without a run of their own:

- `src/README.md:91` gives every incoming event an id and a place in the backlog.
  ApiVersion has neither: it goes to `remember_api_version` only (`Deliver`).
- `src/README.md:140` says that resume is disabled without Redis. Within a process
  it is not: `start_from` is kept in memory as well (`Receive`, `Build`).
- `src/src/metrics.rs:154` describes `sse_connections` as active connections. A
  websocket client that left while its handler waits for ApiVersion still counts,
  for ever if the node cannot be reached; `HandlersEnd` therefore has ApiVersion
  as its premise.
- `src/README.md:121` says that the binary endpoint returns the raw response. The
  code decodes it, takes the peers out and writes it anew (`Rewrite`).
- `src/src/metrics.rs:112` speaks of upstream transport errors. An exchange that
  breaks off in the body is answered with 502 and not counted (`BodyFails`).
- `src/README.md:36` gives requests per minute. A limit that does not divide 60000
  lets more through, as its period is rounded down to milliseconds: 401 becomes
  402 and a bit, and above 60000 all limits are the same. `WithinConfiguredRate`
  says by how much: `Minute % Rate(k)` milliseconds in a minute's worth of
  periods, where `Rate` reads 0 as 1 and stops at 60000. With that it holds for
  every limit (theorem `RateIsUpperBound`).

## Proofs

35 theorems, in eight modules, hold for every value of the constants: any number
of tasks, clients, handlers, streams, permits, events and messages, any sizes of
pool, backlog and channel, any rates. 33 of them state a property that a run
checks on its small instance, and every invariant and every other property
without fairness has its theorem. The two others, `PermitsAreAtHand` and
`WakeUpsArePending`, are the safety that a liveness property rests on. The
assumptions are the named ASSUMEs of the modules, which only give
the constants their types and keep `None` apart from them, and where a theorem
says so one more:

- `IsFiniteSet(Tasks)`, `IsFiniteSet(Handlers)`, for theorems that count: a
  process has finitely many websockets and requests at a time;
- `Cardinality(Tasks) <= PermitCount`, for `PermitsAreAtHand` alone: its point,
  and `pool_starved` shows that it is needed;
- `RingSize < Limit`, for `NothingIsMissed` alone: the defaults satisfy it, and
  `bus_evicted` shows that it is needed.

| Module | Theorems |
|---|---|
| `BinaryPoolProofs` | `TypeCorrect`, `PermitsAreConserved`, `StreamsAreExclusive`, `PooledStreamsAreQuiet`, `CallersGetTheirAnswers`, `RetriesFollowAClose`, `DemandIsBounded`, `PermitsAreAtHand`, `PoolImplementsService`, `ExecutionsAreBounded`, `RepliesTellTheTruth` |
| `BinaryCodecProofs` | `NoPeersOverBinaryPort`, `RewritingIsInvisible`, `RepliesAreNamed`, `PoolViewIsExact` |
| `BinarySocketProofs` | `CountersBalanceAlways`, `GaugesTellTheTruth`, `MessagesGetOneAnswer` |
| `EventBusProofs` | `BacklogStaysLatest`, `DeliveredInOrder`, `DeliveredHasNoHoles`, `NothingIsMissed`, `BusImplementsFeed`, `WakeUpsArePending` |
| `SseListenerProofs` | `EventsKeepTheirOrder`, `ProcessLeavesNoGaps`, `RestartsLeaveNoGaps` |
| `EventPipelineProofs` | `ClientsMissNone`, `ClientsGoForward` |
| `HttpStackProofs` | `NoPeersInReplies`, `UpstreamCallsBalance`, `LabelsAreTrue`, `ResponsesAreCounted` |
| `RateLimitProofs` | `RateIsUpperBound`, `RefusalsAreAboveRate` |

The arguments, and why the properties need more than themselves:

- **Pool.** That a caller gets its own answer needs to know what is on its
  stream, which depends on nobody else using the stream and on what the pool
  hands out. `IInv` joins the invariants of ownership and content with
  `ExchangeInv`: a stream in the "write" or "return" phase is quiet, in the
  "read" phase it carries only the caller's own request or its answer, and
  closed streams are empty. Ownership is argued once for permits and once for
  streams, through `Partitioned`, with lemmas that say how it survives moving
  one element between hand, sequence and rest. `DemandIsBounded` is inductive
  alone; its lemmas say how the two cardinalities move together. From it and
  `PermitsConserved` follows `PermitsAreAtHand`: if no permit were free, holders
  and idle connections would have them all, and with the task that waits they
  would be more than the tasks.
- **Refinement to `RequestService`.** A step that moves no caller between the
  four states of the service is a stutter; the others are one step of it each.
  From `IInv`: a popped or acquired permit is in no other hand, and what a
  caller returns is about its own request.
- **Executions.** `CountInv` bounds the count in each phase: below `attempt`
  before the write, still below while the request is unanswered on the stream,
  at least one once an answer is. `IInv` is what makes the request on a stream
  the owner's own.
- **Codec.** From the inside out: one lemma per branch of the match in
  `rewrite_response_bytes`, then envelopes, then what `send` returns. The
  invariant only remembers which frame a reply was made from.
- **Websockets.** The three properties are inductive together with the types
  and with `ClosedIsClean`: a closed handler has nothing read, asked or answered. Most of
  the work is cardinalities that grow and shrink by one with each action.
- **Bus.** Backlog, snapshot and, until a client lags, what it was sent are runs
  of consecutive identifiers. `RunsInv` says where each ends: the snapshot
  begins where the sent events end, and once it is used up the sent events reach
  at least as far as the receiver. `FeedInv` says what a client that was sent
  nothing is not owed, which the refinement needs. `DeliveredHasNoHoles` holds
  for every channel size. `NothingIsMissed` needs `Firsts` on top: the first event sent is
  no later than the first due, which is where `RingSize < Limit` enters, as an
  event that left the backlog has then also left the channel. `WakeUpsArePending`
  is about tickets alone: one drawn before the check is no later than the
  notifications given so far, so the next one is later than it.
- **Listener.** One position carries the argument: `Due`, the next event the
  task will receive. What was pushed reaches without gaps up to it; moving it
  back, to `start_from` or to the identifier in Redis, repeats events and skips
  none, because neither is ever ahead of what was handed over
  (`PositionInv`, `PushedInv`; `CoveredInv` for all processes together).
- **Pipeline.** Two numberings meet in `log`. `LogInv`: between two successive
  entries, and from the last one to the listener's `Due`, the node has nothing
  to push (`Nothing`). `ConnectionInv`: a client's `heard` is the entry of `log`
  at its `token` while that is fresh. `WaitingInv` carries a client over a
  restart: from what it heard to where the next process goes on there is
  nothing to push, and where that is moves from the identifier in Redis to the
  listener's position to the first entry of the new log. `ListenerInv` gives
  how the position moves.
- **HTTP.** `ProxyInv` for the JSON-RPC proxy, with `OnlySupportedSent` in it: what
  the node was asked is on the allowlist, so a body with peers can only be that of
  `info_get_status`. For the layers the invariant is that the request in a slot
  has labels and target of one path (`Entered`). Labels and
  route agree because a path with a route has two segments, on which trimming
  changes nothing (`RoutedPath`). `ResponsesAreCounted` compares bags. A fold
  over them would need induction over data, so a bag is counted as the set of
  its numbered copies (`Numbered`): one copy more is one element more, and
  `CountedInv` says status by status that the counters follow the responses.
- **Rate limiters.** Each admitted request still owes the periods of itself and
  of all later ones less the time since. `KeyInv` says that the debt is the
  largest of these, or 0. As none is larger and the debt never exceeds the
  burst, admissions keep their distance; as one is as large, a refusal has that
  request as its witness. `PeriodFitsRate` brings in the rounding.

Only model-checked are the liveness properties: `EveryCallReturns`,
`EveryMessageAnswered`, `HandlersOfGoneEnd`, `NoLostWakeup`,
`LiveClientsCatchUp`, `HandlersEnd`, `LaterEventsArrive`. Fairness and `ENABLED`
are outside what the prover handles.

## Plan

All modules, runs and theorems of the plan are there. The order was: the pool,
as its bugs would cross answers between callers; the bus and the listener, whose
steps clients see interleaved; the websocket loop, JSON-RPC proxy, limiters and
HTTP layers; the pipeline, which joins listener and bus; the proofs in the same
order. Left to whoever
changes the code: a timeout in `send` or in the JSON-RPC client would replace
the assumption that the node answers or closes, and a pool that hands returned
connections to waiters would turn `pool_starved` into a passing run.

## Not modelled

- Startup (`run`, `migrate`): one task that builds everything once; a failure
  ends the process before anything is served.
- Database: migrations and one query, done by Diesel.
- Registration and encoding of metrics, histogram values, log lines: library
  calls without influence on anything else. Counters of the listener and of the
  database pool would restate single calls.
- Settings other than the rate limits: they are constants of the modules.
- The decoders of the casper crates, the governor crate, axum's router and
  tokio's primitives: external, modelled from how the code uses them.
