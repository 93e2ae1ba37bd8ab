# up-tunnel in TLA+

up-tunnel publishes services on machines behind NAT. An agent on the device
keeps one WebSocket to a public server; the server accepts visitors (HTTP by
host name, TCP by port) and carries each of their connections as a *stream* of
frames over that WebSocket; the agent dials the local service for each.

This directory holds TLA+ models of the parts of the program in which things
happen concurrently, the TLC configurations that check them, and theorems about
them with TLAPS proofs. Paths below are relative to the repository; line numbers
are those of the commit the models were written from. `PROJECT.json` is the
machine-readable index: components, runs, which definition models which lines,
findings, hazards and theorems.

## 1. Inventory of the system

| Component | State | Operations | What makes it correct |
|---|---|---|---|
| Server stream `server/src/stream.ts` | credit, unacknowledged bytes, two pause flags, two EOF flags, `finished`, the public socket | socket `data` `end` `drain` `error` `close`; frames DATA EOF ACK RESET; global pause; destroy | bytes once and in order; buffers bounded by the window; credit conserved; the peer is told before an end gives up; both ends end |
| Agent stream `client-node/src/stream.ts` | the same, and a dial under way, a queue of what arrived meanwhile, a request head held back for the Host rewrite | the same, and dial, dial failure, `attach`, `consumeHead` | the same, across the dial and the rewrite |
| Multiplexing `server/src/agent.ts`, `client-node/src/agent.ts` | map of streams, next stream id, `congested` | open a stream, dispatch a frame, congest and clear, tear down | a frame reaches the stream it names; congestion pauses and later resumes every stream |
| Registry `server/src/registry.ts`, `tcp-frontend.ts` | tunnels by id, by subdomain, by port; `nextPortHint`; listeners | parse, open (awaits the bind), close, closeAllFor, claimPort | maps agree with each other, with the sessions and with the listeners; names are exclusive and inside the grant; names are released |
| Control plane `server/src/control.ts` | sessions, HELLO timer, heartbeat misses of each WebSocket | upgrade, HELLO, OPEN/CLOSE_TUNNEL, heartbeat, reject, teardown | dead agents are dropped and live ones are not; every request is answered |
| Agent lifecycle `client-node/src/agent.ts` | phase of the session, handshake timer, ping and pong timers, back-off, pending and registered tunnels | connect, HELLO, register, ping, end of session, sleep, stop | dead links are noticed; it always gets back; its tunnels come back; stop stops |
| HTTP frontend `server/src/http-frontend.ts` | bytes of a request head per socket | accumulate the head, find Host, route, answer errors, hand over to a stream | a connection reaches the tunnel its Host names, with no byte lost |
| Wire codec `*/protocol.ts`, `client/uptunnel/protocol.py` | none | encode, decode | inverse of each other, refuses what is malformed |
| Python agent `client/uptunnel/client.py` | streams with three asyncio tasks each, an inbox, credit as an event, one queue of frames to send for all sessions | dial, two pumps, `finish`, session end and reconnect | as the Node agent; the tasks of a stream end with it |
| Health logs `*/healthlog.*` | file, cached line count, `broken` | configure, append, trim by write-then-rename | bounded, and never half-written, whatever the disk or a crash does |
| Admin, configuration, entry points, logging, deployment | none that changes after the start | | |

**How they interact.** Node runs one callback at a time, so each handler is
atomic and everything interesting is in the order of callbacks: those of two
event loops (server and agent) joined by two FIFO queues (the WebSocket), of the
sockets' own events, of timers, and of the one `await` in the server's request
path (the bind of a TCP listener). Backpressure connects them: a stream pauses
its own socket when its credit is gone, and grants credit when the socket it
writes to has taken the bytes; apart from that, a WebSocket whose queue is long
pauses all its streams.

**What is hard.** Credit and congestion are two reasons to pause one socket.
A socket ends, drains, fails and closes in its own time, while frames for its
stream are under way. `finish()` is silent, so it must come after the peer was
told. Frames arrive before the dial is over. Requests, closes and the end of a
session come between the claim of a port and its registration. The two
heartbeats run on different clocks, with a link between them that can die
without a word to either. The Python agent's tasks are cancelled only where they
wait, and a task that exists later than `finish()` is not cancelled at all. A log
is trimmed in steps that a crash can separate. `hazards` in `PROJECT.json` lists these at their lines.

## 2. Modules

| Module | Models |
|---|---|
| `NodeSocket` | a Node `net.Socket` as far as the two stream classes use it (external: `allowHalfOpen` false, `write()`'s result, when `drain`, `end` and `close` are emitted) |
| `StreamFrames` | the frames of one stream, as records |
| `FrameCodec` | frames as bytes: encoders, decoder and its refusals; JSON is a parameter |
| `ServerStream` | class `Stream` and the stream part of `AgentSession` |
| `ClientStream` | class `ClientStream` and the stream part of `Agent` |
| `StreamBridge` | composes the two with the WebSocket, the visitor, the service and the loss of the link; the properties of a stream end to end |
| `CreditWindow` | abstract specification of one direction's flow control, implemented by both bridges |
| `Registry` | class `Registry`, the request handlers of `ControlPlane`, the sessions as owners of tunnels, the listeners |
| `HttpFrontend` | one connection of class `HttpFrontend`, from accept to answer or hand-over |
| `AgentLife` | the life of an agent's sessions against the server's `onConnection` |
| `AsyncioSocket` | an asyncio connection as far as `client.py` uses it (external: may be half-open, `drain()` waits for a low-water mark, `close()` still delivers) |
| `PyStream` | class `Stream` of `client.py` and the stream part of its `Agent` |
| `PyBridge` | composes `ServerStream` with `PyStream`, as `StreamBridge` does with `ClientStream` |
| `PyReconnect` | `PyBridge` across one reconnection, with the stream the old session leaves behind |
| `HealthLog` | `configure`, `health` and `trim` of `healthlog.ts` over a disk that may refuse a call, with crashes and restarts |
| `ServerProofs` | theorems and proofs about `Registry` and `HealthLog` |
| `HttpFrontendProofs`, `AgentLifeProofs` | theorems and proofs about the module of that name |
| `WireProofs` | theorems and proofs about `FrameCodec` and `CreditWindow` |
| `StreamBridgeProofs` | theorems and proofs about `StreamBridge`: the frames, the operators of the two classes, the invariant and the law of a turn; then every action and the theorems |
| `PyBridgeProofs` | the same about `PyBridge` |
| `StreamOrderProofs`, `PyOrderProofs` | the order of a stream's bytes from one end of `StreamBridge`, of `PyBridge`, to the other |
| `MCStreamBridge`, `MCPyBridge`, `MCRegistry`, `MCHttpFrontend` | values of constants for TLC; cases of `tests/protocol-vectors.json` as assumptions that TLC evaluates |

**Streams.** `ServerStream` and `ClientStream` write a handler as an operator on a
*turn*, a record of the object's fields (`st`), its socket (`sock`) and the frames
it has sent (`sent`). `OnData(FlushAck(...))` then composes as the methods call
each other, and an action runs one handler and commits the turn. So `srv` has
the fields of `Stream`, `cli` those of `ClientStream`, by their names. A socket
event (`SocketData`, `LocalDrain`, ...) is enabled when Node may emit it. The
kernel takes bytes from a socket's buffer one at a time (`SocketFlush`), which
is what makes a peer slow. `checkCongestion` runs inside `send()`; it is an
action of its own because a pause commutes with what the handlers do after a
send. `StreamBridge` instantiates both modules over one pair of queues; a visitor
sends 1, 2, 3, ... so that loss, order and duplication show. Bytes of a request
head are numbers as well: one stands for the value of the Host header, one for
the end of the head.

**Registry.** Opening an HTTP tunnel is one action. Opening a TCP tunnel is a
claim (`ClaimRequested`, `ClaimAny`), then `BindOk` or `BindFail`, with anything
in between. Every refusal is an action, in the code's order of checks. `JsMod` is
JavaScript's `%`. A session that is `closing` still handles messages and answers
none.

**HttpFrontend.** One visitor's connection, over `NodeSocket`. Its request is two
facts, which byte ends the head and what the Host header says; a Host header is a
label, how it is spelled (capitals, a port) and where it lies (under the tunnel
domain, deeper, elsewhere), which is what `stripPort`, `toLowerCase` and the
tests of `route` tell apart. `Data` is the `data` listener with `settle`, `route`
and `respond` in one step, as in the code. `routes` is the registry's
`bySubdomain`, changed by sessions at any moment. The model of a connection ends
with `openStream`; from there the socket belongs to `ServerStream`, which starts
from the bytes read before (`PrereadSizes`).

**AgentLife.** Discrete time: a timer counts down, and `Tick` waits for timers
that have reached 0 and for messages that have been under way for `Latency`
ticks, so that each timer fires on time and everything due in one tick
interleaves. A connection has a queue each way and may die silently (`LinkDies`).
The agent's record holds its phase and timers, the server's its `misses`, its
heartbeat and its HELLO timer. The registry is reduced to who holds one name.

**Python agent.** A task runs from one `await` to the next, so a step is one item
or chunk of a pump, one frame read, or the end of a wait. `py.run`, `py.toLocal` and
`py.toServer` are the places where the three tasks of a stream wait; the fields of
`Stream` keep their names. `toLocal` is at `get`, at the `drain` between a write and
its acknowledgement, or at the drain of a head that an end of stream released
(`eof`); it may have raised (`failed`) while `run()` has not yet been woken
(`PumpsEnd`). `credit.clear()` and `wait()` are the guard `HasCredit`: only
`add_credit` makes it true again, and does so whenever the credit is positive.
`_out` with the WebSocket behind it is one queue. `finish()` of a stream that still
dials changes nothing but the flag, as in the code, so `DialOk` afterwards starts
pumps on a finished stream. `PyReconnect` keeps the tasks of such a stream as a
second instance of `PyStream` beside the next session's.

**Health log.** A line is the number of the event it records. `health()` is
synchronous, so its steps (append, write the copy, rename) are apart only for
crashes and refused calls. A line that was cut short is completed by the next
append, which is why the count may be one more than the file's.

**Codec.** `FrameCodec` is constant-level: sequences of bytes, big-endian words,
and JSON as two operators of which only the round trip is assumed.

Definitions called "mutated form" are plausible mistakes in the code (a dropped
reset, a check off by one). They are used by nothing in the modules; replacing
the definition that follows by one of them makes the named property fail, which
shows that the property is able to.

## 3. What is checked

All runs use the whole `Next` of their module. "States" are distinct states.

| Run | Properties | Bounds | States |
|---|---|---|---|
| `BridgeFlow` | `TypeOK` `BoundedBuffers` `BothAreWindows` `Delivered` | 4 bytes up, 2 down, window 2, chunks of 1 or 2, high-water mark 1, preread 0 or 1, with and without rewrite, each end congests once; nobody hangs up | 1.8e5 |
| `BridgeEnds` | `InOrder` `ChannelDiscipline` `PeerIsTold` `EndsTogether` | 2 bytes up, 1 down, window 1; both hang-ups, both aborts, failed dial, unknown tunnel, lost link, with and without rewrite | 4.8e5 |
| `RegistryNames` | `TypeOK` `IndexConsistent` `ListenersMatch` `HttpRoutesToLive` `WithinGrant` `Answered` `NoTakeover` `NoPortsTruthful` | 2 sessions of 2 tokens, 3 requests, 3 subdomains (1 reserved, 1 for one token only), ports 1..5, a safe grant 2..3 and one, 4..5, too far up for the search, which takes port 3; requests are symmetric | 2.0e5 |
| `HttpFrontend` | `TypeOK` `NothingLost` `RoutedByHost` `StreamOutlivesHeadTimer` `Settles` | limit 2, chunks up to 2, 5 bytes; head ends at byte 2, 3 or never; 5 Host headers, 2 labels, 2 sessions | 2.6e4 |
| `AgentLife` | `TypeOK` `NameFollowsAgent` `ServerNotices` `AgentNotices` `NoFalseAlarm` `Recovers` `StopEnds` | latency up to 1 tick, ping every 2 with 3 to answer, heartbeat every 2 with 4 misses, 2 faults of any kind (a count for each, whose sum is bounded), known and unknown token | 4.3e5 |
| `PyBridge` | `TypeOK` `InOrder` `WholeBeforeEnd` `PeerIsTold` `BothAreWindows` `Delivered` | 3 bytes each way, window 2, chunks of 1 or 2 (so both senders overshoot), high-water mark 0, head of 2, known and unknown tunnel; each of six events (hang-ups, aborts, failed dial, lost link) alone, and the visitor's FIN also with the service's or with a failed dial, in every order | 3.7e5 |
| `HealthLog` | `LogTypeOK` `NewestKept` `Ceiling` | 26 events, ceilings 10 (also for 5) and 12, one refused write, one refused read, 2 restarts | 6.7e5 |

What they show:

- **`InOrder`, `Delivered`.** Each party reads the other's bytes once, in order
  and without a gap, through the queue of the dial, the head held back and every
  pause; and if nobody hangs up and nothing was congested, it reads all of them
  (`Delivered` of `StreamBridge` ends in order under congestion as well).
- **`BothAreWindows`.** The two classes with the queues between them
  implement `CreditWindow`, once per direction (`credit` is the sender's
  `sendCredit`, `inflight` the data in the queue, `unacked` what the receiver
  holds, `ackflight` the acknowledgements in the other queue). So no pause,
  congestion or dial makes them lose or invent credit or send without it.
- **`BoundedBuffers`.** The consequence that matters: a slow party costs at most a
  window, a chunk and a socket buffer of memory.
- **`ChannelDiscipline`, `PeerIsTold`.** No data after EOF, nothing after a reset
  but answers to strays, nothing before STREAM_OPEN; and no end drops a stream
  while the other would wait for a word that never comes.
- **`EndsTogether`.** Both ends forget the stream when both have sent their EOF,
  after a reset by either party, a failed dial or a lost link.
- **`IndexConsistent`, `ListenersMatch`, `HttpRoutesToLive`, `NoTakeover`.** The maps,
  the sessions and the listeners agree in every state, with any number of binds
  under way; a subdomain never leads to a session that is gone; a name passes to
  nobody else before it is released.
- **`WithinGrant`, `NoPortsTruthful`, `Answered`.** The port search is right under a
  condition on each token's grant, and the run has a grant on either side of it. A
  grant is *safe* (`SafeGrant`) if it begins no further above the server's range
  than it is long. A token with a safe grant gets ports of its grant only,
  wherever other tokens, those with other grants too, leave `nextPortHint`; nobody
  gets a port outside the server's range or above its grant. "No port is left"
  is true whenever the hint is in reach of the grant (`HintInReach`), which it
  always is of a safe one. Neither condition is one the code checks: the run
  `FarGrant` shows what becomes of the other tokens (section 5). And every request
  has its answer or waits for its bind, which ends one way or the other.
- **`NothingLost`, `RoutedByHost`.** However the network cuts a
  request, the stream gets every byte of it (because `onData` stops listening and
  `route` hands over within one callback, not because of the pause, which would
  matter only if `route` awaited something), a head within the limit is not
  refused for the body that came with it, and the connection goes to the session
  that serves its label when the head is complete, or is refused for a reason that
  is true then.
- **`Settles`, `StreamOutlivesHeadTimer`.** The idle timer drops a visitor that
  stalls in its head and never a connection already handed over.
- **`NameFollowsAgent`.** The claim of docs/PROTOCOL.md that the server is the
  patient side: while an agent believes that its tunnel is up, the server routes
  the name to it, even over a dead link. It relates five timers of two machines.
  It fails with 3 misses in place of 4 in this instance: 3 heartbeats of 2 ticks
  do not outlast an interval of 2, a timeout of 3 and the latency. The defaults
  (10 x 30 s against 20 s + 20 s) are far on the safe side, but any
  `HEARTBEAT_MISSES` and `UPTUNNEL_PING_TIMEOUT` may be configured.
- **`AgentNotices`, `ServerNotices`.** A dead link is noticed by the agent within
  interval + timeout ("up to ~40s") and by the server within misses + 1
  heartbeats.
- **`PyBridge`.** The same promises from the Python agent, whose means are others:
  its window bounds an inbox nothing else bounds, a pump acknowledges after an
  `await`, and a silent `finish()` relies on the frame sent before it. As an asyncio
  connection may be half-open, `WholeBeforeEnd` holds here: the service's end
  reaches the visitor after the last byte of the reply, which the Node agent
  does not achieve (section 5).
- **`NewestKept`, `Ceiling`.** After any crash of the process, refused call or restart the log is
  the newest recorded events without a gap. It can exceed the "hard line ceiling"
  of healthlog.ts:2, by one line for each trim that failed or was cut off, since
  `configure` does not trim, and by one ceiling when the count could not be read.
  A crash here keeps what completed calls wrote; a loss of power may not, since
  nothing is synced, and is not modelled.
- **`NoFalseAlarm`, `Recovers`, `StopEnds`.** No timer of either side ends a session
  on a live link, wherever it dies the agent gets back, and `stop()` works in
  every phase.

**Why the bounds are enough.** Windows, buffers and chunks matter only by which of
them runs out first; with 1 and 2 bytes each of "credit gone", "credit overshot
by part of a chunk", "buffer full" and "buffer drained" happens after one or two
events, and 3 or 4 bytes let each happen twice. The pairs of events that the run of
`PyBridge` leaves out matter to properties that section 4 proves for all of them. Three requests are one more than the
ports of a grant and than the limit of a token. Two faults give a second failure
during the recovery from the first; three connections are one more than the
agent can leave behind in that time. In `HealthLog` 26 events fill the log of 10
three times after restarts under either ceiling, so a second trim meets what the
first left.

**Fairness.** `StreamBridge!FairSpec` assumes weak fairness of the two event loops
(a callback that is due runs, a kernel delivers, a dial ends by itself or by its
10 s timer, the 25 ms poll clears congestion) and of nothing outside: nobody has
to send, to hang up or to fail. `HttpFrontend!FairSpec` assumes the same of the
server's event loop, and `PyBridge!FairSpec` of the asyncio loop (a task whose wait
is over is run) in place of the Node agent's. `AgentLife!FairSpec` assumes that time passes and
what is due happens; no fault has to occur. Weak fairness is enough everywhere,
because nothing disables an event that is due except its own handling or the end
of its object.

## 4. What is proved

`WireProofs` proves `Conserved`, `Overshoot` and `Bounded` of `CreditWindow` for every
window and chunk size that are not 0, as they are in every module that implements it.
No run checks `CreditWindow` by itself: what the runs check is that the two bridges
implement it (`BothAreWindows`). `Bounded` alone is not inductive; the invariant `IInv` adds the
types, the sum, and the bound on overshoot that the sum turns into the bound on
what is held.

`ServerProofs` proves of `Registry`, for any sets of sessions, tokens, names and ports, any
grants and any limits that satisfy the module's assumptions:

- `TypeCorrect`, `IndexesConsistent`, `ListenersMatchTunnels`, `RoutesLead`: the
  invariants of the same run. The inductive invariant is `TypeOK`, `Maps` and
  `HttpLive`. `Maps` strengthens `IndexConsistent` by what the code relies on and
  no map says: a tunnel being bound is in `binding` and not yet in `byId`, its
  port already names it, its owner is known, nothing has a port and a subdomain,
  and a request not yet made has neither. Without it a step that removes an entry
  could remove another tunnel's. The steps are grouped by what they do to the
  maps (`CloseAllStep`, `RefusedStep`, `HttpOpenedStep`, `ClaimStep`, `BindOkStep`,
  `BindFailStep`), and each action cites one of them.
- `RequestsAnswered`: `Answered`, which is inductive with `TypeOK`.
- `NamesKept`: no step hands a held name to another tunnel, from the same invariant.
- `PortsGranted`: `WithinGrant`, for any grants. The invariant adds that `nextPortHint`
  never falls below the server's range, which does not depend on the grants: a search
  that starts below its grant looks no lower than the hint (`CandidateBounds`, from
  what JavaScript's `%` does to a negative dividend, `JsModRange`). So a safe grant has
  the hint in reach however other tokens move it (`SafeInReach`), the dividend is not
  negative, and the search stays in the grant. `SafeGrantsReached` states the middle
  step as a theorem of its own.
- `NoPortsMeansNone` (`NoPortsTruthful`), for any grants: an agent is told, while the
  hint is in reach of its grant, that no port is left only when each port of the
  grant is taken; by `SafeGrantsReached` a token with a safe grant is never told so
  otherwise. No induction over
  the search is needed: `RemainderOf` says what the remainder of a division is, and
  with it `EveryPortSearched` names, for each port of the grant, the step of the
  search at which it is the candidate. A search that ends without a port has refused
  each of them (`OnlyWhenFull`).

`WireProofs` also proves, for every id, count, payload and object, that the
decoder inverts the encoders: `StreamRoundTrip`, `ControlRoundTrip`,
`GrantRoundTrip`. The only assumption is that `JSON.parse` reads back what
`JSON.stringify` wrote. `U32Bytes` does the arithmetic of big-endian words,
`StreamLayout` says where the parts of a frame lie.

`ServerProofs` proves of `HealthLog` `LogTypeCorrect`, `NewestAreKept` and `CeilingHolds` for every
finite set of ceilings and any number of events, refused calls and crashes. The
properties say nothing of the copy that is about to replace the log, nor of the
counts that make `health()` trim in time. The invariant adds `Counted` (only a start
meets a torn line, and counts it), `Newests` (the copy is itself a long enough end
of what was recorded) and `Sized` (the log is not longer than its count, but for
what the faults explain). `NewestEnds` is the lemma on what a trim keeps,
`RoomGrows` the arithmetic of the ceiling.

`HttpFrontendProofs` proves, for any hostnames, limit, chunk size and request:

- `TypeCorrect` and `NothingIsLost`. The invariant adds `Within` (a connection that
  is not settled has not outgrown the limit, so the next chunk exceeds it by
  less than itself) and `Arrived` (an answer never lands among the visitor's
  bytes). `TakenIsKept` is the heart: moving bytes from the socket to the head
  changes nothing of the two together.
- `RoutesByHost`, from the same invariant and `VerdictIsRight`, the case analysis of
  `route` for every spelling of a hostname.
- `StreamsOutliveHeadTimer`, from `Handed`: whoever has an answer or a session has
  no timer, and a socket ends or fails only for the visitor's reasons.

`StreamBridgeProofs` proves about `StreamBridge`, for any window, chunk, socket buffer,
request, head and rewritten Host:

- `TypeCorrect`, `ChannelsDisciplined`, `PeersAreTold`, `BuffersBounded`: the safety
  invariants of its runs but for `InOrder`, which is the theorem of `StreamOrderProofs`.
- `Windows`: `Spec => BothAreWindows`, the refinement of `CreditWindow` in both
  directions, step by step. A step of the bridge is in each direction one step of
  the window (`SendData`, `Receive`, `Acknowledge`, `Grant`, `Abandon`) or none. What
  `WireProofs` proves therefore holds of the two classes.

The assumptions are `StreamBridge`'s own: the preread bytes are fewer than the
window (a stream whose preread exhausts its credit is resumed all the same, section
5) and a rewritten Host is not empty. `IInv` has eleven parts. `Types`, `LifeOfServer`
and `LifeOfAgent` say which fields of an end go together; `Chan`, `Informed` and `Eof`
what the two queues may hold, given both ends: the end of a stream is known, or
under way, or its owner has not been told of it; `Flow` that in each direction credit,
data under way, bytes held and acknowledgements under way sum to the window;
`SrvPauses` and `CliPauses` that a sender without credit has paused its socket;
`SrvBuffers` and `CliBuffers` that what a socket buffers is not yet acknowledged, but
for a buffer that `write()` called free and a head that was held back.

An action runs one handler, and a handler is a composition of operators on a turn, so
each operator has a lemma on what it does to a turn. The *law* (`SrvLaw`, `CliLaw`)
then says what a turn that says the frames `e` and takes the frames `t` does to the
stream: to the queues (`Wire`), to what each end knows of the other (`Word`) and to the
counts (`Bytes`). Any turn that obeys it keeps `IInv`, whichever handler it ran, and
every action is shown to obey it. The sums over queues (`DataIn`, `AcksIn`) are
recursive functions. Their laws are proved for queues of every length without an
induction rule: `LeastNumber` takes a smallest counterexample from the library's
`WFMin`.

`StreamOrderProofs` proves `ReadInOrder` (`InOrder`): what the service and the visitor have
read is at any moment the beginning of what the other one sent, nothing lost,
doubled or out of order, and the Host header rewritten where it should be. It is
proved for every window, chunk, buffer, head and number of bytes, *assuming* `HostInHead`: the
value of a Host header lies in the head, and in as much of it as `MaxHead` lets
the agent hold back. A value behind the head is not a Host header, and one beyond
`MaxHead` the agent passes on as it is, which TLC shows when it is given such
constants.

The invariant is `Order`: `Up` and `Down` say of each place on the way of a
byte (the socket it is read from, the frames under way, the queue in front of the dial,
the head held back, the socket it is written to) which bytes are in it. They say so
only as long as the bytes can still arrive: after a reset, an abort or the loss
of the link, bytes vanish from the middle of the way, and what remains true is
that the reader got a beginning and will get nothing more. TLC checked `Order` on
the constants of `BridgeEnds` and `BridgeFlow` before it was proved. Most turns say
nothing and take nothing (`SrvCalm`, `CliCalm`); the others move bytes from one place
to the next (`ServerOrder`, `ClientOrder`); the head has lemmas of its own
(`WrittenLocally`, `HeadSeen`, `AttachSeen`), which relate positions before and after the
rewrite. `OrderShows` gets `InOrder` from it.

`PyBridgeProofs` proves about `PyBridge`, for any window, chunk, water marks, request, head
and rewritten Host:

- `TypeCorrect` (`TypeOK`), with the bounds on every count.
- `PeersAreTold` (`PeerIsTold`): wherever the three tasks of the agent are when the dial
  fails, a party hangs up or the link is lost, an end that is done has told the other one, or
  is telling it, unless the local connection failed (section 5).
- `Windows` (`BothAreWindows`): each direction refines `CreditWindow`.

The server's end is the one of `StreamBridge`, so its half of the proof is close to
`StreamBridgeProofs`; it is written again since lemmas about one module's variables do
not hold of another's. The agent's half differs. During a dial `finish()` has no
task to cancel, so the pumps may still speak for a stream that was reset: `DataFirst`
asks less of the agent's queue than `Orderly` does of the server's, and `Chan` ties what
is in it to where the pumps are. `LifeOfPy` says where the tasks may be
together, and that bytes are owed an acknowledgement exactly while a `drain()` that
follows them is waited for, or was given up; `HeardEnd` that a task knows of the
end before it is told, by what lies in the inbox. `Flow` counts the inbox and these owed
bytes where `StreamBridge` counts the queue in front of the dial. `PyWaits` bounds the
agent's credit from below, where the Node agent pauses a socket. The law of a turn of the
agent (`PyLaw`) has the same three parts, and `EveryStep` shows that every action obeys
one of the two laws or loses the link.

`PyOrderProofs` proves `PyReadInOrder`, `InOrder` of `PyBridge`, under the assumption
`HostInHead` of `StreamOrderProofs`. Its `Order` differs where the agent does. A byte on
its way to the service may lie in the inbox: `Coming` is what the pump to the service
still has to take, the inbox and, unless the stream is finished, the frames under way.
Finishing does not stop a pump that was started during a dial: it goes on writing
what the inbox has, so `Up` holds of it too, and only promises that nothing follows
(`Owed`). What the pumps pass on depends on where each task is (`PyTells`, `PyHears`)
rather than on the flags of a socket. `Ends` says that an end of stream, under way or in
the inbox, has everything before it, and `LostEmpty` that a connection that failed holds
nothing. Steps of a socket alone and turns that move no byte keep `Order` by one lemma
each (`SockCalm`, `PyCalmStep`); the rest is `ServerOrder` and `AgentOrder`, and
`OrderShows` gets `InOrder`.

`AgentLifeProofs` proves about `AgentLife`, for any timeouts, any number of connections
and any number of faults:

- `TypeCorrect` and `LossNoticed` (`ServerNotices`), from `IInv`: its parts are the types,
  `Phased` (the agent has a connection in the phases that need one), `Linked` (a dead
  link carries nothing), `Slotted` (a slot belongs to one connection: what may be
  under way in it, given the agent's phase and the server's end), `Settled` (a session
  that is established has no HELLO timer) and `Ticking`, which bounds `deadFor` by
  `Silence`, the time the server's misses and its next beat amount to.
- `AgentNoticesLoss` (`AgentNotices`), *assuming* `Pings`: neither the interval nor the
  timeout is 0, the values with which the agent does not ping or waits for ever.
- `NameKept` (`NameFollowsAgent`), *assuming* `Pings` and `PatientServer`: misses times
  heartbeat exceed interval, timeout and latency, the condition under which the
  document calls the server the patient side. The invariant adds `Patient`: `Pinged`
  bounds `deadFor` by the agent's timers, `Heard` bounds `Silence` by them too, since
  the server hears each ping at most `Latency` later, and `Claimed` says that an
  agent that was granted the name holds it.
- `NoFalseAlarms` (`NoFalseAlarm`), *assuming* `RoomForAnswers`: each of the deadlines (of
  HELLO on either side, of a pong, of the server's misses) exceeds twice the latency;
  the defaults of 10 s and more allow 5 s. The invariant adds `Prompt`: while somebody
  waits, the question or its answer is under way, and is at least as old as the timer
  says (`Greeted`, `Ponged`, `Awaited`, `Answered`), or the end of the session is
  (`Served`). A message older than `Latency` does not exist, so no timer gets to 0.

All of it is by turns again: `SrvStepKind` and `AgtMoves` sort every step into a few kinds,
with the queues before and after, and each part of an invariant has one lemma for the
server's turns, one for the agent's and one for time. The three assumptions are
hypotheses of the theorems and not of the module, which TLC may run without them.

**Only model-checked.** All liveness, which needs `ENABLED`. `WholeBeforeEnd` of `PyBridge`.
The runs that expect a violation.

## 5. Where documentation and code disagree

Five runs find a documented statement violated:

- **`Wedge`** (`LetsFlowAgain`). Congestion pauses every stream. When it is over,
  `setGlobalPause(false)` calls `maybeResume`, which returns unless the stream was
  paused *for credit* (server/src/stream.ts:135). A stream that still had credit is
  never resumed, and as it sends nothing no STREAM_ACK will do it either.
  client-node/src/stream.ts:214 is the same.
- **`ZombieTunnel`** (`ReleasedOnClose`). A session ends while one of its tunnels
  awaits its bind. `closeAllFor` does not see it, `open()` then registers it, and its
  port and listener stay until the server restarts.
- **`FarGrant`** (`OnlyGranted`). The search of `claimPort` is wrong while the hint is
  further below the grant than the grant is long (registry.ts:187): the dividend is
  negative, `%` keeps its sign, and the search looks at as many ports as the
  grant has, beginning below it. With the server's range 20000-20099, a token for
  20040-20059, the hint at 20000 and 20040 taken, it looks at 20021 next, which may
  be another token's; and if 20021-20040 are taken it reports that none is left while
  20041-20059 are free. Grants like these are ordinary (a third device after
  20000-20019 and 20020-20039) and config.ts:110 takes them as they stand, against
  "Inclusive public TCP port range this token may claim" (config.ts:14).
- **`TunnelLost`** (`TunnelsComeBack`). A black-holed link: the agent is back within
  40 s, the server keeps the old session for up to 5 minutes. The new request is
  refused with `subdomain_taken`, and `onError` drops it. The session stays up, the
  name becomes free, and nobody asks for it.

- **`PyOrphan`** (`OwnBytesOnly`). The link is lost while a stream of the Python agent
  is dialling. `finish()` has no tasks to cancel and `run()` is not told, so the dial
  ends after the reconnect and starts both pumps. What the service says there is
  sent as stream 1 of the new session, to another visitor: "Streams are not
  resumable, so connections that were in flight are simply gone".

Met while modelling and not kept as runs of their own:

- `WholeBeforeEnd` of `StreamBridge` fails within the bounds of `BridgeEnds`. The
  service replies and closes. The Node agent's socket has ended both ways, closes,
  and the agent forgets the stream (client-node/src/stream.ts:104). The server is
  still writing to a slow visitor; its next STREAM_ACK names an unknown stream, the
  agent answers with STREAM_RESET, and the server destroys the public socket with
  bytes in it ("A stream is fully done once EOF has passed in both directions",
  PROTOCOL.md:144).
- `StreamsEnd` of `StreamBridge` fails there too. The service has unread bytes
  buffered in the agent's socket when it sends its FIN. The socket ends itself, so
  Node will emit no `drain`; the bytes are taken, the socket closes, and `finish()`
  says nothing. They are never acknowledged, so the server stays paused for credit
  with the rest of the visitor's bytes and FIN unread, and keeps the stream until
  the session ends ("Do not delay them past a drained socket buffer",
  PROTOCOL.md:161).
- `DoneAfterReset` of `PyBridge` fails: after a STREAM_RESET during the dial the
  Python agent's pumps start on a stream that is already finished and nobody closes
  their connection; after a failed read the agent sends a reset and `_to_local` goes
  on waiting at its inbox until the session ends ("... or after a STREAM_RESET
  from either side", PROTOCOL.md:144).
- When the write to the local service fails, the Python agent's `run()` calls
  `finish()` with nothing sent. The server learns of it from the reset that answers
  its next frame, which never comes if it waits for credit or has nothing to send.
  `PeerIsTold` of `PyBridge` therefore excepts a lost local connection.

- `openStream` ends with an unconditional `socket.resume()` (server/src/agent.ts:105),
  so a stream opened during congestion flows ("Pause every stream",
  config.ts:43), and one whose preread head is as long as the window goes below zero
  credit ("MUST stop sending", PROTOCOL.md:157). `BridgeFlow` stays clear of both:
  its preread is shorter than its window, and congestion is free to occur. So no
  property of a passing run stands for this hazard.
- Sockets are created without `allowHalfOpen`, so a visitor that half-closes loses
  the reply ("STREAM_EOF closes one direction only", PROTOCOL.md:142). `Delivered`
  is checked where nobody hangs up.
- `maxTunnels` is compared before the bind is awaited and counts one session's
  tunnels only (registry.ts:95-98), so requests sent together, or two sessions of
  one token, exceed it ("Cap on simultaneous tunnels for this token", config.ts:16).
- A refused visitor keeps its slot (server/src/http-frontend.ts:68-74). `settle`
  pauses the socket and turns its timer off, `respond` ends it; a socket with
  unread bytes emits no `end`, so one whose visitor sent anything after what was
  read (a body after the head, or the rest of a head too long) is not closed when
  the visitor hangs up. The property `(outcome \in Refusals /\ sock.fin) ~>
  sock.destroyed` fails in `HttpFrontend` for that reason, against "A device that
  never sends a complete request head must not hold a slot forever"
  (http-frontend.ts:39). `Settles` is what holds.
- A failed dial resets the stream; the visitor gets a closed connection, not the
  502 of PROTOCOL.md:139-140. Stream ids are used again after a wrap
  (agent.ts:123-130 against PROTOCOL.md:127-128).

## 6. Plan

Done: the stream end to end for both agents, its abstract window, the registry, the
HTTP frontend, the Node agent's life, the codec, the health log.
Next, in this order:

1. `StreamMux`: several streams over one session; allocation of ids and their
   reuse after the wrap, `openConns`, a congestion that pauses all of them and a
   stream that is opened meanwhile. Two composed `StreamBridge`s exceed what a run
   covers, so it has to reduce a stream to its pause flags and its id.
2. `PyLife`: `run_forever` of the Python agent (back-off, `AuthError`, the keepalive of
   the websockets library) in place of the Node agent's in `AgentLife`.

Theorem still wanted: `WholeBeforeEnd` of `PyBridge`, from the invariant of `PyOrderProofs`.

**Not modelled.** The text of JSON; TLS, the HTTP upgrade and nginx; the Python
agent's reconnect loop, handshake and tunnel requests;
`/status` and `/healthz`, which change nothing; configuration, which is read once
and appears as CONSTANTS; the text of logs. Streams of one session are modelled
one at a time until `StreamMux`: what they share is the congestion flag, which
`StreamBridge` sets and clears at any moment, and the map they are found in.
