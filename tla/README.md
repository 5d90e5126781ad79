# Verification of browsercore-http2

TLA+ models of the HTTP/2 client in `src/src/`, checked with TLC on small
instances, with the central invariants proved by TLAPS for every value of the
constants. Paths below are relative to the repository's parent directory, as in
`PROJECT.json` (`src/src/connection.ts` is the repository's `src/connection.ts`).

## The system

The library drives one HTTP/2 connection over a byte stream supplied by its
user. Everything runs on one JavaScript thread. What interleaves is therefore
not instructions but *turns*: calls by the application, frames dispatched by
the read loop, continuations of `async` functions, timers.

| Component | Source | State it keeps | Operations |
|---|---|---|---|
| Stream manager, sending half | `stream/stream.ts` | `nextStreamId`, per stream `localWindow`, `sendQueue`, `sendQueueEndStream`; `connectionSendWindow`, `remoteInitialWindowSize`, `maxFrameSize` | `openStream`, `sendData`, `handleWindowUpdate`, `applyRemoteSettings`, `drainSendQueue`, `finalizeStream` |
| Stream manager, receiving half | `stream/stream.ts` | per stream `state`, header and body accumulators, `resolve`/`reject`; `pendingPushContinuation`; receive windows | `dispatch` and the handlers of DATA, HEADERS, CONTINUATION, RST_STREAM, PUSH_PROMISE, GOAWAY; `expectResponse`, `abortAll` |
| Connection: requests | `connection.ts` | `closing`, `closed`, `receivedGoaway`, `activeClientStreams`, `slotWaiters` | `request`, `goaway`, `close`, `handleFatal`, `acquireSlot`, `releaseSlot`, `drainSlotWaiters`, `onStreamClosed`, `readLoop` |
| Connection: acknowledgements | `connection.ts` | `settingsAckReject`, a timer, listeners | `waitForSettingsAck`, `ping` |
| Event emitter | `internal-emitter.ts` | listeners per event | `on`, `once`, `off`, `emit` |
| Frame reader | `connection.ts` | `readBuffer` | `readOneFrame`, `readLoop` |
| Frame codec | `frame/frame.ts` | none | `serializeFrame`, `parseFrame` |
| HPACK | `hpack/` | a dynamic table per header block | `encodeHeaders`, `decodeHeaders`, integer and string codes |
| Header order and preface | `connection.ts` | none | `buildRequestHeaders`, `connectHttp2` |

How they interact: `connectHttp2` creates one `sendFrame` callback that both
the manager and the connection write through, synchronously. The read loop
takes frames from the frame reader and calls `manager.dispatch`; the manager
answers with frames (ACKs, WINDOW_UPDATEs, DATA), settles the promises that
`request()` registered through `expectResponse`, and emits `goaway`,
`streamClosed`, `settingsAck` and `pingAck`, which run the connection's
listeners inside the same turn. The connection keeps its own set of active
streams, which follows the manager's table only through `streamClosed`.

### What is hard here, and what makes each part correct

* **Sending**: two levels of window, moved by the peer while data is in flight;
  a window can become negative; several handlers can unblock several queues.
  Correct: nothing is written without credit, by the peer's own account; credit
  is neither lost nor counted twice; no queue waits that could be written; the
  end of a body is announced with its last octet.
* **Requests**: `request()` spans up to three turns, between which the
  connection can begin to close, other requests can take the slot and the limit
  can change. Correct: no request is forgotten or run twice, nothing is put on
  the wire after shutdown began, a request that failed because of GOAWAY can be
  repeated safely, every request is settled.
* **Two tables**: `activeClientStreams` duplicates the manager's table. Correct:
  they agree, so that slots are neither leaked nor freed twice.
* **Receiving**: header blocks split over frames, END_STREAM before or after
  they are complete, resets and GOAWAY between two frames of a response, server
  push with its own redirection of CONTINUATION. Correct: a request is settled
  once, with the response its peer sent; it does not wait for a response that is
  complete; reassembly never mixes blocks; received octets come back as credit.
* **Acknowledgements**: a timer, an ACK and a failure race for one promise;
  several pings may carry the same data and share the emitter. Correct: an echo
  resolves the pings it answers and no others; nothing is left registered; a
  fatal error is reported as such; nobody waits for ever.
* **Frame reader**: the transport cuts the peer's octets anywhere, and a frame
  may be one the codec refuses. Correct: frames come out in order, once and
  whole, until the connection ends; unless it ends, all of them do.
* **Frame codec and preface**: ten layouts, settings that come from a map, an
  explicit order and a GREASE draw. Correct: a peer finds what was asked for,
  each setting once.
* **HPACK**: integers at the edges of their prefixes, a Huffman code in a 32-bit
  accumulator, tables at both ends that must evolve alike. Correct: the peer
  decodes the request that was made, the client decodes the header block that
  was sent, and an index means the same at both ends.

The `hazards` in `PROJECT.json` list these at the lines where they bite.

## The modules

| Module | What it is |
|---|---|
| `SendFlow` | the sending half of the stream manager, one action per call into it |
| `FlowControl` | `SendFlow` with the peer and the two byte streams |
| `BodyTransfer` | what flow control promises for bodies, without windows or frames |
| `SendFlowProofs` | the invariants of `SendFlow`, proved |
| `FlowControlProofs` | the invariants of `FlowControl`, and that it implements `BodyTransfer`, proved |
| `Connection` | the request path: slots, turns, GOAWAY, shutdown |
| `ConnectionProofs` | its invariants, and that it implements `RequestService`, proved |
| `RequestService` | what a connection promises its callers, without streams or slots |
| `Responses` | the receiving half of the stream manager, one operator per frame handler |
| `Exchange` | `Responses` with the peer that sends the frames |
| `ResponseService` | what the receiving half promises, without frames |
| `ExchangeProofs` | the invariants of both, and that they implement `ResponseService`, proved |
| `Signals` | PING and SETTINGS acknowledgements, listeners, the timer, the connection's end |
| `SignalsProofs` | its invariants, proved |
| `FrameReader` | `readOneFrame` and `readLoop`, with the codec as a parameter |
| `FrameQueue` | what the frame reader promises, without octets |
| `Frames` | the frame codec and the frames of the preface, as operators |
| `HpackStrings`, `Hpack` | HPACK, as operators |
| `Outbound` | the preface and the HEADERS of a request, and the peer that reads them |
| `HeaderBlocks` | the peer that writes header blocks, and the client that reads them |
| `Wire` | `FrameReader` with the codec of `Frames`, `Outbound` and `HeaderBlocks` |
| `HpackProofs` | that HPACK reads back what it wrote, and the invariants of `HeaderBlocks`, proved |
| `WireProofs` | the invariants of `FrameReader`, that it implements `FrameQueue`, and that a peer understands the requests of `Outbound`, proved |
| `BoundedInduction` | induction over `0..N` for sets, and functions given by a step, for the proof modules |
| `MC...` | values for constants that a cfg cannot express, symmetry |

### SendFlow

A stream is numbered by the order in which it was opened (`k` is wire id
`2k - 1`), which is also the order in which the code iterates over its table. A
body is the number of its octets. `streams` is the `streams` map restricted to
the sending fields; `sent`, `ended`, `granted` and `connectionGranted` are
history variables that count what passed through `sendDataFrame` and
`handleWindowUpdate`.

`drainSendQueue` loops over chunks; the loop as a whole writes
`min(queue, localWindow, connectionSendWindow)` octets (`Sendable`), because
each turn of the loop is stopped by one of the three. How the octets are cut
into frames matters to the peer and is modelled in `FlowControl` (`Chunks`).
A handler that drains several streams offers each what the earlier ones left of
the connection window; `Left` is that recursion, a recursive function, so that
the module can be proved about. `Drain` is the whole effect, and is part of
every action whose handler ends in a drain.

`Finalize` is what `finalizeStream` does to the sending half, for any set of
streams at any time: RST_STREAM, a complete response, GOAWAY and `abortAll` are
all instances. A caller adds nothing to a body it has ended (`SendData`'s guard);
`connection.ts` hands over the body and its end in one call.

### FlowControl and BodyTransfer

The client's steps are those of `SendFlow`, used as `connection.ts` uses them:
`Request` opens a stream, writes HEADERS and calls `sendData` with the whole
body, in one turn; `ClientReceive` dispatches the next inbound frame. The peer
is external: it reads what the client wrote, keeps its own account of the
credit it gave (`peer`), and may send SETTINGS, grant credit with WINDOW_UPDATEs
at any time, whatever is left of the earlier and in flight, as long as no window
grows above `MaxWindow`, and close streams. The two directions are reliable FIFO queues. The
invariants are stated from the peer's side: `NoOverrun` and `FramesFit` compare
each frame *on arrival* with what the peer itself knows, `WindowsAgree` relates
both ends and everything in flight.

`BodyTransfer` has no windows: bodies begin, octets arrive, the end is seen with
the last octet, streams close. `ImplementsBodyTransfer` is the refinement, under
`arrived <- peer.received`, `whole <- peer.finished`, and
`closed <-` the streams opened and no longer in the table.

### Connection and RequestService

`status[r]` is the promise that `request(r)` returned. `jobs` is the part of the
engine's microtask queue that belongs to `request()`: `Recheck(r)` is a woken
waiter about to evaluate the loop condition of `acquireSlot`, `Open(r)` is a
request whose slot check succeeded and that will open its stream one turn later
(`await this.acquireSlot()` takes a turn even when there was nothing to wait
for). Each action is one turn:

| Action | Code |
|---|---|
| `Request(r)` | `request()` up to its first `await` |
| `RecheckSlot` | one turn of the loop in `acquireSlot` |
| `OpenAndSend`, `OpenAndBail` | `request()` after the `await`, with and without the connection closing |
| `Answer` | a complete response or RST_STREAM: `finalizeStream`, `streamClosed`, `onStreamClosed`, `releaseSlot`, and the promise |
| `Goaway`, `Settings` | the handlers of these frames with the listeners they reach |
| `Fatal` | `handleFatal`, from a failed read or a failed dispatch |
| `SendGoaway`, `Close` | `goaway()`, `close()` |

Calls and frames may fall between any two jobs. Calls can, because callers run
in continuations of their own; frames can, because a read that returned several
frames lets the loop continue through microtasks. `reading` is the read loop:
after `close()` one frame that was awaited is still dispatched. `lowestGoaway`
is a history variable.

`RequestService` says what a caller may rely on. `ImplementsRequestService`
maps `accepting <- ~closing`; `status` and `onWire` keep their names.

### Responses, Exchange and ResponseService

Streams keep their wire ids here, since GOAWAY compares them and their parity
tells pushes from requests. `streams` is the `streams` map restricted to the
receiving fields, `outcome[s]` the promise that `expectResponse` registered,
`pushed` the log of `push` events. A header block is one of a few kinds
(`Blocks`), in pieces `<<block, i, n>>`; what was accumulated decodes when it is
the pieces of one block in order (`Decodes`), so that a mix-up of two blocks
shows up as a failed decoding. A body is the number of its octets.

| Operator | Code |
|---|---|
| `HandleData`, `HandleHeaders`, `HandleContinuation`, `HandlePushPromise`, `HandleRstStream`, `HandleGoaway` | the handlers of those names |
| `Dispatch` | `dispatch`: frames on a stream that is not in the table are dropped |
| `MaybeResolve`, `EndStream`, `RejectStreams` | `maybeResolveResponse`, `transitionOnEndStream`, `rejectStream` with `finalizeStream` |
| `WithHeaders` | `decodePendingHeaders`: every block overwrites `responseHeaders` |
| `HandleFatal` | what an exception in `dispatch`, or a failed read, does to the table |

`Exchange` is the peer: frames in a legal order (nothing but CONTINUATION inside
a header block), within its credit, resets also after a complete response,
GOAWAY with any `lastStreamId` that does not disown a response in progress. A
frame is dispatched in the step that sends it. That loses no behaviour: between
a frame's departure and its arrival the client could only open streams, of which
the peer does not yet know. `updates` is the credit on its way back.

`Features` holds optional habits of the peer, of which the first four are legal
HTTP/2. With each of the four a property fails:

* `endStreamBeforeContinuation` and `trailers`: the `response_wrong` run.
* `pushedContinuation`, on in the passing run: a pushed response with headers in
  several frames is announced twice (`handleContinuation` emits `push` for any
  block of a promised stream): `PushedOnce` fails, the `pushed_twice` run.
* `pushAfterGoaway`: GOAWAY drops promised streams above its `lastStreamId`,
  though the number speaks of requests; DATA on them is then dropped without
  WINDOW_UPDATE, and the connection's credit shrinks. No run is kept for it;
  `CreditConserved` fails when it is added to `MCExchange.cfg`.
* `undecodable`, on in the passing run: a block that HPACK refuses, in a
  response or a promise; it ends the connection.

`PushedOnce`, what the comments promise, is that a promise is announced once and
nothing else is. `PromiseAnnounced` is what is left of it when a pushed response
is continued: the promise comes first, once, and when its block is complete. The
`responses` run checks it with such pushed responses, and it is proved without an
assumption on the features.

`ResponseService` has promises and finished responses only.
`ImplementsResponseService` maps `finished <- Finished(s)`, the response whose
last frame the peer has sent, and includes that every request is settled.

### Signals

`ping` and `waitForSettingsAck` register a handler with the emitter and a
promise; `onPingAck` and `onSettingsAck` are the emitter's sets restricted to
them. `emit` iterates over a snapshot, so an emission is one step that reaches
all of them, and a handler that calls `off` (or `once`) removes only itself.
A wait also sets a timer and leaves its `reject` in `settingsAckReject`, of
which the connection has one: `handleFatal` rejects through it.

`Receive` is one turn of the read loop: it dispatches, then looks at `closed`;
so one frame that was awaited when `close()` ran still counts. There are two
ways to end: `Close`, which settles neither pings nor waits, and `HandleFatal`,
which rejects the latest wait and no ping. `connectHttp2` makes one wait, and a strict
caller may make others beside it, for which the connection has one callback: the
second overwrites it, and whichever timer or ACK comes first clears it. A wait
of two can therefore be left to its timeout by a fatal error, and a ping for
ever (`NobodyLeftWaiting`, run `left_waiting`). `overlapped` is a history variable: the waits that were
pending beside another one. `SoleWaitUnmasked` is that none of the others is
left, whatever waits, timers and ACKs came before it.

### FrameReader, FrameQueue

An octet is a number. `transport.read()` returns any non-empty piece of what is
in transit (`ReadChunk`); `held` is `readBuffer` between two calls of
`readOneFrame` and the octets it has gathered while it runs, which are never
both in use. `HasFrame` is the loop condition of both its loops: a header, then
as many octets as the header says. `Deliver` is `readLoop`'s dispatch, which may
throw; `RefuseFrame` is a frame that `parseFrame` throws on. The codec is a
parameter of the module, about which it assumes only that the first octets of a
frame tell its length and that parsing gives the frame back or refuses it
(`CodecAssumption`): so what is proved about the reader does not depend on the
codec, and `MCWire` gives it the one of `Frames`, for which TLC checks the
assumption.

`FrameQueue` has frames only. `ImplementsFrameQueue` maps `stopped <- ~reading`
and includes that every frame is delivered unless the loop ends.

### Frames, HpackStrings, Hpack

Operators named after the functions they model, from octets to records and
back. What throws yields `Malformed` (`Frames`) or `Thrown` (HPACK); `Then`
passes a result on unless it was thrown. Numbers on the wire are below `2^31`,
the integers TLC has. The Huffman table is given by its 257 code lengths: a
canonical code is determined by them, and rows of the source's table are
compared with it in `TableAssumption`. `Push` and `Accumulated` are the 32-bit
accumulator of `huffmanEncode`; `MatchCodes` is `huffmanDecode` with the moments
at which it loads octets, since those decide when it takes the rest for padding.
`StaticTable` has the entries as the source has them, `PeerStaticTable` (in
`HeaderBlocks`) as the RFC has them.

A text is a member of the set `Texts`; `CodesOf` gives its code units and
`TextOf` the text of a sequence of them, and `TextAssumption` says that the one
inverts the other. The HPACK modules are pure operators with recursive functions,
so that they can be proved about.

### Outbound, HeaderBlocks, Wire

`Outbound` writes one thing, the preface of a connection or the HEADERS of a
request, from options and requests in small sets; the properties are about what
a peer decodes from the octets (`PrefaceUnderstood`, `RequestUnderstood`).
`HeaderBlocks` is a conforming peer that writes header blocks field by field
with all representations, resizes its table, and uses the indices it may; the
properties compare what `decodeHeaders` makes of every prefix of a block with
what the peer meant (`HeadersUnderstood`, `IndicesAgree`).
`AcrossBlocks` lets the peer use entries added by an earlier block, which HPACK
allows and this decoder cannot follow, and `StaticIndices` which static entries it
uses, of which 8 to 14 have another name here (run `blocks_misread`);
`IndicesAgree` is about the entries added since the block began.

`Wire` puts the three together. They share no variable, so interleaving them
shows nothing, and their product would be large: each part moves only while the
others are where they began.

## The runs

| Run | States | What it shows |
|---|---|---|
| `flow_control` | 568 k | `StreamCredit`, `ConnectionCredit`, `NoIdleCredit`, `NothingAfterEnd` of the client, `NoOverrun`, `FramesFit`, `WindowsAgree`, `EndMeansWholeBody` with both ends and frames in flight; `ImplementsBodyTransfer`, with its liveness |
| `connection` | 97 k | `InOnePlace`, `ActiveTracksTable`, `ClosedMeansEmpty`, `GoawayMeansUnprocessed`, `WaitersHaveAWaker`; `ImplementsRequestService`, with its liveness |
| `responses` | 265 k | `TableIsPending`, `BlocksInStep`, `CreditConserved`, `PromiseAnnounced`, `ResolvedInFull`, `Faithful`; `ImplementsResponseService`, with its liveness |
| `signals` | 256 k | `ListenersTracked`, `RoundTrip`, `SoleWaitUnmasked`, and the liveness properties `WaitsEnd`, `PingsAnswered` |
| `wire` | 81 k | `NothingLost`, `PrefaceUnderstood`, `RequestUnderstood`, `HeadersUnderstood`, `IndicesAgree`; `ImplementsFrameQueue`, with its liveness |
| `slot_race` | violation | `WithinLimit`: the check for a slot and the opening of the stream are in different turns |
| `slot_idle` | violation | `NoIdleSlot`: a request that fails to encode keeps its slot; and SETTINGS that raises the limit wakes nobody |
| `response_wrong` | violation | `ResolvedInFull`: trailers replace the response's headers and status; and END_STREAM on HEADERS that a CONTINUATION completes is forgotten |
| `pushed_twice` | violation | `PushedOnce`: the headers of a pushed response, in several frames, are announced as a second push |
| `left_waiting` | violation | `NobodyLeftWaiting`: a fatal error never settles a ping; and of two waits for the SETTINGS ACK it rejects one |
| `blocks_misread` | violation | `HeadersUnderstood`: entries 8 to 14 of the static table have the wrong name; and a peer that uses its table across blocks is refused |
| `huffman_overflow` | violation | `RequestUnderstood`, with a value whose code overflows the accumulator |

The seven violations are disagreements between the code and its own comments,
explained in `PROJECT.json` under `findings`. Four of the runs have two causes
each, which are told apart by removing the one that TLC finds first:

* `slot_idle` with `BadRequests = {}` leaves the raised limit;
* `response_wrong` with `Features = {"endStreamBeforeContinuation"}` leaves the
  lost END_STREAM;
* `left_waiting` with `Pings = {}` leaves the overwritten callback of the waits;
* `blocks_misread` with `StaticIndices = {15, 61}` leaves the table that every
  header block forgets.

Other divergences met while reading, which no run is about:

* DATA of a pushed stream that GOAWAY dropped costs the connection its credit,
  though `stream.ts:555-556` speaks of replenishing it for the consumed octets
  (see `pushAfterGoaway` above);
* `close()`, like a fatal error, leaves pings pending, though `errors.ts:126-127`
  says that `ping()` raises an error when the connection has been shut down;
* the receive windows `remoteWindow` and `connectionReceiveWindow` are
  decremented and never grown, though `stream.ts:54-55` speaks of topping them
  up (nothing consults them);
* HEADERS with padding or priority are not stripped of them
  (`stream.ts:29-30`), and a header block is never split into CONTINUATIONs on
  the way out;
* a frame of unknown type is returned as DATA, though `frame.ts:207-208` says it
  is ignored;
* `huffmanDecode` accepts the end-of-string symbol that its comment says it
  throws on;
* header fields of one name collapse to the last one in `decodeHeaders`'s Map;
* an entry larger than the dynamic table is kept alone instead of dropped; the
  indices a peer may use afterwards still agree (`IndicesAgree`);
* an id that occurs twice in `settingsOrder` is sent twice;
* `connectHttp2` is documented to wait for the SETTINGS ACK
  (`connection.ts:548-549`); it returns without;
* a dispatch error tears the connection down without sending GOAWAY;
* the response of a push has no one to resolve it.

### Bounds

* `flow_control`: 2 streams, so that a pass over the table has a stream that
  exhausts the connection window and one that gets what is left; bodies of up to
  2 octets, frames of 1 and later 2 octets, a window of 1, so that every longer
  body waits for credit; 2 SETTINGS frames (one takes the window to 0, so that
  windows become negative, one raises it to 2 and the frame size) and 2 frames in
  flight to the client, so that a SETTINGS and a WINDOW_UPDATE cross data in both
  orders. `MaxWindow` is 2, the number that stands for `2^31 - 1`: a window of 1
  can still be granted an octet, so that an update meets credit left and data in
  flight, on the connection and on a stream. `MaxGranted` bounds the credit given
  by updates; `MaxBody`, `MaxSettings` and `MaxInFlight` only cut off repetition.
* `connection`: 3 requests and a limit of 2 that changes to 1 and 3, so that
  there are waiters behind waiters; one of the requests cannot be encoded.
  Request ids, GOAWAY values and the queue are bounded by the number of requests;
  nothing else needs a bound.
* `responses`: 2 requests and a promised stream between them, so that GOAWAY can
  separate any two; blocks in one frame or three, so that there is a CONTINUATION
  that does not end the block; a window of 1 octet for the connection, which the
  streams share, and bodies of 1: after one body, or a frame of padding only, the
  next body needs returned credit. Padding next to data needs a larger window and
  is left to the proof (`CreditIsConserved`, `ResponsesAreFaithful`).
* `signals`: 3 pings and 2 payloads, so that two pings share one and a third does
  not; 2 waits, so that they follow one another or overlap.
* `wire`, reader: up to 3 frames out of four, of which one is a frame header
  with an empty payload, one is cut short and makes the codec throw; cut at
  every octet. Frames of the other types go through the codec in
  `CodecRoundTrip`.
* `wire`, outbound: 64 sets of connection options (settings in the order given,
  in part of it, and none; ids listed that are absent); requests with and without
  orders that name some headers, none and absent ones; every HPACK option; table
  sizes 31 and 200, which do not fit their prefix; values of 126 and 127 octets,
  in plain form (a length is the same integer in both);
  a character outside Latin-1.
* `wire`, header blocks: 2 blocks of up to 3 fields, a table of 70 octets that
  holds two entries, resized to 35 and 0, and literals that fill it, evict, and
  do not fit.

The cfgs switch deadlock checking off where the system may stop: `FlowControl`
(the bounded peer), `Connection`, `Exchange` and `Signals` (a closed connection),
`Wire` (a connection that ended, or all frames read).

### Fairness

* `FlowFairness`: the read loop dispatches what arrives, the transport delivers
  what was written, and the peer grants credit, on the connection and on each
  stream it still reads, when the credit it gave has run out; it may grant more
  before, which nothing relies on. The first two are
  the event loop and a reliable transport. The third is an assumption about the
  peer; without it no client could finish a body. Nothing is assumed of the
  client's calls or of SETTINGS.
* `Fairness` of `Connection`: the engine runs the microtasks that are due, and
  the peer answers or resets every request it received, as long as the
  connection lives. It is not assumed that connections fail or close. The
  limit must allow one stream: with a limit of 0, or with headers that cannot
  be encoded, requests may wait for ever, which `slot_idle` shows from the safety
  side. Liveness is therefore stated under `[]SlotsInUse`: no failed request
  holds a slot.
* `ExchangeFairness`: the peer finishes header blocks and the responses it owes
  when it has credit, and WINDOW_UPDATEs arrive. Nothing is assumed of pushes,
  resets, GOAWAY or interim responses.
* `Fairness` of `Signals`: timers fire, the transport delivers, the read loop
  goes on, the peer echoes pings. The ACK of the SETTINGS may never come, and
  the connection need not end.
* `ReaderFairness`: the transport delivers in the end all that was written, and
  the read loop cuts off a frame that it has. Nothing is assumed of the peer.

## The proofs

| Module | Theorems, all of the form `Spec => ...` |
|---|---|
| `SendFlowProofs` | `[]TypeOK`, `[]StreamCredit`, `[]ConnectionCredit`, `[]NoIdleCredit`, `[]NothingAfterEnd` |
| `FlowControlProofs` | `[]FlowTypeOK`, `[]NoOverrun`, `[]FramesFit`, `[]WindowsAgree`, `[]EndMeansWholeBody`, `Transfer!SafeSpec` |
| `ConnectionProofs` | `[]TypeOK`, `[]InOnePlace`, `[]ActiveTracksTable`, `[]ClosedMeansEmpty`, `[]GoawayMeansUnprocessed`, `[]WaitersHaveAWaker`, `Service!SafeSpec` |
| `WireProofs` | `[]ReaderTypeOK`, `[]NothingLost`, `Queue!SafeSpec`; `[]RequestUnderstood`; and, of `WireSpec`, the invariants of its three parts together |
| `ExchangeProofs` | `[]ExchangeTypeOK`, `[]TableIsPending`, `[]BlocksInStep`, `[]CreditConserved`, `[]PromiseAnnounced`, `[]Faithful`, `[]ResolvedInFull`, `Service!SafeSpec` |
| `SignalsProofs` | `[]TypeOK`, `[]ListenersTracked`, `[]RoundTrip`, `SoleWaitUnmasked` |
| `HpackProofs` | `[]BlocksInv`, `[]HeadersUnderstood`, `[]IndicesAgree`; and of the operators, `IntegerRead` and `HuffmanRead` |

They hold for every value of the constants that satisfies the modules' named
assumptions: any number of streams, requests, pings and frames, any windows,
limits, header blocks, paddings, payloads and codec. Some theorems assume more,
and say so; without the assumption each is false:

* `WaitersAreWoken` that no limit is 0;
* of the `Features` of the peer (see `Exchange` above), `CreditIsConserved` that
  it does not use `pushAfterGoaway`, `ResponsesAreFaithful` not `trailers`, and
  `ResponsesAreResolved` and `ExchangeServesResponses` neither `trailers` nor
  `endStreamBeforeContinuation`. Nothing else the peer may do breaks these
  properties. The other four theorems on `Exchange`
  allow all features;
* `Servable`, for `BlocksUnderstood` and `IndicesUnderstood`: the peer does not
  use entries of an earlier block, nor the static entries 8 to 14, keeps its
  table within the size the client announced, and writes, where it uses the
  Huffman code, no character whose code is longer than 25 bits. The runs
  `blocks_misread`, for the first two, and `huffman_overflow`, for the last, are
  what happens without them;
* `WellFormed(req)` of every request, for `RequestsUnderstood`: no two of its
  names differ only in case (they are sent as one name), its pseudo-headers
  are in lower case, its options have their types, no character has a code
  longer than 25 bits where the Huffman code is used, and the block fits the
  24-bit length of a frame. The clause on codes does not bind fields
  outside Latin-1, for which the encoder throws.

Recursive functions are `CHOOSE f : f = ...` to a prover, and the library's
induction theorems take operators as parameters, which no backend can
instantiate. `BoundedInduction` gives induction over `0..N` for sets instead
(`LeastElement`, `UpTo`), and from it that a function given by its first value
and a step exists (`Iteration`, `RecursionExists`); the modules that need it conclude that
their recursive functions satisfy their equations.

### SendFlow

The inductive invariant `IInv` is the conjunction of the five. None of the
other four is inductive alone: `NoIdleCredit` needs the type invariant to know
that a stream outside a drain was not unblocked, `NothingAfterEnd` needs it for
streams not yet opened, and the two accounts need that `sent` of a stream to be
opened is 0 (the last conjunct of `TypeOK`). The argument:

1. `LeftEquation` and `TotalEquation` give the equations of `Left` and `Total`.
2. `DrainEffect`: what one pass does, whatever the table: the amounts written
   are within the queues, the sum of them is what the connection window lost,
   and a stream of the pass left with octets has no stream credit or the
   connection has none left. The last is `LeftBounds`: what is left at the end
   is at most what was left after any stream.
3. `DrainKeeps`: any handler that changes the table, then drains, keeps `IInv`
   if the accounts are right before the drain and nothing outside the drained
   set was unblocked. Each action is then checked against these conditions.

### FlowControl

The invariants compare the two ends at the moment a frame arrives, and are far
from inductive: whether the frame at the head of `toPeer` fits depends on what
was promised when it was written, several frames and perhaps a SETTINGS ago.
The inductive invariant `FlowInv` therefore follows the peer's account through
the queue:

* A `Ledger` is the part of the account that arriving frames change.
  `Reaches(o, q, b, p)` says that the frames of `q` can arrive one after the
  other, beginning with ledger `o` and ending with `p`, and that each of them, on
  its arrival, `Fits`: it is within the frame size, the connection's credit and
  the stream's, and within the body `b`, and carries END_STREAM exactly if it
  completes it. `Dues` and `Brings(q, d)` are the same for what travels to the
  client: the SETTINGS in order, and the credit for each window.
* `InStep(p, d)`: with `p` the account after all of `toPeer` has arrived, and `d`
  what `toClient` brings, the two ends agree (`Agree`): what the client has left
  plus `d` is what `p` says, window by window; `p` has acknowledged the SETTINGS
  the client has applied, and waits for those in `d`; and `p` has received what
  the client has sent.
* `Bodies`: of each body, what was sent and what is queued make the whole, for a
  live stream, and END_STREAM was written exactly if all was sent.
* `FlowTypeOK`, and the invariant `IInv` of `SendFlow`.

The lemmas on `Reaches` (`ReachesJoin`, `ReachesFirst`, `ReachesChanged`,
`ReachesTakes`, `ReachesNoMore`) and on `Brings` are about queues only. With
them each kind of step is short to state: a frame that arrives is the first of
the queue; a grant or a SETTINGS of the peer changes every ledger along the queue
in the same way (`Offered`), and whatever fitted still fits; a handler of the
client writes at the end. That what a drain writes fits is `WrittenReaches`, by
induction over the streams and, within one, over the chunks it is cut into
(`ReachesChunks`). SETTINGS is the delicate case (`SettingsHandled`): the drain
runs under the new initial window and the old frame size *before* the ACK is
written, so its frames reach a peer whose account still has the old window. They
fit because a peer must accept either until the ACK arrives, which is what
`Usable` says and `NoOverrun` states.

`PeerFrameSizeAssumption` (in `FlowControl`): no SETTINGS asks for a
MAX_FRAME_SIZE below the least that HTTP/2 allows. The client raises such a value
to the least one (`Clamp`), and its frames would then not fit; RFC 7540 makes
the value an error, and the peer of this module conforms. `SendFlowProofs` does
not need the assumption.

`BodiesTransfer` is the refinement: a request begins a body (`RequestBegins`), a
DATA frame that arrives brings octets that were still missing
(`PeerReceiveArrives`), a closure removes one stream that had begun
(`ReceiveCloses`), and nothing else is visible.

### Connection

The invariants speak of who is where; that is not inductive, because an action
moves a request from the head of one queue to the end of another. The inductive
invariant `Inv` adds what the code relies on without saying it:

* no request is twice in the queues (`Apart`), a queued one is pending, has no
  stream and was not written (`QueuedWait`), and a pending one is queued or has a
  stream (`PendingPlaced`);
* a stream's request was opened as that stream (`OwnersAgree`), and a request not
  yet made has left no trace (`NewUntouched`);
* the ids left are enough for the requests that may still open a stream
  (`RoomLeft`), from which `TypeOK` gets that `nextStreamId` stays in range;
* the limit in force was advertised (`LimitAdvertised`), a closed connection is
  empty (`ClosedIsEmpty`), something wakes whoever waits (`SomethingWakes`).

The first part of the module is about sequences only: what joining, leaving and
waking do to the set of queued requests (`JoinWaiters`, `JoinJobs`, `LeaveJobs`,
`WakeMoves`). With it every action but the last three kinds is a few facts about
sets. `InvSettle` covers all ways in which streams end (an answer, GOAWAY,
`close()`, a fatal error): they differ only in which streams, which outcome and
how many waiters are woken. `ServiceStep` shows that each step is one of
`RequestService` or changes nothing callers see.

### Exchange

`Inv` ties the client's record of each stream to what the peer has sent on it.
Its conjuncts, and what each is needed for:

* `TableOK`: what the table says by itself (only requests are waited for, only
  promised streams are announced, a stream with headers is not waiting for its
  first). This is `TableIsPending` and more.
* `Redirected`, `BlockOK`: in the middle of a header block the peer knows which
  stream its CONTINUATION goes to; the client knows it from
  `pendingPushContinuation`, if the block belongs to a promise. The two agree,
  and the pieces the client has collected are the first ones of that block. A
  stream that is not in the middle of a block has collected none (`Collected`).
  From this every complete block decodes to what was sent.
* `StreamOK`: a stream in the table is in the phase that the peer's is in
  (`LiveOK`), the promise of one that is not was settled as `ResolvedInFull` and
  `Faithful` ask (`SettledOK`), and a promise was announced first and once
  or, with its block unfinished, not yet (`AnnouncedOK`): what a continued pushed
  response adds is never named a promise (`BlockOK`). Clauses that a feature breaks are
  conditioned on the feature, so that one invariant serves all the theorems.
* `CreditOK`: `CreditConserved`, with what the peer holds for streams that the
  client has dropped.

A frame changes one stream, and `OtherStream` says that `StreamOK` of the rest
is kept; each kind of frame then has a lemma on what its handler does to the
table (`HeadersHandled`, `PushPromiseHandled`, `ContinuationHandled`) and one
that the step keeps `Inv`. A failed decoding, a lost connection and `abortAll`
are one lemma (`FatalStream`).

For the refinement, `FinishedIsResolved` shows that under `Inv` the abstract
`finished` is a function of `outcome`. So a step is told by what it does to the
promises alone: nothing, answer one (`Answered`), or give up some (`GivenUp`),
one lemma per frame. `ExchangeServesResponses` is the result: the peer's frames,
in any legal order, settle each request once, with the response that was sent.

### FrameReader

`ReaderInv` is `ReaderTypeOK /\ NothingLost`, inductive as it stands. The work is
in the octets: `OctetsOf` is a recursive function, so `OctetsOfAppend` and
`OctetsOfFirst` (what a frame adds at the end and at the front) need their own
induction, and `NextFrame` shows that when the first octets of those in transit
are the header of a frame, the frame they belong to is the first one not
delivered: from which `Deliver` delivers that one and leaves the rest.

### HPACK

The argument follows the octets upward, and each part gives the next one a
single fact: whatever stands before and after it in a buffer, what was written
at a position is read there, and reading goes on right behind it.

1. *Integers.* `Occurs(octets, buf, at)` says that they stand in `buf` at `at`.
   `IntegerRead`: what `encodeInteger` writes, under any flag bits above its
   prefix, is what `decodeInteger` reads. The groups of seven bits are followed
   by induction on what is left of the value.
2. *The Huffman code.* `Spells` says that bits are the codes of a text, one after
   the other, and `Carries` that octets and the bits left over are such a string
   of bits. The encoder's side is that its 32-bit accumulator never drops a
   bit of the code as long as no code is longer than 25 bits: up to 7 bits wait
   for the next octet. The decoder's is that the code is free of prefixes
   (`CodeAssumption`, evaluated by TLC on the 257 codes of the source): the code
   of the next character is the only one that begins what is unread, and the
   padding, less than an octet of ones, begins with none. `HuffmanRead`
   is the result.
3. *Strings and fields.* A text is read back plain or in the code
   (`StringRead`), and with it each representation of a field.
4. *Tables.* `evictToFit` keeps the newest entries that fit, as many at both ends
   (`Fitting`); `Agree(table, n)`
   says that the first `n` entries of both tables are the same, which every
   representation and every resize preserve, with `n` the entries since the
   block began. This is the invariant `IndicesAgree` needs.
5. *The decoder's loop.* `Reads` says that from a position the loop comes to
   another with a list of fields; it composes (`ReadsNothing`, `ReadsOneMore`)
   and, at the end of the buffer, is the result of `decodeHeaders` (`ReadsAll`).
6. `BlocksInv`: the octets of the block read as its fields so far, and leave the
   decoder with a table that agrees with the peer's on the entries of this
   block. It is inductive, and `HeadersUnderstood` and `IndicesAgree` follow.

### Outbound

`RequestUnderstood` goes through the whole of what `request()` does with a
request before its body:

1. *The order of fields.* `buildRequestHeaders` is a loop whose turns each set one
   field or none (`SetTurns`). `TurnsCover`: each field has a turn, and a turn has
   one field at most. `Ordered` says which turn is whose, under an explicit
   order. From that, what a Map keeps of the turns is every field once
   (`HeadersBuilt`), in the order `Precedes`; `SameLength` counts them.
2. *The block.* `encodeHeaders` writes a size update and the fields, each of
   which the decoder's loop reads back in one turn (`FieldReads`), whether it is
   an index, a name's index with a value, or two strings, with a table at each
   end that evolves alike. `HeadersRead` composes them with `Reads`.
3. *The frame.* `HeaderFacts` and `FrameCut`: the nine octets of the header, and
   the payload behind them, are cut out again; `NumberOfThree` is the length of
   24 bits. `RequestFrameRead` reads type, flags and payload.
4. `RequestInv` says what `sent` holds; with 1 to 3 it gives the property. `InOrder`
   turns `Precedes` into the ranks that the property compares.

`WireIsUnderstood` puts the three parts of `Wire` together: each step of it is a
step of one and a stutter of the others (`WireParts`).

### Signals

`SignalsInv` adds to the invariants that what is on its way to the client are
ACKs, that no wait was rejected before a fatal error came (`NoneFailed`, so that
a timer that fires belongs to a pending wait), and that a pending wait which has
been alone from its beginning is the one `settingsAckReject` rejects, and the
only pending one (`SoleIsLatest`): so the timers and ACKs that clear the callback
are its own.

### Only model-checked

* All liveness properties (among them that a body in the end arrives, the other
  half of `BodyTransfer`), since fairness and ENABLED are out of this prover's
  reach.
* `PrefaceUnderstood`: the entries of a SETTINGS frame are sorted by operators
  that the library defines with operator parameters (`SetToSortSeq`,
  `SelectSeq`, `FoldLeft`), and no backend can instantiate the facts on them.
* `ReaderTypeOK` and the rest of the reader are proved of any codec that satisfies
  `CodecAssumption`; that the codec of `Frames` does is checked by TLC on the
  frames of `MCWire`. Only its HEADERS frames are proved to be read back.

## Not modelled

Wording of errors; declarations, schemas and re-exports (`errors.ts`, `types.ts`,
`schemas.ts`, `index.ts`, except for the frame types and their validation); the
constant string CLIENT_PREFACE; `setMaxTableSize` and sensitive header fields,
which no caller uses; numbers of `2^31` and more on the wire; the receive windows
that nothing consults; `pushResponse`, for which no resolver is ever registered;
PRIORITY from the peer (ignored by the code); failures of `sendFrame` (the
transport reports them as a failed read, which is `Fatal`); wrap-around of
`nextStreamId` after `2^30` streams; `listenerCount` and `removeAllListeners`.
External to the repository are the transport (two reliable FIFO byte streams that
may fail at any time), the clock (a timer fires at any time after it was set) and
the random source of the GREASE entry (any nibble).

## Plan

Done: every component of the table above, with the proofs listed. Next:

1. `CodecAssumption` for every frame type, as `RequestFrameRead` has it for
   HEADERS, and `PrefaceUnderstood` from it, with the sorting of the settings
   written as a recursive function.
2. `Connection` over `FlowControl`: bodies of requests that wait for slots, which
   today are two modules with the table abstracted in one and the slots in the
   other.
