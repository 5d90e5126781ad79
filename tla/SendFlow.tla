------------------------------ MODULE SendFlow ------------------------------
(***************************************************************************)
(* The sending half of the stream manager (src/stream/stream.ts): the two  *)
(* levels of HTTP/2 flow-control window, the per-stream queue of body      *)
(* octets that wait for credit, and the handlers that spend and grow the   *)
(* credit.  Octets are counted, never represented: a body is a number.     *)
(*                                                                         *)
(* Every action is one synchronous call into the manager.  JavaScript runs *)
(* it to completion, so nothing interleaves with it.                       *)
(***************************************************************************)
EXTENDS Integers

CONSTANTS
  DefaultInitialWindowSize,   \* DEFAULT_INITIAL_WINDOW_SIZE, 65535
  DefaultMaxFrameSize,        \* DEFAULT_MAX_FRAME_SIZE, 16384
  MinMaxFrameSize,            \* MIN_MAX_FRAME_SIZE, 16384
  MaxMaxFrameSize,            \* MAX_MAX_FRAME_SIZE, 2^24 - 1
  SettingsFrames,             \* the SETTINGS payloads a peer may send
  Increments,                 \* the WINDOW_UPDATE increments a peer may send
  MaxStreams,                 \* bound: how many streams are ever opened
  MaxBody,                    \* bound: octets handed to sendData on a stream
  MaxGranted                  \* bound: credit granted to one window by updates

(***************************************************************************)
(* A SETTINGS payload is a partial map; the two entries that matter to     *)
(* sending are INITIAL_WINDOW_SIZE (0x4) and MAX_FRAME_SIZE (0x5).         *)
(***************************************************************************)
SettingsPayload ==
  [{"initialWindowSize", "maxFrameSize"} -> Nat] \cup
  [{"initialWindowSize"} -> Nat] \cup [{"maxFrameSize"} -> Nat] \cup [{} -> Nat]

ASSUME WindowAssumption == DefaultInitialWindowSize \in Nat
ASSUME FrameSizeAssumption ==
  /\ {MinMaxFrameSize, DefaultMaxFrameSize, MaxMaxFrameSize} \subseteq Nat \ {0}
  /\ MinMaxFrameSize <= DefaultMaxFrameSize
  /\ DefaultMaxFrameSize <= MaxMaxFrameSize
ASSUME PeerAssumption ==
  SettingsFrames \subseteq SettingsPayload /\ Increments \subseteq Nat
ASSUME BoundAssumption == {MaxStreams, MaxBody, MaxGranted} \subseteq Nat

VARIABLES
  nextStreamId,             \* the number of the next stream
  streams,                  \* live streams: id -> the sending fields of ManagedStream
  connectionSendWindow,
  remoteInitialWindowSize,
  maxFrameSize,
  sent,                     \* octets given to sendDataFrame so far, per id
  ended,                    \* ids on which a DATA frame carried END_STREAM
  granted,                  \* credit received in stream WINDOW_UPDATEs, per id
  connectionGranted         \* credit received in connection WINDOW_UPDATEs

manager == <<nextStreamId, streams, connectionSendWindow,
             remoteInitialWindowSize, maxFrameSize>>
history == <<sent, ended, granted, connectionGranted>>
vars == <<manager, history>>

\* Streams are numbered in the order they are opened: number k is wire id 2k - 1.
\* It is also the insertion order of the streams Map, in which every pass runs.
StreamIds == 1..MaxStreams

SendState == [localWindow : Int, sendQueue : Nat, sendQueueEndStream : BOOLEAN]

Lesser(a, b) == IF a <= b THEN a ELSE b

-----------------------------------------------------------------------------
\* Sendable without the check of the connection window.
SendableOverdrawn(st, c) ==
  IF st.localWindow <= 0 THEN 0 ELSE Lesser(st.sendQueue, st.localWindow)

\* What drainSendQueue writes on stream st while the connection window is c.
\* Its loop sends chunk after chunk until the queue or a window is exhausted.
Sendable(st, c) ==
  IF st.localWindow <= 0 THEN 0
  ELSE Lesser(st.sendQueue, Lesser(st.localWindow, c))

Drained(st, n) ==
  [st EXCEPT !.localWindow = @ - n, !.sendQueue = @ - n]

\* CarriesEnd on every chunk of a complete body, not only the last.
CarriesEndEarly(st, n) == st.sendQueueEndStream /\ n > 0

\* The chunk that empties the queue carries END_STREAM when the body is complete.
CarriesEnd(st, n) == st.sendQueueEndStream /\ n > 0 /\ n = st.sendQueue

(***************************************************************************)
(* Draining the streams of S in table order, from table tab and connection *)
(* window conn.  Left[k] is what remains of the connection window after    *)
(* stream k: each stream is offered only what the earlier ones left over.  *)
(***************************************************************************)
Left(S, tab, conn) ==
  LET left[k \in 0..MaxStreams] ==
        IF k = 0 THEN conn
        ELSE left[k - 1] - (IF k \in S THEN Sendable(tab[k], left[k - 1]) ELSE 0)
  IN left

Drain(S, tab, conn) ==
  LET left == Left(S, tab, conn)
      amount(s) == left[s - 1] - left[s]
  IN /\ streams' = [s \in DOMAIN tab |-> Drained(tab[s], amount(s))]
     /\ connectionSendWindow' = left[MaxStreams]
     /\ sent' = [s \in StreamIds |-> sent[s] + amount(s)]
     /\ ended' = ended \cup {s \in S : CarriesEnd(tab[s], amount(s))}

-----------------------------------------------------------------------------
Init ==
  /\ nextStreamId = 1
  /\ streams = [s \in {} |-> {}]
  /\ connectionSendWindow = DefaultInitialWindowSize
  /\ remoteInitialWindowSize = DefaultInitialWindowSize
  /\ maxFrameSize = DefaultMaxFrameSize
  /\ sent = [s \in StreamIds |-> 0]
  /\ ended = {}
  /\ granted = [s \in StreamIds |-> 0]
  /\ connectionGranted = 0

\* NewSendState that forgets what the peer advertised.
NewSendStateStale ==
  [localWindow |-> DefaultInitialWindowSize, sendQueue |-> 0, sendQueueEndStream |-> FALSE]

NewSendState ==
  [localWindow |-> remoteInitialWindowSize, sendQueue |-> 0, sendQueueEndStream |-> FALSE]

\* The table with id added: streams.set(id, new ManagedStream(...)).
WithStream(id, st) ==
  [s \in DOMAIN streams \cup {id} |-> IF s = id THEN st ELSE streams[s]]

\* openStream(): a new stream starts with the window the peer last advertised.
OpenStream ==
  /\ nextStreamId \in StreamIds
  /\ streams' = WithStream(nextStreamId, NewSendState)
  /\ nextStreamId' = nextStreamId + 1
  /\ UNCHANGED <<connectionSendWindow, remoteInitialWindowSize, maxFrameSize, history>>

Enqueued(st, n, endStream) ==
  [st EXCEPT !.sendQueue = @ + n, !.sendQueueEndStream = @ \/ endStream]

\* sendData(s, data, endStream) with n octets: enqueue, then drain this stream.
\* A caller adds nothing after it has ended the body.
SendData(s, n, endStream) ==
  /\ s \in DOMAIN streams
  /\ ~streams[s].sendQueueEndStream
  /\ Drain({s}, [streams EXCEPT ![s] = Enqueued(@, n, endStream)], connectionSendWindow)
  /\ UNCHANGED <<nextStreamId, remoteInitialWindowSize, maxFrameSize,
                 granted, connectionGranted>>

\* ConnectionWindowUpdate that leaves the queues for the next call.
ConnectionWindowUpdateUndrained(n) ==
  /\ connectionGranted' = connectionGranted + n
  /\ Drain({}, streams, connectionSendWindow + n)
  /\ UNCHANGED <<nextStreamId, remoteInitialWindowSize, maxFrameSize, granted>>

\* ConnectionWindowUpdate that forgets the credit that was left.
ConnectionWindowUpdateReplacing(n) ==
  /\ connectionGranted' = connectionGranted + n
  /\ Drain(DOMAIN streams, streams, n)
  /\ UNCHANGED <<nextStreamId, remoteInitialWindowSize, maxFrameSize, granted>>

\* handleWindowUpdate on stream 0: the connection window grows, every queue is drained.
ConnectionWindowUpdate(n) ==
  /\ connectionGranted' = connectionGranted + n
  /\ Drain(DOMAIN streams, streams, connectionSendWindow + n)
  /\ UNCHANGED <<nextStreamId, remoteInitialWindowSize, maxFrameSize, granted>>

Grown(st, n) == [st EXCEPT !.localWindow = @ + n]

\* handleWindowUpdate on a stream: an unknown or finalized one is ignored.
StreamWindowUpdate(s, n) ==
  IF s \in DOMAIN streams
  THEN /\ granted' = [granted EXCEPT ![s] = @ + n]
       /\ Drain({s}, [streams EXCEPT ![s] = Grown(@, n)], connectionSendWindow)
       /\ UNCHANGED <<nextStreamId, remoteInitialWindowSize, maxFrameSize, connectionGranted>>
  ELSE UNCHANGED vars

Clamp(v) ==
  IF v < MinMaxFrameSize THEN MinMaxFrameSize
  ELSE Lesser(v, MaxMaxFrameSize)

(***************************************************************************)
(* handleSettings without ACK.  Entries are applied in key order, so       *)
(* queues are drained under the new INITIAL_WINDOW_SIZE and still under    *)
(* the old MAX_FRAME_SIZE.  The window of a live stream moves by the       *)
(* difference, and may become negative.                                    *)
(***************************************************************************)
ApplySettings(f) ==
  LET has == "initialWindowSize" \in DOMAIN f
      new == IF has THEN f["initialWindowSize"] ELSE remoteInitialWindowSize
      delta == new - remoteInitialWindowSize
  IN /\ remoteInitialWindowSize' = new
     /\ Drain(IF has THEN DOMAIN streams ELSE {},
              [s \in DOMAIN streams |-> Grown(streams[s], delta)],
              connectionSendWindow)
     /\ maxFrameSize' = IF "maxFrameSize" \in DOMAIN f THEN Clamp(f["maxFrameSize"])
                        ELSE maxFrameSize
     /\ UNCHANGED <<nextStreamId, granted, connectionGranted>>

\* Finalize that refunds the connection for the octets it drops (of stream 1).
FinalizeRefunding(S) ==
  /\ streams' = [s \in DOMAIN streams \ S |-> streams[s]]
  /\ connectionSendWindow' =
       connectionSendWindow + (IF 1 \in S THEN streams[1].sendQueue ELSE 0)
  /\ UNCHANGED <<nextStreamId, remoteInitialWindowSize, maxFrameSize, history>>

\* finalizeStream: on RST_STREAM or a complete response for one stream, on GOAWAY
\* for those above lastStreamId, on abortAll for all.  What is queued is dropped.
Finalize(S) ==
  /\ streams' = [s \in DOMAIN streams \ S |-> streams[s]]
  /\ UNCHANGED <<nextStreamId, connectionSendWindow, remoteInitialWindowSize,
                 maxFrameSize, history>>

Next ==
  \/ OpenStream
  \/ \E s \in DOMAIN streams, n \in 0..MaxBody, e \in BOOLEAN :
       sent[s] + streams[s].sendQueue + n <= MaxBody /\ SendData(s, n, e)
  \/ \E n \in Increments :
       connectionGranted + n <= MaxGranted /\ ConnectionWindowUpdate(n)
  \/ \E s \in StreamIds, n \in Increments :
       granted[s] + n <= MaxGranted /\ StreamWindowUpdate(s, n)
  \/ \E f \in SettingsFrames : ApplySettings(f)
  \/ \E S \in (SUBSET DOMAIN streams) \ {{}} : Finalize(S)

Spec == Init /\ [][Next]_vars

-----------------------------------------------------------------------------
\* Every variable has the shape the code gives it, and a stream that is still to be
\* opened has no history.  In particular the connection window, unlike a stream's,
\* never goes below zero.
TypeOK ==
  /\ nextStreamId \in 1..MaxStreams + 1
  /\ DOMAIN streams \subseteq {s \in StreamIds : s < nextStreamId}
  /\ streams \in [DOMAIN streams -> SendState]
  /\ connectionSendWindow \in Nat
  /\ remoteInitialWindowSize \in Nat
  /\ maxFrameSize \in MinMaxFrameSize..MaxMaxFrameSize
  /\ sent \in [StreamIds -> Nat]
  /\ ended \subseteq StreamIds
  /\ granted \in [StreamIds -> Nat]
  /\ connectionGranted \in Nat
  /\ \A s \in StreamIds :
       s >= nextStreamId => sent[s] = 0 /\ granted[s] = 0 /\ s \notin ended

\* The octets written on a live stream are exactly those its window paid for: the
\* window advertised now, plus what WINDOW_UPDATEs added, less what was sent.  It
\* ties openStream, applyRemoteSettings, handleWindowUpdate and drainSendQueue
\* together across any number of changes of INITIAL_WINDOW_SIZE.
StreamCredit ==
  \A s \in DOMAIN streams :
    streams[s].localWindow = remoteInitialWindowSize + granted[s] - sent[s]

\* The sum of f over all streams, by recursion on the stream number.
Total(f) ==
  LET upTo[k \in 0..MaxStreams] == IF k = 0 THEN 0 ELSE upTo[k - 1] + f[k]
  IN upTo[MaxStreams]

\* The same account for the connection window, over every stream ever opened:
\* octets written on streams that have since been finalized stay paid for, and
\* octets dropped from a queue were never charged.
ConnectionCredit ==
  connectionSendWindow = DefaultInitialWindowSize + connectionGranted - Total(sent)

\* No stall: after every handler, a stream that still has octets queued lacks
\* connection credit or stream credit.  A handler that grows a window and forgets
\* a queue it unblocked breaks it, and the body then waits forever.
NoIdleCredit ==
  \A s \in DOMAIN streams :
    streams[s].sendQueue > 0 =>
      connectionSendWindow = 0 \/ streams[s].localWindow <= 0

\* END_STREAM is the last thing a stream's body says: once it has been written
\* nothing is queued behind it.
NothingAfterEnd ==
  \A s \in ended \cap DOMAIN streams :
    streams[s].sendQueueEndStream /\ streams[s].sendQueue = 0
=============================================================================
