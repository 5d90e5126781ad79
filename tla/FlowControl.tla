---------------------------- MODULE FlowControl ----------------------------
(***************************************************************************)
(* SendFlow composed with the other end of the connection: what the client *)
(* writes travels to the peer, and the peer's WINDOW_UPDATE, SETTINGS and  *)
(* stream closures travel back, over two reliable FIFO byte streams.  The  *)
(* peer keeps its own account of the credit it has given out, knowing only *)
(* what it has received.  It is external: what a conforming HTTP/2 peer    *)
(* may do.  The client is the source's, used as connection.ts uses it: a   *)
(* request opens its stream and hands over its whole body in one turn.     *)
(***************************************************************************)
EXTENDS SendFlow, Sequences

CONSTANTS
  MaxWindow,       \* the most a window may be granted up to, 2^31 - 1
  MaxSettings,     \* bound: SETTINGS frames the peer sends
  MaxInFlight      \* bound: frames in flight to the client that the peer adds to

\* A conforming peer asks for no frame size below the one HTTP/2 prescribes.
ASSUME PeerFrameSizeAssumption ==
  \A f \in SettingsFrames : "maxFrameSize" \in DOMAIN f => f["maxFrameSize"] >= MinMaxFrameSize

VARIABLES
  toPeer,          \* frames the client has written and the peer has not read
  toClient,        \* frames the peer has written and the client has not read
  peer,            \* the peer's account, see PeerState
  body             \* the size of the body each request was given

flowVars == <<vars, toPeer, toClient, peer, body>>

(***************************************************************************)
(* initial and frameSize are the values the client has acknowledged;       *)
(* unacknowledged holds the payloads it has not.  A stream's credit is     *)
(* initial + offset[s]: the offset is what was granted less what arrived.  *)
(***************************************************************************)
PeerState ==
  [initial : Nat, frameSize : Nat, unacknowledged : Seq(SettingsFrames),
   connection : Int, offset : [StreamIds -> Int],
   open : SUBSET StreamIds, finished : SUBSET StreamIds,
   received : [StreamIds -> Nat], settingsSent : Nat]

Data(s, n, e) == [type |-> "DATA", stream |-> s, length |-> n, endStream |-> e]
Headers(s) == [type |-> "HEADERS", stream |-> s]
SettingsAck == [type |-> "SETTINGS_ACK"]
WindowUpdate(s, n) == [type |-> "WINDOW_UPDATE", stream |-> s, increment |-> n]
Settings(f) == [type |-> "SETTINGS", settings |-> f]
Close(s) == [type |-> "CLOSE", stream |-> s]

\* What travels to the peer, and to the client.
ClientFrames ==
  [type : {"HEADERS"}, stream : StreamIds] \cup [type : {"SETTINGS_ACK"}] \cup
  [type : {"DATA"}, stream : StreamIds, length : Nat, endStream : BOOLEAN]
PeerFrames ==
  [type : {"WINDOW_UPDATE"}, stream : StreamIds \cup {0}, increment : Increments] \cup
  [type : {"SETTINGS"}, settings : SettingsFrames] \cup
  [type : {"CLOSE"}, stream : StreamIds]

-----------------------------------------------------------------------------
\* Chunks that ignores MAX_FRAME_SIZE.
ChunksWhole(s, n, e) == IF n = 0 THEN <<>> ELSE <<Data(s, n, e)>>

\* The DATA frames drainSendQueue cuts n octets into.  END_STREAM is on the last.
Chunks(s, n, e) ==
  LET count == (n + maxFrameSize - 1) \div maxFrameSize
  IN [i \in 1..count |->
        Data(s, IF i < count THEN maxFrameSize ELSE n - (count - 1) * maxFrameSize,
             e /\ i = count)]

\* The DATA frames of the step being taken, in table order.
Written ==
  LET upTo[k \in 0..MaxStreams] ==
        IF k = 0 THEN <<>>
        ELSE upTo[k - 1] \o Chunks(k, sent'[k] - sent[k], k \in ended' \ ended)
  IN upTo[MaxStreams]

FlowInit ==
  /\ Init
  /\ toPeer = <<>> /\ toClient = <<>>
  /\ peer = [initial |-> DefaultInitialWindowSize, frameSize |-> DefaultMaxFrameSize,
             unacknowledged |-> <<>>, connection |-> DefaultInitialWindowSize,
             offset |-> [s \in StreamIds |-> 0], open |-> {}, finished |-> {},
             received |-> [s \in StreamIds |-> 0], settingsSent |-> 0]
  /\ body = [s \in StreamIds |-> 0]

\* request() with a body of n octets, once it holds a slot: openStream, HEADERS,
\* then sendData with endStream, all in one turn.
Request(n) ==
  LET id == nextStreamId IN
  /\ id \in StreamIds
  /\ nextStreamId' = id + 1
  /\ Drain({id}, WithStream(id, Enqueued(NewSendState, n, TRUE)), connectionSendWindow)
  /\ toPeer' = Append(toPeer, Headers(id)) \o Written
  /\ body' = [body EXCEPT ![id] = n]
  /\ UNCHANGED <<remoteInitialWindowSize, maxFrameSize, granted, connectionGranted,
                 toClient, peer>>

\* The client's handling of one inbound frame, without what it writes.
Handle(m) ==
  CASE m.type = "WINDOW_UPDATE" /\ m.stream = 0 -> ConnectionWindowUpdate(m.increment)
    [] m.type = "WINDOW_UPDATE" /\ m.stream # 0 -> StreamWindowUpdate(m.stream, m.increment)
    [] m.type = "SETTINGS" -> ApplySettings(m.settings)
    [] m.type = "CLOSE" -> Finalize({m.stream} \cap DOMAIN streams)

\* The read loop dispatches the next frame.  The SETTINGS ACK follows what draining wrote.
ClientReceive ==
  /\ toClient # <<>>
  /\ LET m == Head(toClient) IN
       /\ Handle(m)
       /\ toPeer' = toPeer \o Written \o
                      (IF m.type = "SETTINGS" THEN <<SettingsAck>> ELSE <<>>)
  /\ toClient' = Tail(toClient)
  /\ UNCHANGED <<peer, body>>

-----------------------------------------------------------------------------
Setting(f, key, otherwise) == IF key \in DOMAIN f THEN f[key] ELSE otherwise

\* What the peer's account becomes when frame m arrives.
Account(m) ==
  CASE m.type = "HEADERS" -> [peer EXCEPT !.open = @ \cup {m.stream}]
    [] m.type = "DATA" ->
         [peer EXCEPT !.connection = @ - m.length,
                      !.offset[m.stream] = @ - m.length,
                      !.received[m.stream] = @ + m.length,
                      !.finished = IF m.endStream THEN @ \cup {m.stream} ELSE @]
    [] m.type = "SETTINGS_ACK" ->
         LET f == Head(peer.unacknowledged)
         IN [peer EXCEPT !.initial = Setting(f, "initialWindowSize", @),
                         !.frameSize = Setting(f, "maxFrameSize", @),
                         !.unacknowledged = Tail(@)]

PeerReceive ==
  /\ toPeer # <<>>
  /\ peer' = Account(Head(toPeer))
  /\ toPeer' = Tail(toPeer)
  /\ UNCHANGED <<vars, toClient, body>>

PeerSend(m, newPeer) ==
  /\ Len(toClient) < MaxInFlight
  /\ toClient' = Append(toClient, m)
  /\ peer' = newPeer
  /\ UNCHANGED <<vars, toPeer, body>>

\* The peer may grant credit at any time, whatever is left and in flight.
PeerGrantConnection(n) ==
  /\ peer.connection + n <= MaxWindow
  /\ PeerSend(WindowUpdate(0, n), [peer EXCEPT !.connection = @ + n])

PeerGrantStream(s, n) ==
  /\ s \in peer.open \ peer.finished
  /\ peer.initial + peer.offset[s] + n <= MaxWindow
  /\ PeerSend(WindowUpdate(s, n), [peer EXCEPT !.offset[s] = @ + n])

PeerSettings(f) ==
  /\ peer.settingsSent < MaxSettings
  /\ PeerSend(Settings(f), [peer EXCEPT !.unacknowledged = Append(@, f),
                                       !.settingsSent = @ + 1])

\* The peer resets the stream, or completes its response before the body is in.
PeerClose(s) ==
  /\ s \in peer.open
  /\ PeerSend(Close(s), [peer EXCEPT !.open = @ \ {s}])

FlowNext ==
  \/ \E n \in 1..MaxBody : Request(n)
  \/ ClientReceive
  \/ PeerReceive
  \/ \E n \in Increments : PeerGrantConnection(n)
  \/ \E s \in StreamIds, n \in Increments : PeerGrantStream(s, n)
  \/ \E f \in SettingsFrames : PeerSettings(f)
  \/ \E s \in StreamIds : PeerClose(s)

FlowSpec == FlowInit /\ [][FlowNext]_flowVars

(***************************************************************************)
(* The transport delivers in both directions, the read loop dispatches what*)
(* arrives, and the peer does not starve a stream it still reads.          *)
(***************************************************************************)
FlowFairness ==
  /\ WF_flowVars(ClientReceive)
  /\ WF_flowVars(PeerReceive)
  /\ WF_flowVars(peer.connection <= 0 /\ \E n \in Increments : PeerGrantConnection(n))
  /\ \A s \in StreamIds :
       WF_flowVars(peer.initial + peer.offset[s] <= 0
                     /\ \E n \in Increments : PeerGrantStream(s, n))

FlowFairSpec == FlowSpec /\ FlowFairness

-----------------------------------------------------------------------------
\* What the first k frames of q weigh, for every k.
Sums(q, weight) ==
  LET upTo[k \in 0..Len(q)] == IF k = 0 THEN 0 ELSE upTo[k - 1] + weight[q[k]]
  IN upTo

SumOf(q, weight) == Sums(q, weight)[Len(q)]

\* Octets of data on the streams of S; credit granted to stream s.
LengthOn(S) ==
  [m \in ClientFrames |-> IF m.type = "DATA" /\ m.stream \in S THEN m.length ELSE 0]
IncrementOn(s) ==
  [m \in PeerFrames |-> IF m.type = "WINDOW_UPDATE" /\ m.stream = s THEN m.increment ELSE 0]

FlowTypeOK ==
  /\ TypeOK
  /\ peer \in PeerState
  /\ body \in [StreamIds -> 0..MaxBody]
  /\ toPeer \in Seq(ClientFrames) /\ toClient \in Seq(PeerFrames)

\* The initial window the client may be using when its next frame was written: the
\* acknowledged one, or the next one, whose handler drains before it acknowledges.
UsableInitial ==
  {peer.initial} \cup
  (IF peer.unacknowledged = <<>> THEN {}
   ELSE {Setting(Head(peer.unacknowledged), "initialWindowSize", peer.initial)})

\* RFC 7540 6.9, quoted at stream.ts:10-14: no DATA frame that reaches the peer exceeds
\* the credit the peer itself accounts for, on the connection and on the stream,
\* whatever WINDOW_UPDATEs, SETTINGS and data crossed on the way.
NoOverrun ==
  LET m == Head(toPeer) IN
  toPeer # <<>> /\ m.type = "DATA" =>
    /\ m.length <= peer.connection
    /\ \E w \in UsableInitial : m.length <= w + peer.offset[m.stream]

\* A DATA frame is never empty and never longer than the MAX_FRAME_SIZE in force
\* for the peer when it arrives, even one cut while a new MAX_FRAME_SIZE was read.
FramesFit ==
  LET m == Head(toPeer) IN
  toPeer # <<>> /\ m.type = "DATA" => m.length \in 1..peer.frameSize

\* The two ends never drift apart: what the client has left to spend, plus what is
\* on its way in either direction, is what the peer believes is left.  Lost or
\* doubly counted credit shows here long before a transfer stalls.
WindowsAgree ==
  /\ connectionSendWindow + SumOf(toPeer, LengthOn(StreamIds)) + SumOf(toClient, IncrementOn(0))
       = peer.connection
  /\ \A s \in DOMAIN streams :
       streams[s].localWindow - remoteInitialWindowSize
         + SumOf(toPeer, LengthOn({s})) + SumOf(toClient, IncrementOn(s)) = peer.offset[s]

\* END_STREAM means the whole body: when the peer has seen it, every octet of the
\* request has arrived and none is in flight.
EndMeansWholeBody ==
  \A s \in peer.finished :
    /\ peer.received[s] = body[s]
    /\ \A i \in DOMAIN toPeer : ~(toPeer[i].type = "DATA" /\ toPeer[i].stream = s)

-----------------------------------------------------------------------------
\* The abstract promise: each body arrives whole, or its stream is closed.
Transfer == INSTANCE BodyTransfer WITH
  Ids <- StreamIds,
  arrived <- peer.received,
  closed <- {s \in StreamIds : s < nextStreamId} \ DOMAIN streams,
  whole <- peer.finished

\* Flow control implements it: nothing is lost, duplicated or added on the way,
\* and (liveness) a body whose stream stays open is delivered, however often the
\* peer shrinks, closes and reopens its windows.
ImplementsBodyTransfer == Transfer!Spec
=============================================================================
