------------------------------- MODULE Frames -------------------------------
(***************************************************************************)
(* The frame codec, src/frame/frame.ts, and what connectHttp2 writes with  *)
(* it when a connection starts (src/connection.ts).  An octet is a number  *)
(* in 0..255; a frame is a record with the fields of its type in types.ts, *)
(* its type by name; a SETTINGS payload is a function from ids to values.  *)
(* A field that may be undefined is Absent when it is.  The numbers on the *)
(* wire are below 2^31 here, the integers the model checker has.           *)
(***************************************************************************)
EXTENDS Integers, Sequences, SequencesExt, TLC

CONSTANT Absent                           \* undefined
Malformed == [type |-> "malformed"]       \* a RangeError, or a FrameParseError

FrameHeaderLength == 9
FrameType ==
  [DATA |-> 0, HEADERS |-> 1, PRIORITY |-> 2, RST_STREAM |-> 3, SETTINGS |-> 4,
   PUSH_PROMISE |-> 5, PING |-> 6, GOAWAY |-> 7, WINDOW_UPDATE |-> 8, CONTINUATION |-> 9]

\* The DataView methods: n in w octets, most significant first, and back.
UInt(n, w) == [i \in 1..w |-> (n \div 256 ^ (w - i)) % 256]
Number(octets) ==
  LET upTo[i \in 0..Len(octets)] == IF i = 0 THEN 0 ELSE 256 * upTo[i - 1] + octets[i]
  IN upTo[Len(octets)]
Number31(octets) == Number(<<octets[1] % 128>> \o SubSeq(octets, 2, 4))
From(octets, i, w) == SubSeq(octets, i, i + w - 1)
Bit(octet, b) == (octet \div b) % 2 = 1

\* generateHttp2GreaseValue, for the random nibble n.
GreaseValue(n) == 257 * (16 * n + 10)

\* What may be drawn for the GREASE entry; the code draws a nibble of 0..15.
GreaseNibbles == {0, 15}

\* The entries (key and value) of a JavaScript object whose keys are integers.
ObjectEntries(settings) ==
  LET ids == SetToSortSeq(DOMAIN settings, <)
  IN [i \in 1..Len(ids) |-> <<ids[i], settings[ids[i]]>>]

Listed(frame) ==
  LET present == SelectSeq(frame.settingsOrder, LAMBDA id : id \in DOMAIN frame.settings)
  IN [i \in 1..Len(present) |-> <<present[i], frame.settings[present[i]]>>]

\* collectSettingsEntries that stops after the settings in the explicit order.
CollectSettingsEntriesListed(frame, nibble) ==
  (IF frame.grease THEN <<<<GreaseValue(nibble), 0>>>> ELSE <<>>) \o
  (IF frame.settingsOrder = Absent THEN ObjectEntries(frame.settings) ELSE Listed(frame))

\* collectSettingsEntries: GREASE, then the explicit order, then the rest in key order.
CollectSettingsEntries(frame, nibble) ==
  (IF frame.grease THEN <<<<GreaseValue(nibble), 0>>>> ELSE <<>>) \o
  (IF frame.settingsOrder = Absent
     THEN ObjectEntries(frame.settings)
     ELSE Listed(frame) \o
          SelectSeq(ObjectEntries(frame.settings),
                    LAMBDA e : e[1] \notin ToSet(frame.settingsOrder)))

EntryOctets(entry) == UInt(entry[1], 2) \o UInt(entry[2], 4)

SerializePayload(frame, nibble) ==
  CASE frame.type \in {"DATA", "HEADERS", "PUSH_PROMISE", "CONTINUATION"} -> frame.payload
    [] frame.type = "PRIORITY" ->
         UInt((IF frame.exclusive THEN 128 ELSE 0) + frame.streamDependency \div 2 ^ 24, 1)
           \o UInt(frame.streamDependency, 3) \o UInt(frame.weight % 256, 1)
    [] frame.type = "RST_STREAM" -> UInt(frame.errorCode, 4)
    [] frame.type = "SETTINGS" ->
         IF frame.ack THEN <<>>
         ELSE LET entries == CollectSettingsEntries(frame, nibble)
              IN FlattenSeq([i \in 1..Len(entries) |-> EntryOctets(entries[i])])
    [] frame.type = "PING" -> UInt(frame.opaqueData.hi, 4) \o UInt(frame.opaqueData.lo, 4)
    [] frame.type = "GOAWAY" ->
         UInt(frame.lastStreamId, 4) \o UInt(frame.errorCode, 4) \o frame.debugData
    [] frame.type = "WINDOW_UPDATE" -> UInt(frame.windowSizeIncrement, 4)

HeaderOctets(length, type, flags, streamId) ==
  UInt(length, 3) \o UInt(type, 1) \o UInt(flags, 1) \o UInt(streamId, 4)

SerializeFrame(frame, nibble) ==
  LET payload == SerializePayload(frame, nibble)
  IN HeaderOctets(Len(payload), FrameType[frame.type], frame.flags, frame.streamId) \o payload

-----------------------------------------------------------------------------
\* parseFrameHeader, and the number of octets of the frame it begins.
ParseFrameHeader(octets) ==
  [length |-> Number(From(octets, 1, 3)), type |-> octets[4], flags |-> octets[5],
   streamId |-> Number31(From(octets, 6, 4))]

FrameLength(octets) == FrameHeaderLength + ParseFrameHeader(octets).length

\* The DataView reads throw a RangeError on a payload shorter than this.
ShortestPayload ==
  [t \in DOMAIN FrameType |->
     CASE t \in {"PRIORITY", "RST_STREAM", "PUSH_PROMISE", "WINDOW_UPDATE"} -> 4
       [] t \in {"PING", "GOAWAY"} -> 8
       [] OTHER -> 0]

\* The entries of a SETTINGS payload, without what is left of an incomplete one.
SettingsEntries(payload) ==
  [i \in 1..(Len(payload) \div 6) |->
     <<Number(From(payload, 6 * i - 5, 2)), Number(From(payload, 6 * i - 3, 4))>>]

\* An id that occurs twice has the later value.
SettingsOf(entries) ==
  FoldLeft(LAMBDA f, e : (e[1] :> e[2]) @@ f, << >>, entries)

\* validateFrameType: an unknown type is taken for DATA.
TypeOf(code) ==
  IF \E t \in DOMAIN FrameType : FrameType[t] = code
    THEN CHOOSE t \in DOMAIN FrameType : FrameType[t] = code ELSE "DATA"

\* A record with the fields of another added to it, as @@ has it.
WithFields(frame, more) ==
  [x \in DOMAIN frame \cup DOMAIN more |-> IF x \in DOMAIN frame THEN frame[x] ELSE more[x]]

\* The fields that decodeFrame adds to type, flags and streamId.
Fields(type, flags, payload) ==
  CASE type = "DATA" -> [payload |-> payload]
    [] type = "HEADERS" ->
         [endHeaders |-> Bit(flags, 4), endStream |-> Bit(flags, 1), padded |-> Bit(flags, 8),
          payload |-> payload]
    [] type = "PRIORITY" ->
         [exclusive |-> Bit(payload[1], 128), streamDependency |-> Number31(From(payload, 1, 4)),
          weight |-> IF Len(payload) > 4 THEN payload[5] ELSE 0]
    [] type = "RST_STREAM" -> [errorCode |-> Number(From(payload, 1, 4))]
    [] type = "SETTINGS" ->
         [ack |-> Bit(flags, 1), settings |-> SettingsOf(SettingsEntries(payload))]
    [] type = "PUSH_PROMISE" ->
         [endHeaders |-> Bit(flags, 4), padded |-> Bit(flags, 8),
          promisedStreamId |-> Number31(From(payload, 1, 4)),
          payload |-> SubSeq(payload, 5, Len(payload))]
    [] type = "PING" ->
         [ack |-> Bit(flags, 1),
          opaqueData |-> [hi |-> Number(From(payload, 1, 4)), lo |-> Number(From(payload, 5, 4))]]
    [] type = "GOAWAY" ->
         [lastStreamId |-> Number31(From(payload, 1, 4)), errorCode |-> Number(From(payload, 5, 4)),
          debugData |-> SubSeq(payload, 9, Len(payload))]
    [] type = "WINDOW_UPDATE" -> [windowSizeIncrement |-> Number31(From(payload, 1, 4))]
    [] type = "CONTINUATION" -> [endHeaders |-> Bit(flags, 4), payload |-> payload]

\* decodeFrame.  SETTINGS, PING and GOAWAY are about the connection, whatever their id.
DecodeFrame(header, payload) ==
  LET type == TypeOf(header.type) IN
  IF Len(payload) < ShortestPayload[type] THEN Malformed
  ELSE WithFields(
         [type |-> type, flags |-> header.flags,
          streamId |-> IF type \in {"SETTINGS", "PING", "GOAWAY"} THEN 0 ELSE header.streamId],
         Fields(type, header.flags, payload))

\* parseFrame.
ParseFrame(octets) ==
  IF Len(octets) < FrameHeaderLength \/ Len(octets) < FrameLength(octets) THEN Malformed
  ELSE DecodeFrame(ParseFrameHeader(octets),
                   SubSeq(octets, FrameHeaderLength + 1, FrameLength(octets)))

-----------------------------------------------------------------------------
\* The SETTINGS frame of the options of a connection.
SettingsFrame(options) ==
  [type |-> "SETTINGS", flags |-> 0, streamId |-> 0, ack |-> FALSE,
   settings |-> options.initialSettings, settingsOrder |-> options.settingsOrder,
   grease |-> options.settingsGrease]

WindowUpdateFrames(options) ==
  IF options.connectionWindowUpdate = Absent THEN <<>>
  ELSE <<[type |-> "WINDOW_UPDATE", flags |-> 0, streamId |-> 0,
          windowSizeIncrement |-> options.connectionWindowUpdate]>>

PriorityFrames(options) ==
  [i \in 1..Len(options.priorityFrames) |->
     [type |-> "PRIORITY", flags |-> 0] @@ options.priorityFrames[i]]

\* The frames that connectHttp2 writes after the connection preface, in order.
PrefaceFrames(options) ==
  <<SettingsFrame(options)>> \o WindowUpdateFrames(options) \o PriorityFrames(options)

PrefaceOctets(options, nibble) ==
  LET frames == PrefaceFrames(options)
  IN FlattenSeq([i \in 1..Len(frames) |-> SerializeFrame(frames[i], nibble)])

-----------------------------------------------------------------------------
\* What a peer writes for a frame: the serializer's octets, save that a promised
\* stream id goes before the header block (the client, which never pushes, omits it).
PeerOctets(frame) ==
  LET plain == frame @@ [settingsOrder |-> Absent, grease |-> FALSE] IN
  IF frame.type # "PUSH_PROMISE" THEN SerializeFrame(plain, 0)
  ELSE SerializeFrame([plain EXCEPT !.payload = UInt(frame.promisedStreamId, 4) \o @], 0)
=============================================================================
