------------------------------ MODULE Outbound ------------------------------
(***************************************************************************)
(* What the client writes before any body: the preface of connectHttp2 and *)
(* the HEADERS of request() (src/connection.ts), down to the octets, and   *)
(* what a peer reads in them.  How both look is the caller's choice, to    *)
(* pass for some browser: the order of SETTINGS, a GREASE entry, the order *)
(* of pseudo-headers and headers, the HPACK encoding.                      *)
(***************************************************************************)
EXTENDS Frames, Hpack

CONSTANTS
  Connections,   \* the options that a connection may be made with
  HttpRequests   \* requests, each with the options of its connection

VARIABLE sent    \* the last thing written, until the peer has read it

Nothing == [kind |-> "nothing"]

OutboundInit == sent = Nothing

-----------------------------------------------------------------------------
\* Insertion into a JavaScript Map: a name keeps its place and takes the new value.
MapSet(map, field) ==
  IF \E i \in DOMAIN map : map[i][1] = field[1]
    THEN [i \in DOMAIN map |-> IF map[i][1] = field[1] THEN field ELSE map[i]]
    ELSE Append(map, field)

\* A Map made by loops, of whose turns each sets the one field in a set, or nothing.
MapSetAll(turns) ==
  LET map[i \in 0..Len(turns)] ==
        IF i = 0 THEN <<>>
        ELSE IF turns[i] = {} THEN map[i - 1]
        ELSE MapSet(map[i - 1], CHOOSE f \in turns[i] : TRUE)
  IN map[Len(turns)]

\* The loops: over the names of an explicit order, over the fields that it does not name,
\* over all fields.  A name is the name of one field.
Named(order, fields) == [i \in DOMAIN order |-> {f \in ToSet(fields) : f[1] = order[i]}]
Unnamed(order, fields) ==
  [i \in DOMAIN fields |-> {f \in {fields[i]} : f[1] \notin ToSet(order)}]
Each(fields) == [i \in DOMAIN fields |-> {fields[i]}]

SetTurns(order, fields) ==
  IF order = Absent THEN Each(fields) ELSE Named(order, fields) \o Unnamed(order, fields)

\* BuildRequestHeaders that drops the headers an explicit order does not name.
BuildRequestHeadersListed(req) ==
  MapSetAll(SetTurns(req.pseudoHeaderOrder, req.pseudo) \o
            IF req.headerOrder = Absent THEN Each(req.headers)
            ELSE Named(req.headerOrder, req.headers))

\* buildRequestHeaders.  req.pseudo is :method, :scheme, :authority and :path with the
\* values of the request, in this order; req.headers its headers as they were inserted.
BuildRequestHeaders(req) ==
  MapSetAll(SetTurns(req.pseudoHeaderOrder, req.pseudo) \o SetTurns(req.headerOrder, req.headers))

\* sendHeaders: END_HEADERS always, END_STREAM when there is no body.
RequestFrame(req, block) ==
  [type |-> "HEADERS", flags |-> IF req.hasBody THEN 4 ELSE 5, streamId |-> 1, payload |-> block]

-----------------------------------------------------------------------------
\* connectHttp2 writes the preface; CLIENT_PREFACE, a constant string, goes before it.
Connect(options, nibble) ==
  /\ sent = Nothing
  /\ sent' = [kind |-> "preface", options |-> options, octets |-> PrefaceOctets(options, nibble)]

\* request() writes HEADERS, or throws because a field cannot be encoded.
SendRequest(req) ==
  /\ sent = Nothing
  /\ LET block == EncodeHeaders(BuildRequestHeaders(req), req)
     IN sent' = IF block.ok
                  THEN [kind |-> "request", request |-> req,
                        octets |-> SerializeFrame(RequestFrame(req, block.octets), 0)]
                  ELSE [kind |-> "refused", request |-> req]

\* Bound on the exploration: the peer reads one thing before the next is written.
PeerReads == sent # Nothing /\ sent' = Nothing

OutboundNext ==
  \/ \E options \in Connections, nibble \in GreaseNibbles : Connect(options, nibble)
  \/ \E req \in HttpRequests : SendRequest(req)
  \/ PeerReads

OutboundSpec == OutboundInit /\ [][OutboundNext]_sent

-----------------------------------------------------------------------------
\* The frames in a string of octets: their own octets, in order.
FramesIn(octets) ==
  LET cut[n \in 0..Len(octets)] ==
        IF n = 0 THEN [frames |-> <<>>, left |-> octets]
        ELSE LET before == cut[n - 1]
                 rest == before.left
             IN IF rest = <<>> THEN before
                ELSE [frames |-> Append(before.frames, SubSeq(rest, 1, FrameLength(rest))),
                      left |-> SubSeq(rest, FrameLength(rest) + 1, Len(rest))]
  IN cut[Len(octets)].frames

\* The position of x in an order, or one past all of them.
Rank(order, x) ==
  IF order # Absent /\ x \in ToSet(order)
    THEN CHOOSE i \in DOMAIN order : order[i] = x /\ \A j \in 1..(i - 1) : order[j] # x
    ELSE IF order = Absent THEN 1 ELSE Len(order) + 1

\* types.ts:92-105: the peer finds each setting once with its value, those of the explicit
\* order first and the others by id, after a GREASE entry when one was asked for; then the
\* WINDOW_UPDATE and the PRIORITY frames as they were asked for.
PrefaceUnderstood ==
  sent.kind = "preface" =>
    LET options == sent.options
        frames == FramesIn(sent.octets)
        entries == SettingsEntries(SubSeq(frames[1], FrameHeaderLength + 1, Len(frames[1])))
        plain == IF options.settingsGrease THEN Tail(entries) ELSE entries
        rank(e) == Rank(options.settingsOrder, e[1])
        asked == WindowUpdateFrames(options) \o PriorityFrames(options)
    IN /\ options.settingsGrease =>
            entries[1][1] % 256 = entries[1][1] \div 256 /\ entries[1][1] % 16 = 10
       /\ SettingsOf(plain) = options.initialSettings
       /\ \A i, j \in DOMAIN plain : i < j =>
            \/ rank(plain[i]) < rank(plain[j])
            \/ rank(plain[i]) = rank(plain[j]) /\ plain[i][1] < plain[j][1]
       /\ Tail([i \in DOMAIN frames |-> ParseFrame(frames[i])]) = asked

\* connection.ts:266-273: the peer decodes the request's own pseudo-headers and headers,
\* each once and with its value, pseudo-headers first, in the explicit orders and after
\* them in their own order; nothing about the encoding shows, whatever its options.
RequestUnderstood ==
  sent.kind = "request" =>
    LET req == sent.request
        frame == ParseFrame(sent.octets)
        decoded == Decode(frame.payload)
        given == req.pseudo \o req.headers
        lower == [i \in DOMAIN given |-> <<NormalizeName(given[i][1]), given[i][2]>>]
        place(f) == CHOOSE i \in DOMAIN lower : lower[i] = f
        pseudo(f) == place(f) <= Len(req.pseudo)
        rank(f) == IF pseudo(f) THEN Rank(req.pseudoHeaderOrder, f[1])
                   ELSE Rank(req.headerOrder, given[place(f)][1])
    IN /\ frame.type = "HEADERS" /\ frame.endHeaders /\ (frame.endStream <=> ~req.hasBody)
       /\ decoded.ok
       /\ Len(decoded.fields) = Len(given) /\ ToSet(decoded.fields) = ToSet(lower)
       /\ \A i, j \in DOMAIN decoded.fields : i < j =>
            LET f == decoded.fields[i] g == decoded.fields[j]
            IN \/ pseudo(f) /\ ~pseudo(g)
               \/ /\ pseudo(f) <=> pseudo(g)
                  /\ \/ rank(f) < rank(g)
                     \/ rank(f) = rank(g) /\ place(f) < place(g)
=============================================================================
