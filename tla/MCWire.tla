------------------------------- MODULE MCWire -------------------------------
(* Wire on a small instance: see the cfg files for the other constants. *)
EXTENDS Wire

-----------------------------------------------------------------------------
\* FrameReader: a frame of nine octets, two longer ones, and one cut short.
Short == [type |-> "PING", flags |-> 0, streamId |-> 0]
MCOctets(frame) ==
  IF frame = Short THEN HeaderOctets(3, 6, 0, 0) \o <<7, 7, 7>> ELSE PeerOctets(frame)

MCFrames ==
  {Short,
   [type |-> "DATA", flags |-> 1, streamId |-> 1, payload |-> <<>>],
   [type |-> "SETTINGS", flags |-> 0, streamId |-> 0, ack |-> FALSE, settings |-> 4 :> 70000],
   [type |-> "PUSH_PROMISE", flags |-> 12, streamId |-> 257, endHeaders |-> TRUE, padded |-> TRUE,
    promisedStreamId |-> 2, payload |-> <<130>>]}

\* A frame of every other type survives the codec as well.
OtherFrames ==
  {[type |-> "HEADERS", flags |-> 5, streamId |-> 1, endHeaders |-> TRUE, endStream |-> TRUE,
    padded |-> FALSE, payload |-> <<136>>],
   [type |-> "PRIORITY", flags |-> 0, streamId |-> 3, exclusive |-> TRUE,
    streamDependency |-> 2 ^ 30 + 5, weight |-> 255],
   [type |-> "RST_STREAM", flags |-> 0, streamId |-> 3, errorCode |-> 8],
   [type |-> "SETTINGS", flags |-> 0, streamId |-> 0, ack |-> FALSE,
    settings |-> 1 :> 0 @@ 3 :> 100 @@ 65535 :> 2 ^ 30],
   [type |-> "PING", flags |-> 1, streamId |-> 0, ack |-> TRUE,
    opaqueData |-> [hi |-> 1, lo |-> 2 ^ 30 + 3]],
   [type |-> "GOAWAY", flags |-> 0, streamId |-> 0, lastStreamId |-> 2 ^ 30 + 1,
    errorCode |-> 2, debugData |-> <<255, 0>>],
   [type |-> "WINDOW_UPDATE", flags |-> 0, streamId |-> 0, windowSizeIncrement |-> 65536],
   [type |-> "CONTINUATION", flags |-> 4, streamId |-> 1, endHeaders |-> TRUE, payload |-> <<0>>]}

ASSUME CodecRoundTrip == \A f \in OtherFrames : ParseFrame(PeerOctets(f)) = f

-----------------------------------------------------------------------------
\* The strings and their code points: ~ is U+00FC, of 27 bits in the Huffman code, and ^
\* is U+20AC, not in Latin-1.  A code that no character here has is written "?".
Letters == "abcdefghijklmnopqrstuvwxyz"
Digits == "0123456789"
CodePoint ==
  [c \in {SubSeq(Letters, i, i) : i \in 1..26} |->
     96 + CHOOSE i \in 1..26 : SubSeq(Letters, i, i) = c]
  @@ [c \in {SubSeq(Digits, i, i) : i \in 1..10} |->
        47 + CHOOSE i \in 1..10 : SubSeq(Digits, i, i) = c]
  @@ "E" :> 69 @@ "G" :> 71 @@ "O" :> 79 @@ "P" :> 80 @@ "S" :> 83 @@ "T" :> 84 @@ "X" :> 88
  @@ " " :> 32 @@ "," :> 44 @@ "-" :> 45 @@ "." :> 46 @@ "/" :> 47 @@ ":" :> 58
  @@ "~" :> 252 @@ "^" :> 8364

Char ==
  [code \in 0..255 |->
     IF \E c \in DOMAIN CodePoint : CodePoint[c] = code
       THEN CHOOSE c \in DOMAIN CodePoint : CodePoint[c] = code ELSE "?"]

MCCodesOf(text) == [i \in 1..Len(text) |-> CodePoint[SubSeq(text, i, i)]]
MCTextOf(codes) ==
  LET upTo[i \in 0..Len(codes)] ==
        IF i = 0 THEN "" ELSE upTo[i - 1] \o IF codes[i] <= 255 THEN Char[codes[i]] ELSE "^"
  IN upTo[Len(codes)]

RECURSIVE Repeated(_, _)
Repeated(text, n) ==
  IF n = 0 THEN "" ELSE Repeated(text \o text, n \div 2) \o (IF n % 2 = 1 THEN text ELSE "")

Settings == 1 :> 65536 @@ 3 :> 1000 @@ 4 :> 0
MCConnections ==
  [initialSettings : {Settings, << >>}, settingsOrder : {Absent, <<4, 1>>, <<2, 3>>, <<>>},
   settingsGrease : BOOLEAN, connectionWindowUpdate : {Absent, 983041},
   priorityFrames : {<<>>, <<[streamId |-> 3, exclusive |-> FALSE, streamDependency |-> 0,
                              weight |-> 200],
                             [streamId |-> 5, exclusive |-> TRUE, streamDependency |-> 3,
                              weight |-> 0]>>}]

Pseudo ==
  <<<<":method", "GET">>, <<":scheme", "https">>, <<":authority", "a.b">>, <<":path", "/x-4">>>>

MCHeaders == <<<<"X-tee", "foo">>, <<"accept", "">>, <<"via", "X">>>>

RequestsWith(headers, orders) ==
  [pseudo : {Pseudo}, headers : headers, hasBody : BOOLEAN,
   pseudoHeaderOrder : {Absent, <<":path", ":none", ":method">>}, headerOrder : orders,
   indexing : BOOLEAN, useHuffman : BOOLEAN, maxTableSize : {TableSizeLimit, 31, 200}]

\* The lengths at which an integer no longer fits in seven bits; 31 and 200 do not fit in
\* the five bits of a table size.
MCRequests ==
  {r \in RequestsWith({MCHeaders}, {Absent, <<"via", "none", "X-tee">>}) :
     r.hasBody => r.maxTableSize = TableSizeLimit}
    \cup {r \in RequestsWith({<<<<"a", Repeated("X", n)>>>> : n \in {126, 127}}, {Absent}) :
            r.hasBody /\ r.pseudoHeaderOrder = Absent /\ ~r.indexing /\ ~r.useHuffman}
    \cup {r \in RequestsWith({<<<<"a", "^">>>>}, {Absent}) : r.hasBody}

\* "f~r" has a code of 27 bits after one of six.
MCUmlautRequests ==
  {r \in RequestsWith({<<<<"a", "f~r">>>>}, {Absent}) : r.hasBody}

Literal(kind, name, value, useHuffman) ==
  [kind |-> kind, name |-> name, value |-> value, useHuffman |-> useHuffman]

\* Two entries of 35, half the table, and one of 37; two that are not added.
MCLiterals ==
  {Literal("incremental", "x", "ab", TRUE), Literal("incremental", "via", "", FALSE),
   Literal("incremental", "x", "zzzz", TRUE), Literal("no_indexing", "x", "", TRUE),
   Literal("never_indexed", ":status", "404", FALSE)}

\* Every string above, and of the static table.
MCTexts ==
  {"x-tee"} \cup UNION {{f[1], f[2]} :
           f \in ToSet(StaticTable)
                  \cup UNION {ToSet(r.pseudo \o r.headers) : r \in MCRequests \cup MCUmlautRequests}
                  \cup {<<l.name, l.value>> : l \in MCLiterals}}
=============================================================================
