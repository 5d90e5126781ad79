-------------------------------- MODULE Hpack --------------------------------
(***************************************************************************)
(* HPACK as src/hpack has it: the static table, the dynamic table of a     *)
(* decoder, HpackEncoder and HpackDecoder, encodeHeaders and               *)
(* decodeHeaders.  A header field is <<name, value>>.                      *)
(***************************************************************************)
EXTENDS HpackStrings

CONSTANT TableSizeLimit   \* DEFAULT_TABLE_SIZE_LIMIT and HPACK_DEFAULT_TABLE_SIZE, 4096

\* STATIC_TABLE, as the source has it.
StaticTable == <<
  <<":authority", "">>, <<":method", "GET">>, <<":method", "POST">>, <<":path", "/">>,
  <<":path", "/index.html">>, <<":scheme", "http">>, <<":scheme", "https">>,
  <<"status", "200">>, <<"status", "204">>, <<"status", "206">>, <<"status", "304">>,
  <<"status", "400">>, <<"status", "404">>, <<"status", "500">>, <<"accept-charset", "">>,
  <<"accept-encoding", "gzip, deflate">>, <<"accept-language", "">>, <<"accept-ranges", "">>,
  <<"accept", "">>, <<"access-control-allow-origin", "">>, <<"age", "">>, <<"allow", "">>,
  <<"authorization", "">>, <<"cache-control", "">>, <<"content-disposition", "">>,
  <<"content-encoding", "">>, <<"content-language", "">>, <<"content-length", "">>,
  <<"content-location", "">>, <<"content-range", "">>, <<"content-type", "">>,
  <<"cookie", "">>, <<"date", "">>, <<"etag", "">>, <<"expect", "">>, <<"expires", "">>,
  <<"from", "">>, <<"host", "">>, <<"if-match", "">>, <<"if-modified-since", "">>,
  <<"if-none-match", "">>, <<"if-range", "">>, <<"if-unmodified-since", "">>,
  <<"last-modified", "">>, <<"link", "">>, <<"location", "">>, <<"max-forwards", "">>,
  <<"proxy-authenticate", "">>, <<"proxy-authorization", "">>, <<"range", "">>,
  <<"referer", "">>, <<"refresh", "">>, <<"retry-after", "">>, <<"server", "">>,
  <<"set-cookie", "">>, <<"strict-transport-security", "">>, <<"transfer-encoding", "">>,
  <<"user-agent", "">>, <<"vary", "">>, <<"via", "">>, <<"www-authenticate", "">>>>

StaticTableLength == Len(StaticTable)

ASSUME TableSizeAssumption == TableSizeLimit \in Nat /\ StaticTable \in Seq(Texts \X Texts)

EntrySize(e) == Len(CodesOf(e[1])) + Len(CodesOf(e[2])) + 32
Size(entries) ==
  LET upTo[i \in 0..Len(entries)] == IF i = 0 THEN 0 ELSE upTo[i - 1] + EntrySize(entries[i])
  IN upTo[Len(entries)]

-----------------------------------------------------------------------------
\* A DynamicTable is its entries, the most recent first, and its maxSize.
NewTable == [entries |-> <<>>, maxSize |-> TableSizeLimit]

\* evictToFit: the oldest go, one after another, until the others fit.
EvictToFit(entries, budget) ==
  LET First(n) == SubSeq(entries, 1, n)
      kept == CHOOSE n \in 0..Len(entries) :
                /\ n > 0 => Size(First(n)) <= budget
                /\ \A m \in (n + 1)..Len(entries) : Size(First(m)) > budget
  IN First(kept)

\* add evicting from the wrong end.
AddLifo(table, e) ==
  [table EXCEPT !.entries = IF Size(<<e>> \o @) > table.maxSize THEN <<e>> \o SubSeq(@, 2, Len(@))
                            ELSE <<e>> \o @]

\* add.  An entry larger than the table stays, alone.
Add(table, e) ==
  LET budget == IF table.maxSize >= EntrySize(e) THEN table.maxSize ELSE EntrySize(e)
  IN [table EXCEPT !.entries = EvictToFit(<<e>> \o @, budget)]

SetLimit(table, newLimit) ==
  [entries |-> EvictToFit(table.entries, newLimit), maxSize |-> newLimit]

\* resolveIndex: one index space, the static table first.
ResolveIndex(index, table) ==
  LET all == StaticTable \o table.entries
  IN IF index \in 1..Len(all) THEN [ok |-> TRUE, entry |-> all[index]] ELSE Thrown

-----------------------------------------------------------------------------
\* The literal representations: the flag of the first octet and the prefix of the index.
Kind == [incremental |-> [flag |-> 64, prefix |-> 6],
         no_indexing |-> [flag |-> 0, prefix |-> 4],
         never_indexed |-> [flag |-> 16, prefix |-> 4]]

EmitIndexed(index) == Flagged(EncodeInteger(index, 7), 128)
EncodeSizeUpdate(newLimit) == Flagged(EncodeInteger(newLimit, 5), 32)

\* emitLiteral...: the name itself follows the index 0.
EmitLiteral(kind, nameIndex, name, value, useHuffman) ==
  Flagged(EncodeInteger(nameIndex, Kind[kind].prefix), Kind[kind].flag)
    \o (IF nameIndex = 0 THEN EncodeString(name, useHuffman) ELSE <<>>)
    \o EncodeString(value, useHuffman)

\* The first index of the static table whose entry is in S, or 0.
FirstIn(S) == LET found == {i \in 1..StaticTableLength : StaticTable[i] \in S}
              IN IF found = {} THEN 0 ELSE CHOOSE i \in found : \A j \in found : i <= j

\* planHeader and emitHeader; encodeHeaders marks no field as sensitive.
EncodeField(field, options) ==
  LET name == NormalizeName(field[1])
      exact == FirstIn({<<name, field[2]>>})
      nameIndex == FirstIn({e \in ToSet(StaticTable) : e[1] = name})
  IN IF exact # 0 THEN EmitIndexed(exact)
     ELSE EmitLiteral(IF options.indexing THEN "incremental" ELSE "no_indexing",
                      nameIndex, name, field[2], options.useHuffman)

\* encodeHeaders, with an encoder of its own, so that every block begins with the size
\* update.  It throws on a character outside Latin-1.
EncodeHeaders(headers, options) ==
  IF \E i \in DOMAIN headers : ~IsLatin1(headers[i][1]) \/ ~IsLatin1(headers[i][2]) THEN Thrown
  ELSE [ok |-> TRUE,
        octets |->
          (IF options.maxTableSize # TableSizeLimit
             THEN EncodeSizeUpdate(options.maxTableSize) ELSE <<>>)
          \o FlattenSeq([i \in 1..Len(headers) |-> EncodeField(headers[i], options)])]

-----------------------------------------------------------------------------
\* decodeLiteral, of the given kind: the field and the offset past it.
DecodeLiteral(buf, offset, kind, table) ==
  Then(DecodeInteger(buf, offset, Kind[kind].prefix), LAMBDA index :
    Then(IF index.value = 0 THEN DecodeString(buf, index.next)
         ELSE Then(ResolveIndex(index.value, table), LAMBDA resolved :
                [ok |-> TRUE, value |-> resolved.entry[1], next |-> index.next]),
         LAMBDA name :
      Then(DecodeString(buf, name.next), LAMBDA value :
        [ok |-> TRUE, field |-> <<name.value, value.value>>, next |-> value.next])))

\* The kind of literal that its first octet shows.
KindOf(octet) == CASE octet >= 64 -> "incremental"
                   [] octet \in 16..31 -> "never_indexed"
                   [] OTHER -> "no_indexing"

\* One turn of the loop of HpackDecoder.decode: s has the offset of what is next, the
\* table and the fields so far.
DecodeOne(buf, s) ==
  IF ~s.ok \/ s.next > Len(buf) THEN s
  ELSE IF buf[s.next] >= 128
    THEN Then(DecodeInteger(buf, s.next, 7), LAMBDA index :
           Then(ResolveIndex(index.value, s.table), LAMBDA resolved :
             [ok |-> TRUE, next |-> index.next, fields |-> Append(s.fields, resolved.entry),
              table |-> s.table]))
  ELSE IF buf[s.next] \in 32..63
    THEN Then(DecodeInteger(buf, s.next, 5), LAMBDA limit :
           [ok |-> TRUE, next |-> limit.next, fields |-> s.fields,
            table |-> SetLimit(s.table, limit.value)])
  ELSE LET kind == KindOf(buf[s.next])
       IN Then(DecodeLiteral(buf, s.next, kind, s.table), LAMBDA literal :
            [ok |-> TRUE, next |-> literal.next, fields |-> Append(s.fields, literal.field),
             table |-> IF kind = "incremental" THEN Add(s.table, literal.field) ELSE s.table])

\* A turn reads an octet at least, so that there are no more turns than octets.
Decode(buf) ==
  LET state[k \in 0..Len(buf)] ==
        IF k = 0 THEN [ok |-> TRUE, next |-> 1, table |-> NewTable, fields |-> <<>>]
        ELSE DecodeOne(buf, state[k - 1])
  IN state[Len(buf)]

\* A JavaScript Map filled with fields in order: the last value of a name stays.
MapOf(fields) == FoldLeft(LAMBDA m, f : (f[1] :> f[2]) @@ m, << >>, fields)

\* decodeHeaders: a decoder of its own for every block, and a Map of its fields.
DecodeHeaders(buf) ==
  Then(Decode(buf), LAMBDA decoded : [ok |-> TRUE, headers |-> MapOf(decoded.fields)])
=============================================================================
