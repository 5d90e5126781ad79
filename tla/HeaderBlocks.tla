---------------------------- MODULE HeaderBlocks ----------------------------
(***************************************************************************)
(* The header blocks that a peer sends and decodeHeaders reads, field by   *)
(* field.  The peer is external: an HPACK encoder as RFC 7541 has it, with *)
(* a dynamic table that lasts as long as the connection.                   *)
(***************************************************************************)
EXTENDS Hpack

CONSTANTS
  StaticIndices,   \* the entries of the static table that the peer uses
  Literals,        \* [kind, name or index, value, useHuffman] of the literals it sends
  TableSizes,      \* the sizes it may announce for its table
  AcrossBlocks,    \* it refers to entries that an earlier block has added
  MaxFields,       \* bound: fields in a block
  MaxBlocks        \* bound: blocks

VARIABLES
  peerTable,       \* the peer's dynamic table
  fresh,           \* how many of its entries, the first ones, this block has added
  block,           \* the octets of the block so far
  fields,          \* the fields that they mean
  blocks           \* how many blocks are complete

blockVars == <<peerTable, fresh, block, fields, blocks>>

BlocksInit ==
  /\ peerTable = NewTable /\ fresh = 0
  /\ block = <<>> /\ fields = <<>>
  /\ blocks = 0

\* RFC 7541, Appendix A: entries 8 to 14 are :status.
PeerStaticTable ==
  [i \in 1..StaticTableLength |->
     IF i \in 8..14 THEN <<":status", StaticTable[i][2]>> ELSE StaticTable[i]]

PeerEntry(index) == (PeerStaticTable \o peerTable.entries)[index]

\* The indices the peer may use now.
Usable ==
  StaticIndices \cup
    {StaticTableLength + i : i \in 1..(IF AcrossBlocks THEN Len(peerTable.entries) ELSE fresh)}

\* RFC 7541, 4.3 and 4.4: the entries that fit stay, from the most recent one on; so an
\* entry larger than the table empties it and is not added.
Fitting(entries, size) ==
  LET fit == {n \in 0..Len(entries) : Size(SubSeq(entries, 1, n)) <= size}
  IN SubSeq(entries, 1, CHOOSE n \in fit : \A m \in fit : m <= n)

PeerAdd(e) == [peerTable EXCEPT !.entries = Fitting(<<e>> \o @, peerTable.maxSize)]
PeerResize(size) == [entries |-> Fitting(peerTable.entries, size), maxSize |-> size]

Lesser(a, b) == IF a <= b THEN a ELSE b
MayGoOn == blocks < MaxBlocks /\ Len(fields) < MaxFields

PeerIndexed(index) ==
  /\ MayGoOn
  /\ block' = block \o EmitIndexed(index)
  /\ fields' = Append(fields, PeerEntry(index))
  /\ UNCHANGED <<peerTable, fresh, blocks>>

PeerLiteral(literal, nameIndex) ==
  LET name == IF nameIndex = 0 THEN literal.name ELSE PeerEntry(nameIndex)[1]
      field == <<name, literal.value>>
  IN /\ MayGoOn
     /\ block' = block \o EmitLiteral(literal.kind, nameIndex, name, literal.value,
                                      literal.useHuffman)
     /\ fields' = Append(fields, field)
     /\ IF literal.kind = "incremental"
        THEN /\ peerTable' = PeerAdd(field)
             /\ fresh' = Lesser(fresh + 1, Len(peerTable'.entries))
        ELSE UNCHANGED <<peerTable, fresh>>
     /\ UNCHANGED blocks

\* At the beginning of a block the peer may change the size of its table.
PeerSizeUpdate(size) ==
  /\ MayGoOn /\ block = <<>>
  /\ block' = EncodeSizeUpdate(size)
  /\ peerTable' = PeerResize(size)
  /\ UNCHANGED <<fresh, fields, blocks>>

EndBlock ==
  /\ fields # <<>>
  /\ block' = <<>> /\ fields' = <<>> /\ fresh' = 0
  /\ blocks' = blocks + 1
  /\ UNCHANGED peerTable

BlocksNext ==
  \/ \E index \in Usable : PeerIndexed(index)
  \/ \E literal \in Literals, index \in {0} \cup Usable : PeerLiteral(literal, index)
  \/ \E size \in TableSizes : PeerSizeUpdate(size)
  \/ EndBlock

BlocksSpec == BlocksInit /\ [][BlocksNext]_blockVars

-----------------------------------------------------------------------------
\* decoder.ts:4-7: what decodeHeaders reads in a block, at every field of it, is what the
\* peer wrote: the same names, with the last value of each.
HeadersUnderstood ==
  LET read == DecodeHeaders(block) IN read.ok /\ read.headers = MapOf(fields)

\* Every index that the peer may use means the same to the client, whatever was added,
\* evicted, resized or too large for the table since the block began.
IndicesAgree ==
  LET read == Decode(block)
  IN read.ok => \A index \in Usable :
       ResolveIndex(index, read.table) = [ok |-> TRUE, entry |-> PeerEntry(index)]
=============================================================================
