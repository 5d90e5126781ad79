---------------------------- MODULE HpackStrings ----------------------------
(***************************************************************************)
(* The integers and strings of HPACK: src/hpack/integer.ts, string.ts and  *)
(* huffman-table.ts.  An offset counts from 1.  A string is a member of    *)
(* Texts, of which nothing is known but its code points.                   *)
(* What throws an HpackError yields Thrown; other results have ok = TRUE.  *)
(***************************************************************************)
EXTENDS Integers, Sequences, FiniteSets, SequencesExt, TLC

CONSTANTS
  Texts,        \* the strings that occur
  CodesOf(_),   \* the code points of a string, charCodeAt by charCodeAt
  TextOf(_)     \* String.fromCharCode of each of a sequence of codes

ASSUME TextAssumption ==
  \A t \in Texts : CodesOf(t) \in Seq(Nat) /\ TextOf(CodesOf(t)) = t

Thrown == [ok |-> FALSE]
Then(result, Step(_)) == IF result.ok THEN Step(result) ELSE Thrown

\* (1 << prefixBits) - 1.
MaxPrefix == <<1, 3, 7, 15, 31, 63, 127, 255>>

\* n in groups of 7 bits, the least significant first; all but the last have 128 set.
Continuation(n) ==
  LET remaining[i \in 0..n] == IF i = 0 THEN n ELSE remaining[i - 1] \div 128
      last == CHOOSE i \in 0..n : remaining[i] < 128 /\ \A j \in 0..(i - 1) : remaining[j] >= 128
  IN [i \in 1..(last + 1) |-> (remaining[i - 1] % 128) + (IF i <= last THEN 128 ELSE 0)]

\* encodeInteger: in the prefix, or the prefix full and the remainder after it, even when
\* it is zero.
EncodeInteger(value, prefixBits) ==
  LET most == MaxPrefix[prefixBits]
  IN IF value < most THEN <<value>> ELSE <<most>> \o Continuation(value - most)

\* The continuation octets of buf, from offset to the first below 128, weigh 1, 128,
\* 128 * 128 and so on; number[k] is what the last k of them are worth among themselves.
DecodeContinuation(buf, offset, most) ==
  LET ends == {i \in offset..Len(buf) : buf[i] < 128}
      last == CHOOSE i \in ends : \A j \in ends : i <= j
      number[k \in 0..(last - offset + 1)] ==
        IF k = 0 THEN 0 ELSE 128 * number[k - 1] + (buf[last + 1 - k] % 128)
  IN IF ends = {} THEN Thrown
     ELSE [ok |-> TRUE, value |-> most + number[last - offset + 1], next |-> last + 1]

\* DecodeInteger that takes a full prefix for the whole number.
DecodeIntegerInclusive(buf, offset, prefixBits) ==
  LET most == MaxPrefix[prefixBits]
      first == buf[offset] % (most + 1)
  IN IF offset > Len(buf) THEN Thrown
     ELSE IF first <= most THEN [ok |-> TRUE, value |-> first, next |-> offset + 1]
     ELSE DecodeContinuation(buf, offset + 1, most)

DecodeInteger(buf, offset, prefixBits) ==
  LET most == MaxPrefix[prefixBits]
      first == buf[offset] % (most + 1)
  IN IF offset > Len(buf) THEN Thrown
     ELSE IF first < most THEN [ok |-> TRUE, value |-> first, next |-> offset + 1]
     ELSE DecodeContinuation(buf, offset + 1, most)

-----------------------------------------------------------------------------
\* The "bits" column of HUFFMAN_TABLE, for the symbols 0 to 256 (end of string).
CodeLengths == <<
  13, 23, 28, 28, 28, 28, 28, 28, 28, 24, 30, 28, 28, 30, 28, 28, 28, 28, 28, 28, 28, 28, 30,
  28, 28, 28, 28, 28, 28, 28, 28, 28, 6, 10, 10, 12, 13, 6, 8, 11, 10, 10, 8, 11, 8, 6, 6, 6,
  5, 5, 5, 6, 6, 6, 6, 6, 6, 6, 7, 8, 15, 6, 12, 10, 13, 6, 7, 7, 7, 7, 7, 7, 7, 7, 7, 7, 7,
  7, 7, 7, 7, 7, 7, 7, 7, 7, 7, 7, 8, 7, 8, 13, 19, 13, 14, 6, 15, 5, 6, 5, 6, 5, 6, 6, 6, 5,
  7, 7, 6, 6, 6, 5, 6, 7, 6, 5, 5, 6, 7, 7, 7, 7, 7, 15, 11, 14, 13, 28, 20, 22, 20, 20, 22,
  22, 22, 23, 22, 23, 23, 23, 23, 23, 24, 23, 24, 24, 22, 23, 24, 23, 23, 23, 23, 21, 22, 23,
  22, 23, 23, 24, 22, 21, 20, 22, 22, 23, 23, 21, 23, 22, 22, 24, 21, 22, 23, 23, 21, 21, 22,
  21, 23, 22, 23, 23, 20, 22, 22, 22, 23, 22, 22, 23, 26, 26, 20, 19, 22, 23, 22, 25, 26, 26,
  26, 27, 27, 26, 24, 25, 19, 21, 26, 27, 27, 26, 27, 24, 21, 21, 26, 26, 28, 27, 27, 27, 20,
  24, 20, 21, 22, 21, 21, 23, 22, 22, 25, 25, 24, 24, 26, 23, 26, 27, 26, 26, 27, 27, 27, 27,
  27, 28, 27, 27, 27, 27, 27, 26, 30>>

Symbols == 0..256
Shorter(s) == {t \in Symbols : t < s /\ CodeLengths[t + 1] = CodeLengths[s + 1]}
FirstCode[w \in 4..30] ==
  IF w = 4 THEN 0
  ELSE 2 * (FirstCode[w - 1] + Cardinality({s \in Symbols : CodeLengths[s + 1] = w - 1}))

\* HUFFMAN_TABLE.  Its code is the canonical one for its lengths: those of one length
\* are consecutive, in the order of the symbols, and follow the shorter ones.
HuffmanTable ==
  [s \in Symbols |-> [bits |-> CodeLengths[s + 1],
                      code |-> FirstCode[CodeLengths[s + 1]] + Cardinality(Shorter(s))]]

\* Rows of the table as huffman-table.ts has them: the first, the last, some between.
ASSUME TableAssumption ==
  \A row \in {<<0, 8184, 13>>, <<1, 8388568, 23>>, <<10, 1073741820, 30>>, <<48, 0, 5>>,
              <<97, 3, 5>>, <<255, 67108846, 26>>, <<256, 1073741823, 30>>} :
    HuffmanTable[row[1]] = [code |-> row[2], bits |-> row[3]]

BitsOf(n, w) == [i \in 1..w |-> (n \div 2 ^ (w - i)) % 2]
CodeBits == [s \in Symbols |-> BitsOf(HuffmanTable[s].code, HuffmanTable[s].bits)]
SymbolOf == [c \in {CodeBits[s] : s \in Symbols} |-> CHOOSE s \in Symbols : CodeBits[s] = c]

\* What the codes must be for a text to be readable, as TLC computes that they are: each
\* is the code of one symbol and begins with no other code, and, save that of the end of
\* the string, it is not made of ones only, as padding is.
ASSUME CodeAssumption ==
  /\ \A s \in Symbols :
       /\ CodeBits[s] \in Seq({0, 1}) /\ Len(CodeBits[s]) \in 5..30
       /\ SymbolOf[CodeBits[s]] = s
       /\ \A w \in 5..(Len(CodeBits[s]) - 1) : SubSeq(CodeBits[s], 1, w) \notin DOMAIN SymbolOf
  /\ \A s \in 0..255 : \E i \in DOMAIN CodeBits[s] : CodeBits[s][i] = 0

OctetBits(octet) ==
  <<(octet \div 128) % 2, (octet \div 64) % 2, (octet \div 32) % 2, (octet \div 16) % 2,
    (octet \div 8) % 2, (octet \div 4) % 2, (octet \div 2) % 2, octet % 2>>
OctetOf(b) ==
  128 * b[1] + 64 * b[2] + 32 * b[3] + 16 * b[4] + 8 * b[5] + 4 * b[6] + 2 * b[7] + b[8]
WholeOctets(bits) == [i \in 1..(Len(bits) \div 8) |-> OctetOf(SubSeq(bits, 8 * i - 7, 8 * i))]
AllBits(octets) ==
  [i \in 1..(8 * Len(octets)) |-> OctetBits(octets[((i - 1) \div 8) + 1])[((i - 1) % 8) + 1]]
PaddedToOctet(bits) == bits \o [i \in 1..((8 - (Len(bits) % 8)) % 8) |-> 1]

\* The accumulator of huffmanEncode is a 32-bit integer: of more bits than that it keeps
\* the last 32, and >> puts copies of the sign bit in the place of the others.
Accumulated(bits) ==
  LET lost == Len(bits) - 32
  IN [i \in 1..Len(bits) |-> bits[IF i <= lost THEN lost + 1 ELSE i]]

\* One octet of the input: what is complete goes out, the rest stays in the accumulator.
Push(state, octet) ==
  LET bits == Accumulated(state.pending \o CodeBits[octet])
      whole == WholeOctets(bits)
  IN [out |-> state.out \o whole, pending |-> SubSeq(bits, 8 * Len(whole) + 1, Len(bits))]

HuffmanEncode(octets) ==
  LET state[i \in 0..Len(octets)] ==
        IF i = 0 THEN [out |-> <<>>, pending |-> <<>>] ELSE Push(state[i - 1], octets[i])
      end == state[Len(octets)]
  IN end.out \o WholeOctets(PaddedToOctet(end.pending))

\* One turn of huffmanDecode, with rest still to be matched, of which the first "loaded"
\* bits are in the buffer.  What is left when everything is loaded may be padding, of any
\* length.
MatchOne(s) ==
  LET short == IF s.loaded < 30 THEN (37 - s.loaded) \div 8 ELSE 0
      top == IF s.loaded + 8 * short > Len(s.rest) THEN Len(s.rest) ELSE s.loaded + 8 * short
      fits == {w \in 5..30 : w <= top /\ SubSeq(s.rest, 1, w) \in DOMAIN SymbolOf}
      w == CHOOSE w \in fits : TRUE
      left == SubSeq(s.rest, w + 1, Len(s.rest))
      decoded == Append(s.value, SymbolOf[SubSeq(s.rest, 1, w)])
  IN IF ~s.ok \/ s.rest = <<>> THEN s
     ELSE IF fits = {} THEN [s EXCEPT !.ok = FALSE]
     ELSE [ok |-> TRUE, value |-> decoded, loaded |-> top - w,
           rest |-> IF top = Len(s.rest) /\ \A i \in DOMAIN left : left[i] = 1
                      THEN <<>> ELSE left]

\* As a code has at least 5 bits, there are fewer turns than twice the octets.
HuffmanDecode(octets) ==
  LET state[k \in 0..(2 * Len(octets))] ==
        IF k = 0 THEN [ok |-> TRUE, value |-> <<>>, loaded |-> 0, rest |-> AllBits(octets)]
        ELSE MatchOne(state[k - 1])
  IN state[2 * Len(octets)]

-----------------------------------------------------------------------------
\* encodeLatin1 accepts a text.
IsLatin1(text) == \A i \in DOMAIN CodesOf(text) : CodesOf(text)[i] <= 255

\* toLowerCase, for the letters of Latin-1.
LowerCode(c) == IF c \in (65..90) \cup ((192..222) \ {215}) THEN c + 32 ELSE c
NormalizeName(name) ==
  LET codes == CodesOf(name)
  IN TextOf([i \in DOMAIN codes |-> LowerCode(codes[i])])

Flagged(octets, flag) == [octets EXCEPT ![1] = @ + flag]

\* encodeStringHuffman and encodeStringLiteral.
EncodeString(text, useHuffman) ==
  IF useHuffman
    THEN LET coded == HuffmanEncode(CodesOf(text))
         IN Flagged(EncodeInteger(Len(coded), 7), 128) \o coded
    ELSE EncodeInteger(Len(CodesOf(text)), 7) \o CodesOf(text)

\* decodeString.
DecodeString(buf, offset) ==
  Then(DecodeInteger(buf, offset, 7), LAMBDA length :
    LET end == length.next + length.value
        data == SubSeq(buf, length.next, end - 1)
    IN IF end > Len(buf) + 1 THEN Thrown
       ELSE Then(IF buf[offset] >= 128 THEN HuffmanDecode(data) ELSE [ok |-> TRUE, value |-> data],
                 LAMBDA codes : [ok |-> TRUE, value |-> TextOf(codes.value), next |-> end]))
=============================================================================
