----------------------------- MODULE HpackProofs -----------------------------
(***************************************************************************)
(* That what HPACK writes is read back: integers (integer.ts), strings,    *)
(* plain and in the Huffman code (string.ts), the representations of a     *)
(* field, and header blocks with the dynamic tables at both ends           *)
(* (encoder.ts, decoder.ts, dynamic-table.ts); for any texts, any table    *)
(* size and any sequence of representations that the decoder can serve.    *)
(*                                                                         *)
(* The parts follow the octets upward: the groups of an integer, a string, *)
(* the Huffman code, a representation, the tables, the decoder's loop, and *)
(* last the inductive invariant of HeaderBlocks.                           *)
(***************************************************************************)
EXTENDS HeaderBlocks, BoundedInduction, SequenceTheorems

-----------------------------------------------------------------------------
\* Integers.

\* The octets stand in buf from the offset "at" on.
Occurs(octets, buf, at) ==
  /\ at \in Nat /\ at >= 1 /\ at + Len(octets) <= Len(buf) + 1
  /\ \A i \in 1..Len(octets) : buf[at + i - 1] = octets[i]

-----------------------------------------------------------------------------
\* What is left of n after each group of seven bits.
Shifted(n, r, L) ==
  /\ r[0] = n /\ \A i \in 0..L : r[i] \in Nat
  /\ \A i \in 1..L : r[i] = r[i - 1] \div 128
  /\ r[L] < 128 /\ \A i \in 0..(L - 1) : r[i] >= 128

Groups(r, L) == [i \in 1..(L + 1) |-> (r[i - 1] % 128) + (IF i <= L THEN 128 ELSE 0)]

LEMMA Divided ==
  ASSUME NEW n \in Nat
  PROVE  /\ n \div 128 \in Nat /\ n % 128 \in 0..127 /\ n = 128 * (n \div 128) + (n % 128)
         /\ n < 128 => n % 128 = n
OBVIOUS

LEMMA ContinuationGroups ==
  ASSUME NEW n \in Nat
  PROVE  \E r : \E L \in Nat : Shifted(n, r, L) /\ Continuation(n) = Groups(r, L)
<1> DEFINE Solution(f) == f = [i \in 0..n |-> IF i = 0 THEN n ELSE f[i - 1] \div 128]
           remaining == CHOOSE f : Solution(f)
           EndsAt(i) == remaining[i] < 128 /\ \A j \in 0..(i - 1) : remaining[j] >= 128
           last == CHOOSE i \in 0..n : EndsAt(i)
<1>1. \E f : Solution(f)
  <2> DEFINE step == [p \in (1..n) \X Nat |-> p[2] \div 128]
  <2>1. step \in Steps(n, Nat)
    BY DEF Steps
  <2>2. PICK h \in [0..n -> Nat] : h[0] = n /\ \A k \in 1..n : h[k] = step[<<k, h[k - 1]>>]
    <3> DEFINE V == Nat
    <3>1. n \in V /\ step \in Steps(n, V)
      BY <2>1
    <3>2. \E h \in [0..n -> V] : h[0] = n /\ \A k \in 1..n : h[k] = step[<<k, h[k - 1]>>]
      <4> HIDE DEF step, V
      <4> QED BY <3>1, RecursionExists
    <3> QED BY <3>2
  <2>3. ASSUME NEW k \in 1..n PROVE h[k] = h[k - 1] \div 128
    <3>1. h[k - 1] \in Nat /\ <<k, h[k - 1]>> \in (1..n) \X Nat
      OBVIOUS
    <3> QED BY <2>2, <3>1
  <2>4. h = [i \in 0..n |-> IF i = 0 THEN n ELSE h[i - 1] \div 128]
    BY <2>2, <2>3
  <2> QED BY <2>4
<1>2. Solution(remaining)
  <2> HIDE DEF Solution
  <2> QED BY <1>1
<1> HIDE DEF remaining
<1>3. /\ remaining[0] = n
      /\ \A i \in 1..n : remaining[i] = remaining[i - 1] \div 128
  BY <1>2
<1>4. \A i \in 0..n : remaining[i] \in Nat /\ remaining[i] <= n - i
  <2> DEFINE T == {i \in 0..n : remaining[i] \in Nat /\ remaining[i] <= n - i}
  <2>1. 0 \in T
    BY <1>3
  <2>2. ASSUME NEW i \in 1..n, i - 1 \in T PROVE i \in T
    <3>1. remaining[i - 1] \in Nat /\ remaining[i - 1] <= n - (i - 1)
      BY <2>2
    <3>2. remaining[i - 1] \div 128 \in Nat
          /\ (remaining[i - 1] > 0 => remaining[i - 1] \div 128 < remaining[i - 1])
          /\ (remaining[i - 1] = 0 => remaining[i - 1] \div 128 = 0)
      BY <3>1
    <3>3. remaining[i] = remaining[i - 1] \div 128
      BY <1>3
    <3> QED BY <3>1, <3>2, <3>3
  <2> HIDE DEF T
  <2>3. \A i \in 0..n : i \in T
    BY <2>1, <2>2, UpTo
  <2> QED BY <2>3 DEF T
<1>5. \E i \in 0..n : EndsAt(i)
  <2> DEFINE T == {i \in 0..n : remaining[i] < 128}
  <2>1. T \subseteq Nat /\ n \in T
    BY <1>4
  <2>2. PICK i \in T : \A j \in T : i <= j
    <3> HIDE DEF T
    <3> QED BY <2>1, LeastElement
  <2>3. ASSUME NEW j \in 0..(i - 1) PROVE remaining[j] >= 128
    <3>1. j \notin T /\ j \in 0..n
      BY <2>2
    <3> QED BY <3>1, <1>4
  <2> QED BY <2>2, <2>3
<1>6. last \in 0..n /\ EndsAt(last)
  <2> HIDE DEF EndsAt
  <2> QED BY <1>5
<1>7. Continuation(n) = Groups(remaining, last)
  BY DEF Continuation, Groups, remaining
<1> HIDE DEF last
<1>8. Shifted(n, remaining, last)
  BY <1>3, <1>4, <1>6 DEF Shifted
<1> QED BY <1>6, <1>7, <1>8

LEMMA ContinuationRead ==
  ASSUME NEW n \in Nat, NEW r, NEW L \in Nat, Shifted(n, r, L),
         NEW buf \in Seq(Nat), NEW at, NEW most \in Nat, Occurs(Groups(r, L), buf, at)
  PROVE  DecodeContinuation(buf, at, most)
           = [ok |-> TRUE, value |-> most + n, next |-> at + L + 1]
<1> DEFINE c == Groups(r, L)
           ends == {i \in at..Len(buf) : buf[i] < 128}
           Least(i) == \A j \in ends : i <= j
           last == CHOOSE i \in ends : Least(i)
           Solution(f) == f = [k \in 0..(last - at + 1) |->
                 IF k = 0 THEN 0 ELSE 128 * f[k - 1] + (buf[last + 1 - k] % 128)]
           number == CHOOSE f : Solution(f)
<1>1. /\ Len(c) = L + 1 /\ at \in Nat /\ at >= 1 /\ at + L <= Len(buf) /\ Len(buf) \in Nat
      /\ \A i \in 0..L : buf[at + i] = (r[i] % 128) + (IF i < L THEN 128 ELSE 0)
  <2>1. Len(c) = L + 1 /\ at \in Nat /\ at >= 1 /\ at + L <= Len(buf) /\ Len(buf) \in Nat
    BY DEF Groups, Occurs
  <2>2. ASSUME NEW i \in 0..L PROVE buf[at + i] = (r[i] % 128) + (IF i < L THEN 128 ELSE 0)
    <3>1. i + 1 \in 1..Len(c) /\ at + (i + 1) - 1 = at + i /\ (i + 1) - 1 = i
          /\ i + 1 \in 1..(L + 1) /\ (i + 1 <= L <=> i < L)
      BY <2>1
    <3>2. buf[at + (i + 1) - 1] = c[i + 1]
      BY <3>1 DEF Occurs
    <3>3. c[i + 1] = (r[(i + 1) - 1] % 128) + (IF i + 1 <= L THEN 128 ELSE 0)
      BY <3>1 DEF Groups
    <3> QED BY <3>1, <3>2, <3>3
  <2> QED BY <2>1, <2>2
<1>2. ends # {} /\ last = at + L
  <2>1. at + L \in ends
    <3>1. buf[at + L] = r[L] % 128
      BY <1>1, SMTT(40) DEF Shifted
    <3>2. r[L] % 128 < 128
      BY DEF Shifted
    <3> QED BY <1>1, <3>1, <3>2
  <2>2. ASSUME NEW j \in ends PROVE at + L <= j
    <3> SUFFICES ASSUME j < at + L PROVE FALSE
      BY <1>1
    <3>1. j - at \in 0..L /\ j - at < L /\ at + (j - at) = j
      BY <1>1
    <3>2. buf[j] = (r[j - at] % 128) + 128
      BY <1>1, <3>1
    <3>3. r[j - at] \in Nat /\ buf[j] < 128
      BY <3>1 DEF Shifted
    <3>4. r[j - at] % 128 \in 0..127
      BY <3>3, Divided, Zenon
    <3> HIDE DEF ends
    <3> QED BY <3>2, <3>3, <3>4
  <2>3. last \in ends /\ Least(last)
    <3>1. at + L \in ends /\ Least(at + L)
      BY <2>1, <2>2
    <3> HIDE DEF ends, Least
    <3> QED BY <3>1
  <2>4. ends \subseteq Nat
    BY <1>1
  <2> HIDE DEF last, ends
  <2> QED BY <1>1, <2>1, <2>2, <2>3, <2>4
<1> HIDE DEF ends, last
<1>3. last - at + 1 = L + 1
  BY <1>1, <1>2
<1> DEFINE N == L + 1
           g == [k \in 0..N |-> IF k = 0 THEN 0 ELSE r[N - k]]
           octet(k) == buf[last + 1 - k] % 128
<1>4. ASSUME NEW k \in 1..N PROVE g[k] = 128 * g[k - 1] + octet(k)
  <2>1. N - k \in 0..L /\ last + 1 - k = at + (N - k) /\ k \in 0..N /\ k - 1 \in 0..N
    BY <1>1, <1>2
  <2>2. /\ g[k] = r[N - k] /\ r[N - k] \in Nat
        /\ buf[last + 1 - k] = (r[N - k] % 128) + (IF N - k < L THEN 128 ELSE 0)
    BY <1>1, <2>1, SMTT(40) DEF Shifted
  <2>3. octet(k) = r[N - k] % 128
    BY <2>2
  <2>4. CASE k = 1
    <3>1. g[k - 1] = 0 /\ r[N - k] < 128
      BY <2>4 DEF Shifted
    <3>2. r[N - k] % 128 = r[N - k]
      BY <2>2, <3>1, Divided, Zenon
    <3> HIDE DEF g, octet, N
    <3> QED BY <2>2, <2>3, <3>1, <3>2
  <2>5. CASE k # 1
    <3>1. g[k - 1] = r[N - (k - 1)] /\ N - (k - 1) \in 1..L /\ N - (k - 1) - 1 = N - k
      BY <2>1, <2>5
    <3>2. r[N - (k - 1)] = r[N - (k - 1) - 1] \div 128
      BY <3>1 DEF Shifted
    <3>3. g[k - 1] = r[N - k] \div 128
      BY <3>1, <3>2
    <3> HIDE DEF g, octet, N
    <3> QED BY <2>2, <2>3, <3>3, SMTT(40)
  <2> QED BY <2>4, <2>5
<1>5. Solution(g)
  <2>1. g = [k \in 0..N |-> IF k = 0 THEN 0 ELSE 128 * g[k - 1] + octet(k)]
    <3>1. g = [k \in 0..N |-> g[k]] /\ g[0] = 0 /\ \A k \in 0..N : k # 0 => k \in 1..N
      OBVIOUS
    <3> HIDE DEF g, octet, N
    <3> QED BY <1>4, <3>1
  <2> QED BY <1>3, <2>1
<1>6. Solution(number)
  <2> HIDE DEF Solution
  <2> QED BY <1>5
<1> HIDE DEF number
<1>7. number[N] = n
  <2> DEFINE T == {k \in 0..N : number[k] = g[k]}
  <2>1. number[0] = 0 /\ \A k \in 1..N : number[k] = 128 * number[k - 1] + octet(k)
    <3>1. number = [k \in 0..N |-> IF k = 0 THEN 0 ELSE 128 * number[k - 1] + octet(k)]
      BY <1>3, <1>6
    <3>2. 0 \in 0..N /\ \A k \in 1..N : k \in 0..N /\ k # 0
      OBVIOUS
    <3> HIDE DEF octet, N
    <3> QED BY <3>1, <3>2
  <2>2. 0 \in T
    BY <2>1
  <2>3. ASSUME NEW k \in 1..N, k - 1 \in T PROVE k \in T
    <3>1. k \in 0..N /\ number[k - 1] = g[k - 1]
      BY <2>3
    <3> HIDE DEF g, octet, N
    <3> QED BY <2>1, <3>1, <1>4
  <2>4. N \in Nat
    OBVIOUS
  <2> HIDE DEF T, N
  <2>5. \A k \in 0..N : k \in T
    BY <2>2, <2>3, <2>4, UpTo
  <2>6. number[N] = g[N]
    BY <2>4, <2>5 DEF T
  <2>7. g[N] = r[0]
    BY DEF N
  <2> QED BY <2>6, <2>7 DEF Shifted
<1>8. DecodeContinuation(buf, at, most)
        = [ok |-> TRUE, value |-> most + number[last - at + 1], next |-> last + 1]
  <2>1. ends # {}
    BY <1>2
  <2> QED BY <2>1 DEF DecodeContinuation, number, ends, last
<1> QED BY <1>2, <1>3, <1>7, <1>8

LEMMA PrefixMaxima ==
  ASSUME NEW p \in 4..7
  PROVE  MaxPrefix[p] \in {15, 31, 63, 127}
<1>1. p = 4 \/ p = 5 \/ p = 6 \/ p = 7
  OBVIOUS
<1>2. MaxPrefix[4] = 15 /\ MaxPrefix[5] = 31 /\ MaxPrefix[6] = 63 /\ MaxPrefix[7] = 127
  BY DEF MaxPrefix
<1> QED BY <1>1, <1>2

\* What a flag above the prefix leaves of the prefix.
LEMMA Masked ==
  ASSUME NEW most \in {15, 31, 63, 127}, NEW a \in 0..most, NEW q \in Nat
  PROVE  (a + q * (most + 1)) % (most + 1) = a
<1>1. CASE most = 15
  <2>1. a \in 0..15 /\ (a + q * 16) % 16 = a
    BY <1>1
  <2> QED BY <1>1, <2>1
<1>2. CASE most = 31
  <2>1. a \in 0..31 /\ (a + q * 32) % 32 = a
    BY <1>2
  <2> QED BY <1>2, <2>1
<1>3. CASE most = 63
  <2>1. a \in 0..63 /\ (a + q * 64) % 64 = a
    BY <1>3
  <2> QED BY <1>3, <2>1
<1>4. CASE most = 127
  <2>1. a \in 0..127 /\ (a + q * 128) % 128 = a
    BY <1>4
  <2> QED BY <1>4, <2>1
<1> QED BY <1>1, <1>2, <1>3, <1>4

\* The octets e of v: the prefix, which holds at most "most", and the groups after it.
Written(e, v, most, flag) ==
  /\ e \in Seq(Nat) /\ Len(e) \in Nat /\ Len(e) >= 1
  /\ v < most => Len(e) = 1 /\ e[1] = v + flag
  /\ v >= most => \E r : \E L \in Nat :
        /\ Shifted(v - most, r, L) /\ Len(e) = L + 2 /\ e[1] = most + flag
        /\ \A i \in 1..(L + 1) : e[i + 1] = Groups(r, L)[i]

\* encodeInteger with the flag of a representation in the first octet: what it writes.
LEMMA IntegerOctets ==
  ASSUME NEW v \in Nat, NEW p \in 4..7, NEW flag \in Nat
  PROVE  /\ Written(Flagged(EncodeInteger(v, p), flag), v, MaxPrefix[p], flag)
         /\ EncodeInteger(v, p) \in Seq(Nat) /\ Len(EncodeInteger(v, p)) >= 1
<1> DEFINE most == MaxPrefix[p]
           enc == EncodeInteger(v, p)
           e == Flagged(enc, flag)
<1>0. most \in Nat
  <2>1. most \in {15, 31, 63, 127}
    BY PrefixMaxima, Zenon
  <2> QED BY <2>1
<1> HIDE DEF most
<1>1. CASE v < most
  <2>1. enc = <<v>>
    BY <1>1 DEF EncodeInteger, most
  <2>2. e = <<v + flag>>
    BY <2>1 DEF Flagged
  <2>3. enc \in Seq(Nat) /\ Len(enc) >= 1
    <3> HIDE DEF enc
    <3> QED BY <2>1
  <2> HIDE DEF e
  <2>4. Written(e, v, most, flag)
    BY <1>0, <1>1, <2>2 DEF Written
  <2> QED BY <2>3, <2>4 DEF e, most
<1>2. CASE v >= most
  <2>1. enc = <<most>> \o Continuation(v - most)
    BY <1>0, <1>2 DEF EncodeInteger, most
  <2>2. v - most \in Nat
    BY <1>0, <1>2
  <2>3. PICK r : \E L \in Nat : Shifted(v - most, r, L) /\ Continuation(v - most) = Groups(r, L)
    BY <2>2, ContinuationGroups
  <2>4. PICK L \in Nat : Shifted(v - most, r, L) /\ Continuation(v - most) = Groups(r, L)
    BY <2>3
  <2> DEFINE c == Groups(r, L)
  <2>5. c \in Seq(Nat) /\ Len(c) = L + 1
    <3>1. ASSUME NEW i \in 1..(L + 1)
          PROVE  (r[i - 1] % 128) + (IF i <= L THEN 128 ELSE 0) \in Nat
      <4>1. r[i - 1] \in Nat
        BY <2>4 DEF Shifted
      <4>2. r[i - 1] % 128 \in 0..127
        BY <4>1, Divided, Zenon
      <4> QED BY <4>2
    <3> QED BY <3>1 DEF Groups
  <2> HIDE DEF c
  <2>6. enc = <<most>> \o c /\ <<most>> \in Seq(Nat) /\ Len(<<most>>) = 1 /\ <<most>>[1] = most
    BY <1>0, <2>1, <2>4 DEF c
  <2>7. enc \in Seq(Nat) /\ Len(enc) = L + 2 /\ enc[1] = most
        /\ \A i \in 1..(L + 1) : enc[i + 1] = c[i]
    <3> HIDE DEF enc
    <3> QED BY <1>0, <2>5, <2>6
  <2>8. /\ e \in Seq(Nat) /\ Len(e) = L + 2 /\ e[1] = most + flag
        /\ \A i \in 1..(L + 1) : e[i + 1] = c[i]
    <3> HIDE DEF enc
    <3>1. DOMAIN enc = 1..(L + 2) /\ 1 \in 1..(L + 2) /\ \A i \in 1..(L + 2) : enc[i] \in Nat
      BY <2>7
    <3>2. e = [i \in 1..(L + 2) |-> IF i = 1 THEN most + flag ELSE enc[i]]
      BY <2>7, <3>1 DEF Flagged
    <3> HIDE DEF e
    <3> QED BY <1>0, <2>7, <3>1, <3>2
  <2> HIDE DEF e, enc
  <2>9. \E R : \E K \in Nat :
               /\ Shifted(v - most, R, K) /\ Len(e) = K + 2 /\ e[1] = most + flag
               /\ \A i \in 1..(K + 1) : e[i + 1] = Groups(R, K)[i]
    BY <2>4, <2>8, Zenon DEF c
  <2>10. ~(v < most) /\ Len(e) \in Nat /\ Len(e) >= 1
    BY <1>0, <1>2, <2>8
  <2>11. Written(e, v, most, flag)
    BY <2>8, <2>9, <2>10 DEF Written
  <2>12. enc \in Seq(Nat) /\ Len(enc) >= 1
    BY <2>7
  <2> QED BY <2>11, <2>12 DEF e, enc, most
<1> QED BY <1>0, <1>1, <1>2

\* A flag that leaves the prefix clear.
Above(flag, p) == flag \in Nat /\ \E q \in Nat : flag = q * (MaxPrefix[p] + 1)

\* What decodeInteger makes of v at an offset, in a buffer, and what its first octet shows.
IntegerAt(v, p, flag, buf, at) ==
  /\ DecodeInteger(buf, at, p)
       = [ok |-> TRUE, value |-> v, next |-> at + Len(Flagged(EncodeInteger(v, p), flag))]
  /\ ~(at > Len(buf)) /\ buf[at] \in flag..(flag + MaxPrefix[p])
  /\ v = 0 => buf[at] = flag

\* integer.ts: decodeInteger reads back what encodeInteger wrote, any number in any prefix,
\* wherever it stands in a buffer and whatever flag its first octet carries above the
\* prefix; and the flag is seen in that octet.
THEOREM IntegerRead ==
  ASSUME NEW v \in Nat, NEW p \in 4..7, NEW flag, Above(flag, p),
         NEW buf \in Seq(Nat), NEW at \in Nat,
         Occurs(Flagged(EncodeInteger(v, p), flag), buf, at)
  PROVE  IntegerAt(v, p, flag, buf, at)
<1> DEFINE most == MaxPrefix[p]
           e == Flagged(EncodeInteger(v, p), flag)
<1>0. most \in {15, 31, 63, 127}
  BY PrefixMaxima, Zenon
<1>q. flag \in Nat
  BY DEF Above
<1>r. PICK q \in Nat : flag = q * (MaxPrefix[p] + 1)
  BY DEF Above
<1>1. Written(e, v, most, flag)
  BY <1>q, IntegerOctets, Zenon
<1>a. Occurs(e, buf, at)
  OBVIOUS
<1> HIDE DEF e
<1>2. /\ at >= 1 /\ at + Len(e) <= Len(buf) + 1 /\ Len(buf) \in Nat
      /\ \A i \in 1..Len(e) : buf[at + i - 1] = e[i]
  BY <1>a, <1>1 DEF Occurs, Written
<1>3. buf[at] = e[1] /\ at <= Len(buf) /\ ~(at > Len(buf))
  <2>1. 1 \in 1..Len(e) /\ at + 1 - 1 = at
    BY <1>1, <1>2 DEF Written
  <2> QED BY <1>1, <1>2, <2>1 DEF Written
<1>4. flag = q * (most + 1)
  BY <1>r
<1>5. DecodeInteger(buf, at, p)
        = IF buf[at] % (most + 1) < most
            THEN [ok |-> TRUE, value |-> buf[at] % (most + 1), next |-> at + 1]
          ELSE DecodeContinuation(buf, at + 1, most)
  BY <1>2, <1>3 DEF DecodeInteger
<1> HIDE DEF most
<1>6. ASSUME NEW a \in 0..most PROVE (a + flag) % (most + 1) = a
  <2>1. (a + q * (most + 1)) % (most + 1) = a
    BY <1>0, Masked
  <2> QED BY <1>4, <2>1
<1>7. most \in Nat /\ most >= 15
  BY <1>0
<1>8. CASE v < most
  <2>1. buf[at] = v + flag /\ Len(e) = 1 /\ v \in 0..most
    BY <1>q, <1>1, <1>3, <1>7, <1>8 DEF Written
  <2>2. buf[at] % (most + 1) = v
    BY <1>6, <2>1
  <2>3. DecodeInteger(buf, at, p) = [ok |-> TRUE, value |-> v, next |-> at + Len(e)]
    BY <1>5, <1>8, <2>1, <2>2
  <2>4. buf[at] \in flag..(flag + most) /\ (v = 0 => buf[at] = flag)
    BY <1>q, <1>7, <1>8, <2>1
  <2> QED BY <1>3, <2>3, <2>4 DEF e, most, IntegerAt
<1>9. CASE v >= most
  <2>1. PICK r : \E L \in Nat :
            /\ Shifted(v - most, r, L) /\ Len(e) = L + 2 /\ e[1] = most + flag
            /\ \A i \in 1..(L + 1) : e[i + 1] = Groups(r, L)[i]
    BY <1>1, <1>9, Zenon DEF Written
  <2>2. PICK L \in Nat :
            /\ Shifted(v - most, r, L) /\ Len(e) = L + 2 /\ e[1] = most + flag
            /\ \A i \in 1..(L + 1) : e[i + 1] = Groups(r, L)[i]
    BY <2>1
  <2>3. buf[at] = most + flag /\ most \in 0..most /\ ~(most < most)
    BY <1>3, <1>7, <2>2
  <2>4. buf[at] % (most + 1) = most
    BY <1>6, <2>3
  <2>5. Occurs(Groups(r, L), buf, at + 1)
    <3>1. Len(Groups(r, L)) = L + 1
      BY DEF Groups
    <3>2. at + 1 \in Nat /\ at + 1 >= 1 /\ (at + 1) + (L + 1) <= Len(buf) + 1
      BY <1>2, <2>2
    <3>3. ASSUME NEW i \in 1..(L + 1) PROVE buf[(at + 1) + i - 1] = Groups(r, L)[i]
      <4>1. i + 1 \in 1..Len(e) /\ at + (i + 1) - 1 = (at + 1) + i - 1
        BY <2>2
      <4>2. buf[at + (i + 1) - 1] = e[i + 1]
        BY <1>2, <4>1
      <4>3. e[i + 1] = Groups(r, L)[i]
        BY <2>2
      <4> QED BY <4>1, <4>2, <4>3
    <3> QED BY <3>1, <3>2, <3>3 DEF Occurs
  <2>6. PICK n, from : n = v - most /\ n \in Nat /\ from = at + 1
    BY <1>7, <1>9
  <2>a. /\ Shifted(n, r, L) /\ Occurs(Groups(r, L), buf, from)
        /\ most \in Nat /\ n \in Nat /\ L \in Nat /\ buf \in Seq(Nat)
    BY <1>7, <2>2, <2>5, <2>6
  <2>b. DecodeContinuation(buf, from, most)
          = [ok |-> TRUE, value |-> most + n, next |-> from + L + 1]
    BY <2>a, ContinuationRead
  <2>7. DecodeContinuation(buf, at + 1, most)
          = [ok |-> TRUE, value |-> most + (v - most), next |-> (at + 1) + L + 1]
    BY <2>6, <2>b
  <2>8. most + (v - most) = v /\ (at + 1) + L + 1 = at + Len(e)
    BY <1>7, <2>2
  <2>9. DecodeInteger(buf, at, p) = [ok |-> TRUE, value |-> v, next |-> at + Len(e)]
    BY <1>5, <2>3, <2>4, <2>7, <2>8
  <2>10. buf[at] \in flag..(flag + most) /\ v # 0
    BY <1>q, <1>7, <1>9, <2>3
  <2> QED BY <1>3, <2>9, <2>10 DEF e, most, IntegerAt
<1> QED BY <1>7, <1>8, <1>9

-----------------------------------------------------------------------------
\* Strings.
LEMMA OccursParts ==
  ASSUME NEW a \in Seq(Nat), NEW b \in Seq(Nat), NEW buf \in Seq(Nat), NEW at \in Nat,
         Occurs(a \o b, buf, at)
  PROVE  Occurs(a, buf, at) /\ Occurs(b, buf, at + Len(a))
<1>1. /\ Len(a) \in Nat /\ Len(b) \in Nat /\ Len(a \o b) = Len(a) + Len(b)
      /\ \A i \in 1..Len(a) : (a \o b)[i] = a[i]
      /\ \A i \in 1..Len(b) : (a \o b)[Len(a) + i] = b[i]
  OBVIOUS
<1>2. /\ at >= 1 /\ at + (Len(a) + Len(b)) <= Len(buf) + 1 /\ Len(buf) \in Nat
      /\ \A i \in 1..(Len(a) + Len(b)) : buf[at + i - 1] = (a \o b)[i]
  BY <1>1, SMTT(40) DEF Occurs
<1>3. Occurs(a, buf, at)
  <2>1. \A i \in 1..Len(a) : i \in 1..(Len(a) + Len(b))
    BY <1>1
  <2> QED BY <1>1, <1>2, <2>1, SMTT(40) DEF Occurs
<1>4. Occurs(b, buf, at + Len(a))
  <2>1. ASSUME NEW i \in 1..Len(b) PROVE buf[(at + Len(a)) + i - 1] = b[i]
    <3>1. Len(a) + i \in 1..(Len(a) + Len(b)) /\ at + (Len(a) + i) - 1 = (at + Len(a)) + i - 1
      BY <1>1
    <3>2. buf[at + (Len(a) + i) - 1] = (a \o b)[Len(a) + i]
      BY <1>2, <3>1
    <3> QED BY <1>1, <3>1, <3>2
  <2> QED BY <1>1, <1>2, <2>1 DEF Occurs
<1> QED BY <1>3, <1>4

LEMMA OccursCut ==
  ASSUME NEW a \in Seq(Nat), NEW buf \in Seq(Nat), NEW at \in Nat, Occurs(a, buf, at)
  PROVE  SubSeq(buf, at, at + Len(a) - 1) = a
<1>1. /\ Len(a) \in Nat /\ at >= 1 /\ at + Len(a) <= Len(buf) + 1 /\ Len(buf) \in Nat
      /\ \A i \in 1..Len(a) : buf[at + i - 1] = a[i]
  BY DEF Occurs
<1> DEFINE n == at + Len(a) - 1
           b == SubSeq(buf, at, n)
<1>2. n \in Int /\ \A i \in at..n : buf[i] \in Nat
  BY <1>1
<1> HIDE DEF n
<1>3. /\ b \in Seq(Nat) /\ Len(b) = IF at <= n THEN n - at + 1 ELSE 0
      /\ \A i \in 1..(n - at + 1) : b[i] = buf[at + i - 1]
  BY <1>2, SubSeqProperties
<1> HIDE DEF b
<1>4. n - at + 1 = Len(a) /\ Len(b) = Len(a)
  BY <1>1, <1>3 DEF n
<1>5. \A i \in 1..Len(a) : b[i] = a[i]
  BY <1>1, <1>3, <1>4
<1>6. b = a
  BY <1>3, <1>4, <1>5, SeqEqual
<1> QED BY <1>6 DEF b, n

LEMMA FlaggedZero ==
  ASSUME NEW e \in Seq(Nat), Len(e) >= 1
  PROVE  Flagged(e, 0) = e
<1>1. 1 \in DOMAIN e /\ e[1] \in Nat /\ e[1] + 0 = e[1]
  OBVIOUS
<1> QED BY <1>1 DEF Flagged

\* What a text must be to be readable once written: text again when its codes are read
\* back, which huffmanDecode does from what huffmanEncode makes of them.
Sendable(text, useHuffman) ==
  /\ CodesOf(text) \in Seq(Nat) /\ TextOf(CodesOf(text)) = text
  /\ useHuffman =>
       /\ HuffmanEncode(CodesOf(text)) \in Seq(Nat)
       /\ HuffmanDecode(HuffmanEncode(CodesOf(text))).ok
       /\ HuffmanDecode(HuffmanEncode(CodesOf(text))).value = CodesOf(text)

\* The octets of a string after its length.
Coded(text, useHuffman) ==
  IF useHuffman THEN HuffmanEncode(CodesOf(text)) ELSE CodesOf(text)

\* The length, with the flag of the Huffman code.
Length(text, useHuffman) ==
  Flagged(EncodeInteger(Len(Coded(text, useHuffman)), 7), IF useHuffman THEN 128 ELSE 0)

LEMMA StringOctets ==
  ASSUME NEW text, NEW useHuffman \in BOOLEAN, Sendable(text, useHuffman)
  PROVE  /\ Coded(text, useHuffman) \in Seq(Nat) /\ Length(text, useHuffman) \in Seq(Nat)
         /\ EncodeString(text, useHuffman) = Length(text, useHuffman) \o Coded(text, useHuffman)
<1> DEFINE data == Coded(text, useHuffman)
           flag == IF useHuffman THEN 128 ELSE 0
           enc == EncodeInteger(Len(data), 7)
           head == Flagged(enc, flag)
<1>1. data \in Seq(Nat)
  BY DEF Sendable, Coded
<1>2. Len(data) \in Nat
  <2> HIDE DEF data
  <2> QED BY <1>1
<1>3. /\ head \in Seq(Nat) /\ head = Length(text, useHuffman)
      /\ enc \in Seq(Nat) /\ Len(enc) >= 1
  <2>1. 7 \in 4..7 /\ flag \in Nat
    OBVIOUS
  <2>2. Written(Flagged(enc, flag), Len(data), MaxPrefix[7], flag)
        /\ enc \in Seq(Nat) /\ Len(enc) >= 1
    <3> HIDE DEF data, flag
    <3> QED BY <1>2, <2>1, IntegerOctets, Zenon
  <2>3. head = Length(text, useHuffman)
    BY DEF Length
  <2> HIDE DEF enc
  <2> QED BY <2>2, <2>3 DEF Written
<1>4. EncodeString(text, useHuffman) = head \o data
  <2>1. CASE useHuffman
    BY <2>1 DEF EncodeString, Coded
  <2>2. CASE ~useHuffman
    <3>1. Flagged(enc, 0) = enc
      BY <1>3, FlaggedZero
    <3>2. EncodeString(text, useHuffman) = enc \o data
      BY <2>2 DEF EncodeString, Coded
    <3>3. head = Flagged(enc, 0)
      BY <2>2
    <3> QED BY <3>1, <3>2, <3>3
  <2> QED BY <2>1, <2>2
<1> QED BY <1>1, <1>3, <1>4

\* There is a length at an offset, and there are as many octets, data, before end.
HasString(buf, at, data, end) ==
  LET length == DecodeInteger(buf, at, 7)
  IN /\ length.ok /\ end = length.next + length.value /\ ~(end > Len(buf) + 1)
     /\ data = SubSeq(buf, length.next, end - 1)

LEMMA HuffmanStringOf ==
  ASSUME NEW buf, NEW at, NEW data, NEW end, HasString(buf, at, data, end),
         buf[at] >= 128, HuffmanDecode(data).ok
  PROVE  DecodeString(buf, at)
           = [ok |-> TRUE, value |-> TextOf(HuffmanDecode(data).value), next |-> end]
BY Zenon DEF HasString, DecodeString, Then

LEMMA PlainStringOf ==
  ASSUME NEW buf, NEW at, NEW data, NEW end, HasString(buf, at, data, end), ~(buf[at] >= 128)
  PROVE  DecodeString(buf, at) = [ok |-> TRUE, value |-> TextOf(data), next |-> end]
BY Zenon DEF HasString, DecodeString, Then

\* decodeString reads the text that encodeString wrote, in either form.
LEMMA StringRead ==
  ASSUME NEW text, NEW useHuffman \in BOOLEAN, Sendable(text, useHuffman),
         NEW buf \in Seq(Nat), NEW at \in Nat, Occurs(EncodeString(text, useHuffman), buf, at)
  PROVE  DecodeString(buf, at)
           = [ok |-> TRUE, value |-> text, next |-> at + Len(EncodeString(text, useHuffman))]
<1> DEFINE data == Coded(text, useHuffman)
           head == Length(text, useHuffman)
           from == at + Len(head)
           flag == IF useHuffman THEN 128 ELSE 0
<1>1. data \in Seq(Nat) /\ head \in Seq(Nat) /\ EncodeString(text, useHuffman) = head \o data
      /\ head = Flagged(EncodeInteger(Len(data), 7), flag)
  BY StringOctets DEF Length
<1> HIDE DEF data, head
<1>2. Occurs(head, buf, at) /\ Occurs(data, buf, from)
  <2>1. Occurs(head \o data, buf, at)
    BY <1>1
  <2> QED BY <1>1, <2>1, OccursParts
<1>3. /\ DecodeInteger(buf, at, 7) = [ok |-> TRUE, value |-> Len(data), next |-> from]
      /\ buf[at] \in flag..(flag + 127)
  <2> DEFINE v == Len(data)
  <2>1. 7 \in 4..7 /\ v \in Nat /\ MaxPrefix[7] = 127 /\ flag \in {0, 128}
    BY <1>1 DEF MaxPrefix
  <2>2. Above(flag, 7)
    <3>1. flag = (IF useHuffman THEN 1 ELSE 0) * (MaxPrefix[7] + 1)
      BY <2>1
    <3> QED BY <2>1, <3>1, SMTT(40) DEF Above
  <2>3. Occurs(Flagged(EncodeInteger(v, 7), flag), buf, at)
    BY <1>1, <1>2
  <2> HIDE DEF flag, v
  <2>4. IntegerAt(v, 7, flag, buf, at)
    BY <2>1, <2>2, <2>3, IntegerRead
  <2> QED BY <1>1, <2>1, <2>4 DEF v, IntegerAt
<1>4. SubSeq(buf, from, from + Len(data) - 1) = data /\ from + Len(data) <= Len(buf) + 1
  <2>1. Len(head) \in Nat /\ from \in Nat
    BY <1>1
  <2> HIDE DEF from
  <2> QED BY <1>1, <1>2, <2>1, OccursCut DEF Occurs
<1>5. from + Len(data) = at + Len(EncodeString(text, useHuffman))
  BY <1>1
<1> HIDE DEF from
<1>6. from + Len(data) <= Len(buf) + 1 /\ from \in Nat /\ Len(data) \in Nat /\ Len(buf) \in Nat
  <2>1. Len(head) \in Nat /\ Len(data) \in Nat /\ Len(buf) \in Nat /\ from = at + Len(head)
    BY <1>1 DEF from
  <2> QED BY <1>4, <2>1
<1>7. PICK length, end : length = DecodeInteger(buf, at, 7) /\ end = from + Len(data)
  OBVIOUS
<1>a. HasString(buf, at, data, end)
  <2>1. length.ok /\ length.next = from /\ length.value = Len(data)
    BY <1>3, <1>7
  <2>2. ~(end > Len(buf) + 1)
    BY <1>6, <1>7
  <2>3. SubSeq(buf, length.next, end - 1) = data
    <3>1. SubSeq(buf, from, from + Len(data) - 1) = data
      BY <1>4
    <3>2. PICK last : last = from + Len(data) - 1
      OBVIOUS
    <3>3. last = end - 1
      BY <1>6, <1>7, <3>2
    <3>4. SubSeq(buf, from, last) = data
      BY <3>1, <3>2, Zenon
    <3> QED BY <2>1, <3>3, <3>4, Zenon
  <2>4. end = length.next + length.value
    BY <1>7, <2>1, Zenon
  <2> QED BY <1>7, <2>1, <2>2, <2>3, <2>4, Zenon DEF HasString
<1>8. CASE useHuffman
  <2>1. buf[at] >= 128
    BY <1>3, <1>8
  <2>2. HuffmanDecode(data).ok /\ TextOf(HuffmanDecode(data).value) = text
    BY <1>8 DEF data, Coded, Sendable
  <2>3. DecodeString(buf, at)
          = [ok |-> TRUE, value |-> TextOf(HuffmanDecode(data).value), next |-> end]
    BY <1>a, <2>1, <2>2, HuffmanStringOf, Zenon
  <2> QED BY <1>5, <1>7, <2>2, <2>3
<1>9. CASE ~useHuffman
  <2>1. ~(buf[at] >= 128)
    BY <1>3, <1>9
  <2>2. TextOf(data) = text
    BY <1>9 DEF data, Coded, Sendable
  <2>3. DecodeString(buf, at) = [ok |-> TRUE, value |-> TextOf(data), next |-> end]
    BY <1>a, <2>1, PlainStringOf, Zenon
  <2> QED BY <1>5, <1>7, <2>2, <2>3
<1> QED BY <1>8, <1>9

-----------------------------------------------------------------------------
\* The Huffman code.
Bits == {0, 1}

Eight(o, b1, b2, b3, b4, b5, b6, b7, b8) ==
  /\ b1 \in Bits /\ b2 \in Bits /\ b3 \in Bits /\ b4 \in Bits
  /\ b5 \in Bits /\ b6 \in Bits /\ b7 \in Bits /\ b8 \in Bits
  /\ o = 128 * b1 + 64 * b2 + 32 * b3 + 16 * b4 + 8 * b5 + 4 * b6 + 2 * b7 + b8

LEMMA OctetBack ==
  ASSUME NEW o, NEW b1, NEW b2, NEW b3, NEW b4, NEW b5, NEW b6, NEW b7, NEW b8,
         Eight(o, b1, b2, b3, b4, b5, b6, b7, b8)
  PROVE  o \in Nat /\ OctetBits(o) = <<b1, b2, b3, b4, b5, b6, b7, b8>>
<1>1. /\ o \in Nat
      /\ (o \div 128) % 2 = b1 /\ (o \div 64) % 2 = b2 /\ (o \div 32) % 2 = b3
      /\ (o \div 16) % 2 = b4 /\ (o \div 8) % 2 = b5 /\ (o \div 4) % 2 = b6
      /\ (o \div 2) % 2 = b7 /\ o % 2 = b8
  BY DEF Bits, Eight
<1> QED BY <1>1, Zenon DEF OctetBits

LEMMA ConcatAt ==
  ASSUME NEW U, NEW a \in Seq(U), NEW b \in Seq(U)
  PROVE  /\ a \o b \in Seq(U) /\ Len(a \o b) = Len(a) + Len(b)
         /\ \A i \in 1..Len(a) : (a \o b)[i] = a[i]
         /\ \A i \in 1..Len(b) : (a \o b)[Len(a) + i] = b[i]
OBVIOUS

LEMMA BitsBack ==
  ASSUME NEW b, NEW j \in 1..8, \A i \in 1..8 : b[i] \in Bits
  PROVE  OctetOf(b) \in Nat /\ OctetBits(OctetOf(b))[j] = b[j]
<1>1. PICK b1, b2, b3, b4 : b1 = b[1] /\ b2 = b[2] /\ b3 = b[3] /\ b4 = b[4]
  OBVIOUS
<1>2. PICK b5, b6, b7, b8 : b5 = b[5] /\ b6 = b[6] /\ b7 = b[7] /\ b8 = b[8]
  OBVIOUS
<1>3. /\ b1 \in Bits /\ b2 \in Bits /\ b3 \in Bits /\ b4 \in Bits
      /\ b5 \in Bits /\ b6 \in Bits /\ b7 \in Bits /\ b8 \in Bits
  <2>1. 1 \in 1..8 /\ 2 \in 1..8 /\ 3 \in 1..8 /\ 4 \in 1..8
        /\ 5 \in 1..8 /\ 6 \in 1..8 /\ 7 \in 1..8 /\ 8 \in 1..8
    OBVIOUS
  <2> QED BY <1>1, <1>2, <2>1
<1>4. PICK o : o = OctetOf(b)
  OBVIOUS
<1>5. Eight(o, b1, b2, b3, b4, b5, b6, b7, b8)
  BY <1>1, <1>2, <1>3, <1>4 DEF OctetOf, Eight
<1>6. o \in Nat /\ OctetBits(o) = <<b1, b2, b3, b4, b5, b6, b7, b8>>
  BY <1>5, OctetBack, Zenon
<1>8. <<b1, b2, b3, b4, b5, b6, b7, b8>>[j] = b[j]
  <2>1. j = 1 \/ j = 2 \/ j = 3 \/ j = 4 \/ j = 5 \/ j = 6 \/ j = 7 \/ j = 8
    OBVIOUS
  <2> QED BY <1>1, <1>2, <2>1
<1> QED BY <1>4, <1>6, <1>8

\* Where the bit i stands among octets.
LEMMA Place ==
  ASSUME NEW i \in Nat, i >= 1
  PROVE  LET k == (i - 1) \div 8  j == (i - 1) % 8 IN
         k \in Nat /\ j \in 0..7 /\ i = 8 * k + j + 1 /\ j + 1 \in 1..8
OBVIOUS

LEMMA Eighth ==
  ASSUME NEW n \in Nat
  PROVE  n \div 8 \in Nat /\ 8 * (n \div 8) <= n /\ n < 8 * (n \div 8) + 8
         /\ n % 8 = n - 8 * (n \div 8)
OBVIOUS

LEMMA WholeFacts ==
  ASSUME NEW bits \in Seq(Bits)
  PROVE  LET n == Len(bits) \div 8 IN
         /\ WholeOctets(bits) \in Seq(Nat) /\ Len(WholeOctets(bits)) = n
         /\ n \in Nat /\ 8 * n <= Len(bits) /\ Len(bits) < 8 * n + 8
         /\ \A i \in 1..n : \A j \in 1..8 :
              OctetBits(WholeOctets(bits)[i])[j] = bits[8 * (i - 1) + j]
<1> DEFINE n == Len(bits) \div 8
           w == WholeOctets(bits)
<1>1. Len(bits) \in Nat /\ \A k \in 1..Len(bits) : bits[k] \in Bits
  OBVIOUS
<1>2. n \in Nat /\ 8 * n <= Len(bits) /\ Len(bits) < 8 * n + 8
  BY <1>1, Eighth
<1>3. w = [i \in 1..n |-> OctetOf(SubSeq(bits, 8 * i - 7, 8 * i))]
  BY DEF WholeOctets
<1> HIDE DEF n, w
<1>4. ASSUME NEW i \in 1..n
      PROVE  w[i] \in Nat /\ \A j \in 1..8 : OctetBits(w[i])[j] = bits[8 * (i - 1) + j]
  <2> DEFINE b == SubSeq(bits, 8 * i - 7, 8 * i)
  <2>1. 8 * i - 7 \in 1..Len(bits) /\ 8 * i \in 1..Len(bits) /\ 8 * i - 7 <= 8 * i
    BY <1>1, <1>2
  <2>2. ASSUME NEW j \in 1..8 PROVE b[j] = bits[8 * (i - 1) + j] /\ b[j] \in Bits
    <3>1. PICK x, y : x = 8 * i - 7 /\ y = 8 * i
      OBVIOUS
    <3>2. x \in 1..Len(bits) /\ y \in 1..Len(bits) /\ x <= y /\ j \in 1..(y - x + 1)
      BY <1>2, <2>1, <3>1
    <3>3. \A k \in x..y : bits[k] \in Bits
      BY <1>1, <3>2
    <3>4. SubSeq(bits, x, y)[j] = bits[x + j - 1]
      BY <3>2, <3>3, SubSeqProperties
    <3>5. x + j - 1 = 8 * (i - 1) + j /\ x + j - 1 \in 1..Len(bits)
      BY <1>2, <2>1, <3>1, <3>2
    <3> QED BY <1>1, <3>1, <3>4, <3>5
  <2> HIDE DEF b
  <2>3. OctetOf(b) \in Nat /\ \A j \in 1..8 : OctetBits(OctetOf(b))[j] = b[j]
    <3>1. \A j \in 1..8 : b[j] \in Bits
      BY <2>2
    <3>2. PICK c : c = b
      OBVIOUS
    <3>3. ASSUME NEW j \in 1..8 PROVE OctetOf(c) \in Nat /\ OctetBits(OctetOf(c))[j] = c[j]
      BY <3>1, <3>2, BitsBack
    <3>4. 1 \in 1..8
      OBVIOUS
    <3> QED BY <3>2, <3>3, <3>4
  <2>4. w[i] = OctetOf(b)
    BY <1>3 DEF b
  <2> QED BY <2>2, <2>3, <2>4
<1>5. w \in Seq(Nat) /\ Len(w) = n
  <2>1. \A i \in 1..n : w[i] \in Nat
    BY <1>4
  <2>2. w = [i \in 1..n |-> w[i]]
    BY <1>3
  <2>3. w \in [1..n -> Nat]
    BY <2>1, <2>2
  <2> QED BY <1>2, <2>3
<1> QED BY <1>2, <1>4, <1>5 DEF n, w

LEMMA AllBitsFacts ==
  ASSUME NEW octets \in Seq(Nat), NEW k \in 0..(Len(octets) - 1), NEW j \in 1..8
  PROVE  /\ 8 * k + j \in 1..(8 * Len(octets))
         /\ AllBits(octets)[8 * k + j] = OctetBits(octets[k + 1])[j]
<1>1. Len(octets) \in Nat /\ k \in Nat
  OBVIOUS
<1>2. PICK i : i = 8 * k + j
  OBVIOUS
<1>3. i \in 1..(8 * Len(octets)) /\ (i - 1) \div 8 = k /\ ((i - 1) % 8) + 1 = j
  BY <1>1, <1>2
<1>4. AllBits(octets)[i] = OctetBits(octets[((i - 1) \div 8) + 1])[((i - 1) % 8) + 1]
  BY <1>3 DEF AllBits
<1> QED BY <1>2, <1>3, <1>4

\* The octets and the bits after them carry the bits of W.
Carries(octets, after, W) ==
  /\ octets \in Seq(Nat) /\ after \in Seq(Bits) /\ W \in Seq(Bits)
  /\ Len(W) = 8 * Len(octets) + Len(after)
  /\ \A k \in 0..(Len(octets) - 1) : \A j \in 1..8 :
       OctetBits(octets[k + 1])[j] = W[8 * k + j]
  /\ \A i \in 1..Len(after) : after[i] = W[8 * Len(octets) + i]

\* More bits complete some octets.
LEMMA CarriesMore ==
  ASSUME NEW octets, NEW after, NEW W, Carries(octets, after, W), NEW more \in Seq(Bits)
  PROVE  LET x == after \o more
             whole == WholeOctets(x)
             left == SubSeq(x, 8 * Len(whole) + 1, Len(x)) IN
         /\ Carries(octets \o whole, left, W \o more)
         /\ Len(left) = Len(x) % 8 /\ x \in Seq(Bits) /\ Len(x) = Len(after) + Len(more)
<1> DEFINE x == after \o more
           whole == WholeOctets(x)
           n == Len(octets)
           m == Len(whole)
           left == SubSeq(x, 8 * m + 1, Len(x))
           V == W \o more
<1>1. /\ octets \in Seq(Nat) /\ after \in Seq(Bits) /\ W \in Seq(Bits) /\ n \in Nat
      /\ Len(after) \in Nat /\ Len(W) = 8 * n + Len(after) /\ Len(more) \in Nat
      /\ \A k \in 0..(n - 1) : \A j \in 1..8 : OctetBits(octets[k + 1])[j] = W[8 * k + j]
      /\ \A i \in 1..Len(after) : after[i] = W[8 * n + i]
  BY DEF Carries
<1>2. /\ x \in Seq(Bits) /\ Len(x) = Len(after) + Len(more) /\ Len(x) \in Nat
      /\ \A i \in 1..Len(after) : x[i] = after[i]
      /\ \A i \in 1..Len(more) : x[Len(after) + i] = more[i]
  BY <1>1
<1>3. /\ V \in Seq(Bits) /\ Len(V) = 8 * n + Len(x)
      /\ \A i \in 1..Len(W) : V[i] = W[i]
      /\ \A i \in 1..Len(more) : V[Len(W) + i] = more[i]
  <2>1. /\ V \in Seq(Bits) /\ Len(V) = Len(W) + Len(more)
        /\ \A i \in 1..Len(W) : V[i] = W[i]
        /\ \A i \in 1..Len(more) : V[Len(W) + i] = more[i]
    <3>1. W \in Seq(Bits)
      BY <1>1
    <3> HIDE DEF x, whole, n, m, left
    <3> QED BY <3>1, ConcatAt
  <2> HIDE DEF V, x
  <2> QED BY <1>1, <1>2, <2>1
<1> HIDE DEF V, x, n
<1>4. ASSUME NEW i \in 1..Len(x) PROVE x[i] = V[8 * n + i]
  <2>1. CASE i <= Len(after)
    <3>1. i \in 1..Len(after) /\ 8 * n + i \in 1..Len(W)
      BY <1>1, <1>2, <2>1
    <3> QED BY <1>1, <1>2, <1>3, <3>1
  <2>2. CASE ~(i <= Len(after))
    <3>1. PICK d : d = i - Len(after)
      OBVIOUS
    <3>2. d \in 1..Len(more) /\ i = Len(after) + d /\ 8 * n + i = Len(W) + d
      BY <1>1, <1>2, <2>2, <3>1
    <3> QED BY <1>2, <1>3, <3>2
  <2> QED BY <2>1, <2>2
<1>5. /\ whole \in Seq(Nat) /\ m = Len(x) \div 8 /\ m \in Nat /\ 8 * m <= Len(x)
      /\ Len(x) < 8 * m + 8
      /\ \A i \in 1..m : \A j \in 1..8 : OctetBits(whole[i])[j] = x[8 * (i - 1) + j]
  BY <1>2, WholeFacts
<1> HIDE DEF whole
<1>6. /\ octets \o whole \in Seq(Nat) /\ Len(octets \o whole) = n + m
      /\ \A k \in 1..n : (octets \o whole)[k] = octets[k]
      /\ \A k \in 1..m : (octets \o whole)[n + k] = whole[k]
  <2>1. octets \in Seq(Nat) /\ whole \in Seq(Nat)
    BY <1>1, <1>5
  <2> QED BY <2>1, ConcatAt DEF n, m
<1> HIDE DEF m
<1>7. ASSUME NEW k \in 0..(Len(octets \o whole) - 1), NEW j \in 1..8
      PROVE  OctetBits((octets \o whole)[k + 1])[j] = V[8 * k + j]
  <2>1. k \in Nat /\ k < n + m
    BY <1>1, <1>5, <1>6
  <2>2. CASE k < n
    <3>1. k \in 0..(n - 1) /\ k + 1 \in 1..n /\ 8 * k + j \in 1..Len(W)
      BY <1>1, <2>1, <2>2, SMTT(40)
    <3>2. (octets \o whole)[k + 1] = octets[k + 1] /\ V[8 * k + j] = W[8 * k + j]
      BY <1>3, <1>6, <3>1
    <3> QED BY <1>1, <3>1, <3>2
  <2>3. CASE ~(k < n)
    <3>1. PICK d : d = k - n
      OBVIOUS
    <3>2. /\ d \in Nat /\ d + 1 \in 1..m /\ k + 1 = n + (d + 1)
          /\ 8 * ((d + 1) - 1) + j \in 1..Len(x) /\ 8 * n + (8 * ((d + 1) - 1) + j) = 8 * k + j
      BY <1>1, <1>2, <1>5, <2>1, <2>3, <3>1, SMTT(40)
    <3>3. (octets \o whole)[k + 1] = whole[d + 1]
      <4>1. PICK e : e = d + 1
        OBVIOUS
      <4>2. e \in 1..m /\ k + 1 = n + e
        BY <3>2, <4>1
      <4>3. \A i \in 1..m : (octets \o whole)[n + i] = whole[i]
        BY <1>6
      <4>4. (octets \o whole)[n + e] = whole[e]
        BY <4>2, <4>3, Zenon
      <4> QED BY <4>1, <4>2, <4>4, Zenon
    <3>4. OctetBits(whole[d + 1])[j] = x[8 * ((d + 1) - 1) + j]
      BY <1>5, <3>2
    <3>5. x[8 * ((d + 1) - 1) + j] = V[8 * k + j]
      BY <1>4, <3>2
    <3> QED BY <3>3, <3>4, <3>5
  <2> QED BY <2>2, <2>3
<1>8. /\ left \in Seq(Bits) /\ Len(left) = Len(x) - 8 * m
      /\ \A i \in 1..Len(left) : left[i] = x[8 * m + i]
  <2>1. PICK a, b : a = 8 * m + 1 /\ b = Len(x)
    OBVIOUS
  <2>2. a \in Nat /\ b \in Nat /\ \A i \in a..b : x[i] \in Bits
    <3>1. \A i \in a..b : i \in 1..Len(x)
      BY <1>2, <1>5, <2>1
    <3> QED BY <1>2, <1>5, <2>1, <3>1
  <2>3. /\ SubSeq(x, a, b) \in Seq(Bits)
        /\ Len(SubSeq(x, a, b)) = (IF a <= b THEN b - a + 1 ELSE 0)
        /\ \A i \in 1..(b - a + 1) : SubSeq(x, a, b)[i] = x[a + i - 1]
    BY <2>2, SubSeqProperties
  <2>4. left = SubSeq(x, a, b)
    BY <2>1
  <2> HIDE DEF left
  <2>5. Len(left) = Len(x) - 8 * m
    <3>1. PICK c : c = 8 * m
      OBVIOUS
    <3>2. c \in Nat /\ c <= Len(x) /\ a = c + 1
      BY <1>5, <2>1, <3>1
    <3>3. (IF a <= b THEN b - a + 1 ELSE 0) = Len(x) - c
      BY <1>2, <2>1, <3>2
    <3> QED BY <2>3, <2>4, <3>1, <3>3
  <2>6. ASSUME NEW i \in 1..Len(left) PROVE left[i] = x[8 * m + i]
    <3>1. i \in 1..(b - a + 1) /\ a + i - 1 = 8 * m + i
      BY <1>2, <1>5, <2>1, <2>5
    <3> QED BY <2>3, <2>4, <3>1
  <2> QED BY <2>3, <2>4, <2>5, <2>6
<1>9. Len(left) = Len(x) % 8
  BY <1>2, <1>5, <1>8, Eighth
<1> HIDE DEF left
<1>10. ASSUME NEW i \in 1..Len(left) PROVE left[i] = V[8 * Len(octets \o whole) + i]
  <2>1. PICK l : l = 8 * m + i
    OBVIOUS
  <2>2. l \in 1..Len(x) /\ 8 * Len(octets \o whole) + i = 8 * n + l
    BY <1>1, <1>2, <1>5, <1>6, <1>8, <2>1
  <2> QED BY <1>4, <1>8, <2>1, <2>2
<1>11. Len(V) = 8 * Len(octets \o whole) + Len(left)
  BY <1>1, <1>2, <1>3, <1>5, <1>6, <1>8
<1>12. Carries(octets \o whole, left, V)
  BY <1>3, <1>6, <1>7, <1>8, <1>10, <1>11 DEF Carries
<1> QED BY <1>2, <1>9, <1>12 DEF V, x, whole, m, left

\* When nothing is left the bits are those of the octets.
LEMMA CarriesAll ==
  ASSUME NEW octets, NEW W, NEW after, Carries(octets, after, W), Len(after) = 0
  PROVE  AllBits(octets) = W
<1> DEFINE b == AllBits(octets)
           n == 8 * Len(octets)
<1>1. /\ octets \in Seq(Nat) /\ W \in Seq(Bits) /\ Len(octets) \in Nat /\ Len(W) = n
      /\ \A k \in 0..(Len(octets) - 1) : \A j \in 1..8 :
           OctetBits(octets[k + 1])[j] = W[8 * k + j]
  BY DEF Carries
<1>2. ASSUME NEW i \in 1..n PROVE b[i] = W[i]
  <2>1. PICK k, j : k = (i - 1) \div 8 /\ j = ((i - 1) % 8) + 1
    OBVIOUS
  <2>2. k \in Nat /\ j \in 1..8 /\ i = 8 * k + j
    BY <2>1, <1>1, Place
  <2>3. k \in 0..(Len(octets) - 1)
    BY <1>1, <2>2
  <2>4. b[8 * k + j] = OctetBits(octets[k + 1])[j]
    BY <1>1, <2>2, <2>3, AllBitsFacts
  <2> QED BY <1>1, <2>2, <2>3, <2>4
<1>3. b = [i \in 1..n |-> b[i]]
  BY DEF AllBits
<1> HIDE DEF b
<1>4. W = [i \in 1..n |-> W[i]]
  BY <1>1
<1> HIDE DEF n
<1> QED BY <1>2, <1>3, <1>4 DEF b

LEMMA CodeFacts ==
  ASSUME NEW s \in Symbols
  PROVE  /\ CodeBits[s] \in Seq(Bits) /\ Len(CodeBits[s]) \in Nat
         /\ Len(CodeBits[s]) >= 5 /\ Len(CodeBits[s]) <= 30
         /\ CodeBits[s] \in DOMAIN SymbolOf /\ SymbolOf[CodeBits[s]] = s
         /\ \A w \in 5..(Len(CodeBits[s]) - 1) : SubSeq(CodeBits[s], 1, w) \notin DOMAIN SymbolOf
         /\ s # 256 => \E i \in 1..Len(CodeBits[s]) : CodeBits[s][i] = 0
<1>1. PICK code : code = CodeBits[s]
  OBVIOUS
<1>2. /\ code \in Seq(Bits) /\ Len(code) \in 5..30 /\ SymbolOf[code] = s
      /\ \A w \in 5..(Len(code) - 1) : SubSeq(code, 1, w) \notin DOMAIN SymbolOf
  BY <1>1, CodeAssumption, Zenon DEF Bits
<1>3. Len(code) \in Nat /\ Len(code) >= 5 /\ Len(code) <= 30
  <2>1. PICK n : n = Len(code)
    OBVIOUS
  <2>2. n \in 5..30
    BY <1>2, <2>1, Zenon
  <2>3. n \in Nat /\ n >= 5 /\ n <= 30
    BY <2>2
  <2> QED BY <2>1, <2>3, Zenon
<1>4. DOMAIN SymbolOf = {CodeBits[t] : t \in Symbols}
  BY DEF SymbolOf
<1>5. code \in DOMAIN SymbolOf
  BY <1>1, <1>4
<1>6. ASSUME s # 256 PROVE \E i \in 1..Len(code) : code[i] = 0
  <2>1. s \in 0..255
    BY <1>6 DEF Symbols
  <2>2. \E i \in DOMAIN code : code[i] = 0
    BY <1>1, <2>1, CodeAssumption, Zenon
  <2>3. DOMAIN code = 1..Len(code)
    BY <1>2
  <2> QED BY <2>2, <2>3
<1> QED BY <1>1, <1>2, <1>3, <1>5, <1>6

\* Texts that the Huffman code can carry: octets whose codes have 25 bits at most, so that
\* with the seven that may be left over they fit in the accumulator.
Codable(codes) ==
  /\ codes \in Seq(0..255)
  /\ \A i \in 1..Len(codes) : Len(CodeBits[codes[i]]) <= 25

LEMMA CodableFacts ==
  ASSUME NEW codes, Codable(codes), NEW i \in 1..Len(codes)
  PROVE  codes[i] \in Symbols /\ codes[i] # 256 /\ Len(CodeBits[codes[i]]) <= 25
<1>1. codes \in Seq(0..255)
  BY DEF Codable
<1>2. PICK c : c = codes[i]
  OBVIOUS
<1>3. c \in 0..255
  BY <1>1, <1>2, ElementOfSeq, Zenon
<1>4. c \in Symbols /\ c # 256
  BY <1>3 DEF Symbols
<1> QED BY <1>2, <1>4 DEF Codable

\* The first k codes are in the bits B, one after another, the i-th up to P[i].
Spells(codes, k, B, P) ==
  /\ B \in Seq(Bits) /\ P[0] = 0
  /\ \A i \in 0..k : P[i] \in Nat /\ P[i] <= Len(B)
  /\ \A i \in 1..k :
       /\ P[i] = P[i - 1] + Len(CodeBits[codes[i]])
       /\ \A j \in 1..Len(CodeBits[codes[i]]) : B[P[i - 1] + j] = CodeBits[codes[i]][j]

LEMMA SpellsLonger ==
  ASSUME NEW codes, Codable(codes), NEW k \in 0..Len(codes), NEW B, NEW P, Spells(codes, k, B, P),
         NEW more \in Seq(Bits)
  PROVE  Spells(codes, k, B \o more, P)
<1>1. PICK V : V = B \o more
  OBVIOUS
<1>2. B \in Seq(Bits)
  BY DEF Spells
<1>3. /\ V \in Seq(Bits) /\ Len(V) = Len(B) + Len(more) /\ Len(more) \in Nat /\ Len(B) \in Nat
      /\ \A i \in 1..Len(B) : V[i] = B[i]
  <2>1. V \in Seq(Bits) /\ Len(V) = Len(B) + Len(more) /\ \A i \in 1..Len(B) : V[i] = B[i]
    BY <1>1, <1>2, ConcatAt
  <2>2. Len(more) \in Nat /\ Len(B) \in Nat
    BY <1>2
  <2> QED BY <2>1, <2>2
<1>4. ASSUME NEW i \in 0..k PROVE P[i] \in Nat /\ P[i] <= Len(V)
  BY <1>3 DEF Spells
<1>5. ASSUME NEW i \in 1..k, NEW j \in 1..Len(CodeBits[codes[i]])
      PROVE  V[P[i - 1] + j] = CodeBits[codes[i]][j]
  <2>1. i \in 0..k /\ i - 1 \in 0..k
    OBVIOUS
  <2>2. P[i] = P[i - 1] + Len(CodeBits[codes[i]]) /\ P[i - 1] \in Nat /\ P[i] <= Len(B)
        /\ B[P[i - 1] + j] = CodeBits[codes[i]][j]
    BY <2>1 DEF Spells
  <2>3. codes[i] \in Symbols
    BY CodableFacts
  <2>4. Len(CodeBits[codes[i]]) \in Nat
    BY <2>3, CodeFacts
  <2>5. P[i - 1] + j \in 1..Len(B)
    <3>1. PICK p, l : p = P[i - 1] /\ l = Len(CodeBits[codes[i]])
      OBVIOUS
    <3>2. p \in Nat /\ l \in Nat /\ p + l <= Len(B) /\ j \in 1..l
      BY <2>2, <2>4, <3>1
    <3>3. PICK n : n = Len(B)
      OBVIOUS
    <3>4. n \in Nat /\ p + l <= n
      BY <1>3, <3>2, <3>3
    <3>5. p + j \in 1..n
      BY <3>2, <3>4
    <3> QED BY <3>1, <3>3, <3>5
  <2> QED BY <1>3, <2>2, <2>5
<1>6. Spells(codes, k, V, P)
  BY <1>3, <1>4, <1>5 DEF Spells
<1> QED BY <1>1, <1>6

LEMMA SpellsNext ==
  ASSUME NEW codes, Codable(codes), NEW k \in 1..Len(codes), NEW B, NEW P,
         Spells(codes, k - 1, B, P), P[k - 1] = Len(B)
  PROVE  \E Q : /\ Spells(codes, k, B \o CodeBits[codes[k]], Q)
                /\ Q[k] = Len(B \o CodeBits[codes[k]])
<1>1. PICK code : code = CodeBits[codes[k]]
  OBVIOUS
<1>2. code \in Seq(Bits) /\ Len(code) \in Nat
  <2>1. codes[k] \in Symbols
    BY CodableFacts
  <2> QED BY <1>1, <2>1, CodeFacts
<1>3. PICK V : V = B \o code
  OBVIOUS
<1>4. k - 1 \in 0..Len(codes) /\ k - 1 \in Nat
  OBVIOUS
<1>5. Spells(codes, k - 1, V, P)
  <2>1. PICK m : m = k - 1
    OBVIOUS
  <2> QED BY <1>2, <1>3, <1>4, <2>1, SpellsLonger
<1>6. /\ V \in Seq(Bits) /\ Len(V) = Len(B) + Len(code) /\ Len(B) \in Nat
      /\ \A j \in 1..Len(code) : V[Len(B) + j] = code[j]
  <2>1. B \in Seq(Bits)
    BY DEF Spells
  <2>2. V \in Seq(Bits) /\ Len(V) = Len(B) + Len(code)
        /\ \A j \in 1..Len(code) : V[Len(B) + j] = code[j]
    BY <1>2, <1>3, <2>1, ConcatAt
  <2>3. Len(B) \in Nat
    BY <2>1
  <2> QED BY <2>2, <2>3
<1> DEFINE Q == [i \in 0..k |-> IF i = k THEN Len(V) ELSE P[i]]
<1>7. Q[k] = Len(V) /\ \A i \in 0..(k - 1) : Q[i] = P[i]
  BY <1>4
<1> HIDE DEF Q
<1>8. Q[0] = 0 /\ Q[k - 1] = Len(B)
  <2>1. 0 \in 0..(k - 1) /\ k - 1 \in 0..(k - 1)
    BY <1>4
  <2>2. P[0] = 0
    BY <1>5 DEF Spells
  <2> QED BY <1>7, <2>1, <2>2
<1>9. ASSUME NEW i \in 0..k PROVE Q[i] \in Nat /\ Q[i] <= Len(V)
  <2>1. CASE i = k
    BY <1>2, <1>6, <1>7, <2>1
  <2>2. CASE i # k
    <3>1. i \in 0..(k - 1)
      BY <2>2
    <3> QED BY <1>5, <1>7, <3>1 DEF Spells
  <2> QED BY <2>1, <2>2
<1>10. ASSUME NEW i \in 1..k
       PROVE  /\ Q[i] = Q[i - 1] + Len(CodeBits[codes[i]])
              /\ \A j \in 1..Len(CodeBits[codes[i]]) : V[Q[i - 1] + j] = CodeBits[codes[i]][j]
  <2>1. CASE i = k
    BY <1>1, <1>6, <1>7, <1>8, <2>1
  <2>2. CASE i # k
    <3>1. i \in 1..(k - 1) /\ i - 1 \in 0..(k - 1) /\ i \in 0..(k - 1)
      BY <2>2
    <3>2. Q[i] = P[i] /\ Q[i - 1] = P[i - 1]
      BY <1>7, <3>1
    <3> QED BY <1>5, <3>1, <3>2 DEF Spells
  <2> QED BY <2>1, <2>2
<1>11. Spells(codes, k, V, Q)
  BY <1>6, <1>8, <1>9, <1>10 DEF Spells
<1> QED BY <1>1, <1>3, <1>7, <1>11

LEMMA PushFacts ==
  ASSUME NEW s, NEW W, Carries(s.out, s.pending, W), Len(s.pending) <= 7,
         NEW symbol \in Symbols, Len(CodeBits[symbol]) <= 25
  PROVE  /\ Carries(Push(s, symbol).out, Push(s, symbol).pending, W \o CodeBits[symbol])
         /\ Len(Push(s, symbol).pending) <= 7
<1>1. PICK out, after, code : out = s.out /\ after = s.pending /\ code = CodeBits[symbol]
  OBVIOUS
<1>2. /\ Carries(out, after, W) /\ after \in Seq(Bits) /\ code \in Seq(Bits)
      /\ Len(after) \in Nat /\ Len(code) \in Nat
      /\ Len(after) <= 7 /\ Len(code) <= 25
  <2>1. after \in Seq(Bits)
    BY <1>1 DEF Carries
  <2>2. Len(after) \in Nat
    BY <2>1
  <2> QED BY <1>1, <2>1, <2>2, CodeFacts
<1>3. PICK x : x = after \o code
  OBVIOUS
<1>4. PICK whole, left : whole = WholeOctets(x) /\ left = SubSeq(x, 8 * Len(whole) + 1, Len(x))
  OBVIOUS
<1>5. /\ Carries(out \o whole, left, W \o code) /\ Len(left) = Len(x) % 8
      /\ x \in Seq(Bits) /\ Len(x) = Len(after) + Len(code)
  BY <1>2, <1>3, <1>4, CarriesMore
<1>6. Accumulated(x) = x
  <2>1. Len(x) \in Nat /\ Len(x) <= 32
    <3>1. PICK a, c : a = Len(after) /\ c = Len(code)
      OBVIOUS
    <3>2. a \in Nat /\ c \in Nat /\ a <= 7 /\ c <= 25 /\ Len(x) = a + c
      BY <1>2, <1>5, <3>1
    <3> QED BY <3>2
  <2>2. \A i \in 1..Len(x) : ~(i <= Len(x) - 32)
    BY <2>1
  <2>3. Accumulated(x) = [i \in 1..Len(x) |-> x[i]]
    BY <2>2 DEF Accumulated
  <2>4. x = [i \in 1..Len(x) |-> x[i]]
    BY <1>5
  <2> QED BY <2>3, <2>4
<1>7. Push(s, symbol) = [out |-> out \o whole, pending |-> left]
  BY <1>1, <1>3, <1>4, <1>6 DEF Push
<1>8. Len(left) <= 7
  <2>1. Len(x) \in Nat
    BY <1>5
  <2>2. Len(x) % 8 \in 0..7
    BY <2>1
  <2> QED BY <1>5, <2>2
<1>9. PICK t : t = Push(s, symbol)
  OBVIOUS
<1>10. t.out = out \o whole /\ t.pending = left
  BY <1>7, <1>9
<1>11. Carries(t.out, t.pending, W \o code) /\ Len(t.pending) <= 7
  BY <1>5, <1>8, <1>10
<1> QED BY <1>1, <1>9, <1>11

NothingPushed == [out |-> <<>>, pending |-> <<>>]

LEMMA EncodeEquation ==
  ASSUME NEW codes \in Seq(0..255)
  PROVE  \E u : /\ u[0] = NothingPushed /\ \A k \in 1..Len(codes) : u[k] = Push(u[k - 1], codes[k])
                /\ HuffmanEncode(codes)
                     = u[Len(codes)].out \o WholeOctets(PaddedToOctet(u[Len(codes)].pending))
<1> DEFINE N == Len(codes)
           Solution(f, n) ==
             f = [i \in 0..n |-> IF i = 0 THEN NothingPushed ELSE Push(f[i - 1], codes[i])]
           state == CHOOSE f : Solution(f, N)
           T == {n \in 0..N : \E f : Solution(f, n)}
<1>1. N \in Nat
  OBVIOUS
<1>2. 0 \in T
  <2> DEFINE f == [k \in 0..0 |-> NothingPushed]
  <2>1. Solution(f, 0)
    OBVIOUS
  <2> HIDE DEF Solution, f
  <2> QED BY <1>1, <2>1
<1>3. ASSUME NEW n \in 1..N, n - 1 \in T PROVE n \in T
  <2>1. PICK f : Solution(f, n - 1)
    BY <1>3
  <2> DEFINE g == [k \in 0..n |-> IF k = n THEN Push(f[n - 1], codes[n]) ELSE f[k]]
  <2>2. ASSUME NEW k \in 0..n
        PROVE  g[k] = IF k = 0 THEN NothingPushed ELSE Push(g[k - 1], codes[k])
    <3>1. f[0] = NothingPushed /\ n # 0
      BY <2>1
    <3>2. CASE k = 0
      BY <3>1, <3>2
    <3>3. CASE k # 0
      <4>1. k - 1 \in 0..n /\ k - 1 # n /\ g[k - 1] = f[k - 1]
        BY <3>3
      <4>2. CASE k = n
        <5>1. g[k] = Push(f[k - 1], codes[k])
          BY <4>2
        <5> HIDE DEF g
        <5> QED BY <3>3, <4>1, <5>1
      <4>3. CASE k # n
        <5>1. k \in 0..(n - 1) /\ g[k] = f[k]
          BY <4>3
        <5>2. f[k] = Push(f[k - 1], codes[k])
          BY <2>1, <3>3, <5>1
        <5> HIDE DEF g
        <5> QED BY <3>3, <4>1, <5>1, <5>2
      <4> QED BY <4>2, <4>3
    <3> QED BY <3>2, <3>3
  <2>3. g = [k \in 0..n |-> g[k]]
    OBVIOUS
  <2> HIDE DEF g
  <2>4. Solution(g, n)
    BY <2>2, <2>3
  <2> HIDE DEF Solution
  <2> QED BY <2>4
<1>4. N \in T
  <2> HIDE DEF T, N
  <2>1. \A n \in 0..N : n \in T
    BY <1>1, <1>2, <1>3, UpTo
  <2> QED BY <1>1, <2>1
<1>5. Solution(state, N)
  <2>1. \E f : Solution(f, N)
    BY <1>4
  <2> HIDE DEF Solution, N
  <2> QED BY <2>1
<1>6. HuffmanEncode(codes) = state[N].out \o WholeOctets(PaddedToOctet(state[N].pending))
  BY DEF HuffmanEncode, NothingPushed
<1> HIDE DEF state
<1>7. state[0] = NothingPushed
  BY <1>1, <1>5
<1>8. ASSUME NEW k \in 1..N PROVE state[k] = Push(state[k - 1], codes[k])
  <2>1. k \in 0..N /\ k # 0
    BY <1>1
  <2> QED BY <1>5, <2>1
<1> QED BY <1>6, <1>7, <1>8

\* What the bits of a coded text are: its codes, and fewer than eight ones.
CodeOf(codes, octets, B, P) ==
  /\ octets \in Seq(Nat) /\ B = AllBits(octets) /\ Len(B) = 8 * Len(octets)
  /\ Spells(codes, Len(codes), B, P) /\ Len(B) <= P[Len(codes)] + 7
  /\ \A i \in 1..Len(B) : i > P[Len(codes)] => B[i] = 1

LEMMA Padding ==
  ASSUME NEW r \in Nat, r <= 7
  PROVE  LET m == (8 - (r % 8)) % 8 IN m \in Nat /\ m <= 7 /\ (r + m) % 8 = 0
OBVIOUS

LEMMA EncodeSpells ==
  ASSUME NEW codes, Codable(codes)
  PROVE  \E B, P : CodeOf(codes, HuffmanEncode(codes), B, P)
<1> DEFINE N == Len(codes)
<1>1. codes \in Seq(0..255)
  BY DEF Codable
<1>2. N \in Nat
  BY <1>1, LenProperties, Zenon
<1>3. PICK u : /\ u[0] = NothingPushed /\ \A k \in 1..N : u[k] = Push(u[k - 1], codes[k])
               /\ HuffmanEncode(codes) = u[N].out \o WholeOctets(PaddedToOctet(u[N].pending))
  BY <1>1, EncodeEquation
<1> HIDE DEF N
<1> DEFINE Good(k, W, P) == /\ Carries(u[k].out, u[k].pending, W) /\ Len(u[k].pending) <= 7
                            /\ Spells(codes, k, W, P) /\ P[k] = Len(W)
           T == {k \in 0..N : \E W, P : Good(k, W, P)}
<1>4. 0 \in T
  <2> DEFINE P == [i \in 0..0 |-> 0]
  <2>1. P[0] = 0 /\ \A i \in 0..0 : P[i] = 0
    OBVIOUS
  <2> HIDE DEF P
  <2>2. Len(<<>>) = 0 /\ <<>> \in Seq(Bits) /\ <<>> \in Seq(Nat)
    OBVIOUS
  <2>3. u[0].out = <<>> /\ u[0].pending = <<>>
    BY <1>3 DEF NothingPushed
  <2>4. Carries(<<>>, <<>>, <<>>)
    BY <2>2 DEF Carries
  <2>5. Spells(codes, 0, <<>>, P)
    BY <2>1, <2>2 DEF Spells
  <2>6. Good(0, <<>>, P)
    BY <2>1, <2>2, <2>3, <2>4, <2>5
  <2> HIDE DEF Good
  <2> QED BY <1>2, <2>6
<1>5. ASSUME NEW k \in 1..N, k - 1 \in T PROVE k \in T
  <2>1. PICK W, P : Good(k - 1, W, P)
    BY <1>5
  <2>2. PICK s : s = u[k - 1]
    OBVIOUS
  <2>3. u[k] = Push(s, codes[k])
    BY <1>3, <2>2
  <2>4. codes[k] \in Symbols /\ Len(CodeBits[codes[k]]) <= 25 /\ k \in 1..Len(codes)
    <3>1. k \in 1..Len(codes)
      BY DEF N
    <3> QED BY <3>1, CodableFacts
  <2>5. Carries(s.out, s.pending, W) /\ Len(s.pending) <= 7
    BY <2>1, <2>2
  <2>6. /\ Carries(u[k].out, u[k].pending, W \o CodeBits[codes[k]])
        /\ Len(u[k].pending) <= 7
    BY <2>3, <2>4, <2>5, PushFacts, Zenon
  <2>7. Spells(codes, k - 1, W, P) /\ P[k - 1] = Len(W)
    BY <2>1
  <2>8. PICK Q : /\ Spells(codes, k, W \o CodeBits[codes[k]], Q)
                 /\ Q[k] = Len(W \o CodeBits[codes[k]])
    BY <2>4, <2>7, SpellsNext, Zenon
  <2>9. Good(k, W \o CodeBits[codes[k]], Q)
    BY <2>6, <2>8, Zenon
  <2> HIDE DEF Good
  <2> QED BY <2>9
<1> HIDE DEF T
<1>6. N \in T
  <2>1. \A k \in 0..N : k \in T
    BY <1>2, <1>4, <1>5, UpTo
  <2> QED BY <1>2, <2>1
<1>7. PICK W, P : Good(N, W, P)
  BY <1>6 DEF T
<1>8. PICK out, after : out = u[N].out /\ after = u[N].pending
  OBVIOUS
<1>9. /\ Carries(out, after, W) /\ Len(after) <= 7 /\ Spells(codes, N, W, P) /\ P[N] = Len(W)
      /\ HuffmanEncode(codes) = out \o WholeOctets(PaddedToOctet(after))
  BY <1>3, <1>7, <1>8
<1> HIDE DEF Good
<1>10. /\ W \in Seq(Bits) /\ Len(W) \in Nat /\ after \in Seq(Bits) /\ Len(after) \in Nat
  <2>1. W \in Seq(Bits) /\ after \in Seq(Bits)
    BY <1>9 DEF Carries
  <2> QED BY <2>1
<1> DEFINE m == (8 - (Len(after) % 8)) % 8
           ones == [i \in 1..m |-> 1]
<1>11. m \in Nat /\ m <= 7 /\ (Len(after) + m) % 8 = 0
  BY <1>9, <1>10, Padding
<1>12. ones \in Seq(Bits) /\ Len(ones) = m /\ \A i \in 1..m : ones[i] = 1
  <2> HIDE DEF m
  <2> QED BY <1>11 DEF Bits
<1>13. PICK x : x = after \o ones /\ x = PaddedToOctet(after)
  BY DEF PaddedToOctet
<1> HIDE DEF m, ones
<1>14. PICK octets, B, left : /\ octets = out \o WholeOctets(x) /\ B = W \o ones
                              /\ left = SubSeq(x, 8 * Len(WholeOctets(x)) + 1, Len(x))
  OBVIOUS
<1>15. Carries(octets, left, B) /\ Len(left) = Len(x) % 8 /\ Len(x) = Len(after) + Len(ones)
  <2>1. PICK c : c = ones
    OBVIOUS
  <2>2. c \in Seq(Bits) /\ x = after \o c /\ B = W \o c
    BY <1>12, <1>13, <1>14, <2>1
  <2>3. Carries(out, after, W)
    BY <1>9
  <2>4. PICK whole : whole = WholeOctets(after \o c)
    OBVIOUS
  <2>5. /\ Carries(out \o whole, SubSeq(after \o c, 8 * Len(whole) + 1, Len(after \o c)), W \o c)
        /\ Len(SubSeq(after \o c, 8 * Len(whole) + 1, Len(after \o c))) = Len(after \o c) % 8
        /\ Len(after \o c) = Len(after) + Len(c)
    BY <2>2, <2>3, <2>4, CarriesMore, ZenonT(60)
  <2> QED BY <1>14, <2>1, <2>2, <2>4, <2>5, Zenon
<1>16. Len(left) = 0
  BY <1>11, <1>12, <1>15
<1>17. AllBits(octets) = B
  BY <1>15, <1>16, CarriesAll
<1>18. octets \in Seq(Nat) /\ Len(B) = 8 * Len(octets)
  <2>1. octets \in Seq(Nat) /\ Len(B) = 8 * Len(octets) + Len(left)
    BY <1>15 DEF Carries
  <2>2. Len(octets) \in Nat
    BY <2>1
  <2> QED BY <1>16, <2>1, <2>2
<1>19. Len(B) = Len(W) + m /\ \A i \in 1..m : B[Len(W) + i] = 1
  <2>1. Len(B) = Len(W) + Len(ones) /\ \A i \in 1..Len(ones) : B[Len(W) + i] = ones[i]
    <3>1. PICK c : c = ones
      OBVIOUS
    <3>2. W \in Seq(Bits) /\ c \in Seq(Bits) /\ B = W \o c
      BY <1>10, <1>12, <1>14, <3>1
    <3>3. Len(B) = Len(W) + Len(c) /\ \A i \in 1..Len(c) : B[Len(W) + i] = c[i]
      BY <3>2, ConcatAt
    <3> QED BY <3>1, <3>3, Zenon
  <2> QED BY <1>12, <2>1
<1>20. ASSUME NEW i \in 1..Len(B), i > P[N] PROVE B[i] = 1
  <2>1. PICK j : j = i - Len(W)
    OBVIOUS
  <2>2. j \in 1..m /\ i = Len(W) + j
    BY <1>9, <1>10, <1>11, <1>19, <1>20, <2>1
  <2> QED BY <1>19, <2>2
<1>21. Spells(codes, N, B, P)
  <2>1. N \in 0..Len(codes)
    BY <1>2 DEF N
  <2> QED BY <1>9, <1>12, <1>14, <2>1, SpellsLonger
<1>22. Len(B) <= P[N] + 7
  BY <1>9, <1>10, <1>11, <1>19
<1>23. octets = HuffmanEncode(codes)
  BY <1>9, <1>13, <1>14
<1>24. CodeOf(codes, octets, B, P)
  BY <1>17, <1>18, <1>20, <1>21, <1>22 DEF CodeOf, N
<1> QED BY <1>23, <1>24

\* How far the buffer of huffmanDecode is filled before a code is looked for, and which
\* lengths have a code there.
Top(loaded, n) ==
  LET short == IF loaded < 30 THEN (37 - loaded) \div 8 ELSE 0
  IN IF loaded + 8 * short > n THEN n ELSE loaded + 8 * short
FitsAt(rest, top) == {w \in 5..30 : w <= top /\ SubSeq(rest, 1, w) \in DOMAIN SymbolOf}
After(rest, top, w) ==
  LET left == SubSeq(rest, w + 1, Len(rest))
  IN IF top = Len(rest) /\ \A i \in DOMAIN left : left[i] = 1 THEN <<>> ELSE left

LEMMA Matched ==
  ASSUME NEW s, NEW top, s.ok, s.rest # <<>>, top = Top(s.loaded, Len(s.rest)),
         NEW w, FitsAt(s.rest, top) = {w}
  PROVE  MatchOne(s)
           = [ok |-> TRUE, value |-> Append(s.value, SymbolOf[SubSeq(s.rest, 1, w)]),
              loaded |-> top - w, rest |-> After(s.rest, top, w)]
<1>1. (CHOOSE v \in FitsAt(s.rest, top) : TRUE) = w
  BY Zenon
<1>2. FitsAt(s.rest, top) # {}
  BY Zenon
<1>3. MatchOne(s)
        = LET fits == FitsAt(s.rest, Top(s.loaded, Len(s.rest)))
              v == CHOOSE v \in fits : TRUE
          IN IF ~s.ok \/ s.rest = <<>> THEN s
             ELSE IF fits = {} THEN [s EXCEPT !.ok = FALSE]
             ELSE [ok |-> TRUE, value |-> Append(s.value, SymbolOf[SubSeq(s.rest, 1, v)]),
                   loaded |-> Top(s.loaded, Len(s.rest)) - v,
                   rest |-> After(s.rest, Top(s.loaded, Len(s.rest)), v)]
  BY Zenon DEF MatchOne, FitsAt, After, Top
<1> QED BY <1>1, <1>2, <1>3, Zenon

Topped(n, top) ==
  /\ top \in Nat /\ top <= n /\ (top >= 30 \/ top = n)
  /\ \E r \in Nat : n = top + 8 * r
  /\ n <= 32 => top = n

LEMMA TopFacts ==
  ASSUME NEW loaded \in Nat, NEW q \in Nat
  PROVE  Topped(loaded + 8 * q, Top(loaded, loaded + 8 * q))
<1> DEFINE n == loaded + 8 * q
           short == IF loaded < 30 THEN (37 - loaded) \div 8 ELSE 0
<1>1. short \in Nat /\ loaded + 8 * short >= 30 /\ (loaded < 30 => loaded + 8 * short <= 37)
      /\ n \in Nat
  OBVIOUS
<1>2. Top(loaded, n) = IF loaded + 8 * short > n THEN n ELSE loaded + 8 * short
  BY DEF Top
<1> HIDE DEF short
<1>3. PICK top, m : top = Top(loaded, n) /\ m = n
  OBVIOUS
<1> HIDE DEF n
<1>4. m = loaded + 8 * q /\ m \in Nat /\ top = IF loaded + 8 * short > m THEN m ELSE loaded + 8 * short
  BY <1>1, <1>2, <1>3 DEF n
<1>5. /\ top \in Nat /\ top <= m /\ (top >= 30 \/ top = m)
      /\ \E r \in Nat : m = top + 8 * r
      /\ m <= 32 => top = m
  <2>1. CASE loaded + 8 * short > m
    <3>1. top = m /\ m \in Nat
      BY <1>4, <2>1
    <3>2. 0 \in Nat /\ m = top + 8 * 0 /\ top <= m
      BY <3>1
    <3> QED BY <3>1, <3>2
  <2>2. CASE ~(loaded + 8 * short > m)
    <3>1. PICK r : r = q - short
      OBVIOUS
    <3>2. r \in Nat /\ top = loaded + 8 * short /\ m = top + 8 * r
      BY <1>1, <1>4, <2>2, <3>1
    <3>3. m <= 32 => r = 0
      BY <1>1, <3>2
    <3>4. top \in Nat /\ top <= m /\ top >= 30 /\ (m <= 32 => top = m)
      BY <1>1, <1>4, <3>2, <3>3
    <3> QED BY <3>2, <3>4
  <2> QED BY <2>1, <2>2
<1>6. Topped(m, top)
  BY <1>5, Zenon DEF Topped
<1> QED BY <1>3, <1>6 DEF n

\* The bits of a symbol's code are the first of rest.
Begins(rest, symbol) ==
  /\ rest \in Seq(Bits) /\ symbol \in Symbols /\ Len(CodeBits[symbol]) <= Len(rest)
  /\ \A j \in 1..Len(CodeBits[symbol]) : rest[j] = CodeBits[symbol][j]

LEMMA FirstBits ==
  ASSUME NEW rest \in Seq(Bits), NEW w \in Nat, w <= Len(rest)
  PROVE  /\ SubSeq(rest, 1, w) \in Seq(Bits) /\ Len(SubSeq(rest, 1, w)) = w
         /\ \A j \in 1..w : SubSeq(rest, 1, w)[j] = rest[j]
<1>1. /\ Len(rest) \in Nat /\ \A i \in 1..w : rest[i] \in Bits
  OBVIOUS
<1>2. /\ SubSeq(rest, 1, w) \in Seq(Bits)
      /\ Len(SubSeq(rest, 1, w)) = (IF 1 <= w THEN w - 1 + 1 ELSE 0)
      /\ \A j \in 1..(w - 1 + 1) : SubSeq(rest, 1, w)[j] = rest[1 + j - 1]
  <2>1. 1 \in Int /\ w \in Int
    OBVIOUS
  <2> QED BY <1>1, <2>1, SubSeqProperties
<1>3. Len(SubSeq(rest, 1, w)) = w
  <2>1. (IF 1 <= w THEN w - 1 + 1 ELSE 0) = w
    OBVIOUS
  <2> QED BY <1>2, <2>1
<1>4. ASSUME NEW j \in 1..w PROVE SubSeq(rest, 1, w)[j] = rest[j]
  <2>1. j \in 1..(w - 1 + 1) /\ 1 + j - 1 = j
    OBVIOUS
  <2> QED BY <1>2, <2>1
<1> QED BY <1>2, <1>3, <1>4

LEMMA BitsEqual ==
  ASSUME NEW a \in Seq(Bits), NEW b \in Seq(Bits), Len(a) = Len(b),
         \A j \in 1..Len(a) : a[j] = b[j]
  PROVE  a = b
BY SeqEqual

\* No other length has a code.
LEMMA OneFits ==
  ASSUME NEW rest, NEW symbol, Begins(rest, symbol), NEW top \in Nat,
         Len(CodeBits[symbol]) <= top, top <= Len(rest)
  PROVE  /\ FitsAt(rest, top) = {Len(CodeBits[symbol])}
         /\ SubSeq(rest, 1, Len(CodeBits[symbol])) = CodeBits[symbol]
<1>1. PICK code, v : code = CodeBits[symbol] /\ v = Len(code)
  OBVIOUS
<1>2. /\ rest \in Seq(Bits) /\ symbol \in Symbols /\ v <= Len(rest) /\ Len(rest) \in Nat
      /\ \A j \in 1..v : rest[j] = code[j]
  <2>1. rest \in Seq(Bits)
    BY DEF Begins
  <2>2. Len(rest) \in Nat
    BY <2>1
  <2> QED BY <1>1, <2>1, <2>2 DEF Begins
<1>3. /\ code \in Seq(Bits) /\ v \in Nat /\ v >= 5 /\ v <= 30 /\ code \in DOMAIN SymbolOf
      /\ \A w \in 5..(v - 1) : SubSeq(code, 1, w) \notin DOMAIN SymbolOf
  BY <1>1, <1>2, CodeFacts
<1>4. SubSeq(rest, 1, v) = code
  <2>1. PICK b : b = SubSeq(rest, 1, v)
    OBVIOUS
  <2>2. b \in Seq(Bits) /\ Len(b) = v /\ \A j \in 1..v : b[j] = rest[j]
    BY <1>2, <1>3, <2>1, FirstBits
  <2> QED BY <1>1, <1>2, <1>3, <2>1, <2>2, BitsEqual
<1>5. v \in FitsAt(rest, top)
  <2>1. v \in 5..30 /\ v <= top
    <3>1. v \in Nat /\ v >= 5 /\ v <= 30
      BY <1>3
    <3>2. v \in 5..30
      BY <3>1
    <3> QED BY <1>1, <3>2, Zenon
  <2> QED BY <1>3, <1>4, <2>1 DEF FitsAt
<1>6. ASSUME NEW w \in FitsAt(rest, top) PROVE w = v
  <2>1. w \in 5..30 /\ w <= top /\ SubSeq(rest, 1, w) \in DOMAIN SymbolOf
    BY <1>6 DEF FitsAt
  <2>2. w \in Nat /\ w >= 5 /\ w <= Len(rest)
    BY <1>2, <2>1
  <2>3. PICK b : b = SubSeq(rest, 1, w) /\ b \in Seq(Bits) /\ Len(b) = w
                   /\ \A j \in 1..w : b[j] = rest[j]
    <3>1. PICK d : d = SubSeq(rest, 1, w)
      OBVIOUS
    <3>2. rest \in Seq(Bits) /\ w \in Nat /\ w <= Len(rest)
      BY <1>2, <2>2
    <3>3. d \in Seq(Bits) /\ Len(d) = w /\ \A j \in 1..w : d[j] = rest[j]
      BY <3>1, <3>2, FirstBits
    <3> QED BY <3>1, <3>3
  <2>4. ASSUME w < v PROVE FALSE
    <3>1. PICK c : c = SubSeq(code, 1, w) /\ c \in Seq(Bits) /\ Len(c) = w
                     /\ \A j \in 1..w : c[j] = code[j]
      <4>1. PICK d : d = SubSeq(code, 1, w)
        OBVIOUS
      <4>2. code \in Seq(Bits) /\ w \in Nat /\ w <= Len(code)
        BY <1>1, <1>3, <2>2, <2>4
      <4>3. d \in Seq(Bits) /\ Len(d) = w /\ \A j \in 1..w : d[j] = code[j]
        BY <4>1, <4>2, FirstBits
      <4> QED BY <4>1, <4>3
    <3>2. \A j \in 1..w : b[j] = c[j]
      <4>1. \A j \in 1..w : j \in 1..v
        BY <1>3, <2>2, <2>4
      <4> QED BY <1>2, <2>3, <3>1, <4>1
    <3>3. b = c
      BY <2>3, <3>1, <3>2, BitsEqual
    <3>4. w \in 5..(v - 1)
      BY <1>3, <2>2, <2>4
    <3> QED BY <1>3, <2>1, <2>3, <3>1, <3>3, <3>4
  <2>5. ASSUME w > v PROVE FALSE
    <3>1. PICK t \in Symbols : b = CodeBits[t]
      BY <2>1, <2>3 DEF SymbolOf
    <3>2. \A x \in 5..(w - 1) : SubSeq(b, 1, x) \notin DOMAIN SymbolOf
      BY <2>3, <3>1, CodeFacts
    <3>3. PICK c : c = SubSeq(b, 1, v) /\ c \in Seq(Bits) /\ Len(c) = v
                     /\ \A j \in 1..v : c[j] = b[j]
      <4>1. PICK d : d = SubSeq(b, 1, v)
        OBVIOUS
      <4>2. b \in Seq(Bits) /\ v \in Nat /\ v <= Len(b)
        BY <1>3, <2>2, <2>3, <2>5
      <4>3. d \in Seq(Bits) /\ Len(d) = v /\ \A j \in 1..v : d[j] = b[j]
        BY <4>1, <4>2, FirstBits
      <4> QED BY <4>1, <4>3
    <3>4. \A j \in 1..v : c[j] = code[j]
      <4>1. \A j \in 1..v : j \in 1..w
        BY <1>3, <2>2, <2>5
      <4> QED BY <1>2, <2>3, <3>3, <4>1
    <3>5. c = code
      BY <1>1, <1>3, <3>3, <3>4, BitsEqual
    <3>6. v \in 5..(w - 1)
      BY <1>3, <2>2, <2>5
    <3> QED BY <1>3, <3>2, <3>3, <3>5, <3>6
  <2> QED BY <1>3, <2>2, <2>4, <2>5
<1>7. FitsAt(rest, top) = {v}
  BY <1>5, <1>6
<1> QED BY <1>1, <1>4, <1>7

\* rest is what follows the first p of B.
Suffix(B, p, rest) ==
  /\ rest \in Seq(Bits) /\ Len(rest) \in Nat /\ p + Len(rest) = Len(B)
  /\ \A i \in 1..Len(rest) : rest[i] = B[p + i]

\* What is loaded is some octets short of all of it.
Loaded(s) == s.loaded \in Nat /\ \E q \in Nat : Len(s.rest) = s.loaded + 8 * q

LEMMA SuffixCut ==
  ASSUME NEW B, NEW p \in Nat, NEW rest, Suffix(B, p, rest), NEW w \in Nat, w <= Len(rest)
  PROVE  Suffix(B, p + w, SubSeq(rest, w + 1, Len(rest)))
<1>1. PICK n, left : n = Len(rest) /\ left = SubSeq(rest, w + 1, n)
  OBVIOUS
<1>2. /\ rest \in Seq(Bits) /\ n \in Nat /\ p + n = Len(B) /\ w <= n
      /\ \A i \in 1..n : rest[i] = B[p + i]
  BY <1>1 DEF Suffix
<1>3. /\ left \in Seq(Bits) /\ Len(left) = (IF w + 1 <= n THEN n - (w + 1) + 1 ELSE 0)
      /\ \A i \in 1..(n - (w + 1) + 1) : left[i] = rest[(w + 1) + i - 1]
  <2>1. w + 1 \in Int /\ n \in Int
    BY <1>2
  <2>2. \A i \in 1..n : rest[i] \in Bits
    BY <1>1, <1>2
  <2>3. \A i \in (w + 1)..n : rest[i] \in Bits
    <3>1. \A i \in (w + 1)..n : i \in 1..n
      BY <1>2
    <3> QED BY <2>2, <3>1
  <2>4. PICK v : v = w + 1
    OBVIOUS
  <2> QED BY <1>1, <2>1, <2>3, <2>4, SubSeqProperties
<1>4. Len(left) = n - w /\ Len(left) \in Nat
  <2>1. (IF w + 1 <= n THEN n - (w + 1) + 1 ELSE 0) = n - w /\ n - w \in Nat
    BY <1>2
  <2> QED BY <1>3, <2>1
<1>5. ASSUME NEW i \in 1..(n - w) PROVE left[i] = B[(p + w) + i]
  <2>1. PICK j : j = w + i
    OBVIOUS
  <2>2. i \in 1..(n - (w + 1) + 1) /\ (w + 1) + i - 1 = j /\ j \in 1..n /\ p + j = (p + w) + i
    BY <1>2, <2>1
  <2>3. left[i] = rest[j] /\ rest[j] = B[p + j]
    BY <1>2, <1>3, <2>2
  <2> QED BY <2>2, <2>3
<1>6. (p + w) + Len(left) = Len(B)
  <2>1. PICK m, L : m = Len(left) /\ L = Len(B)
    OBVIOUS
  <2>2. p \in Nat /\ w \in Nat /\ n \in Nat /\ p + n = L /\ m = n - w
    BY <1>2, <1>4, <2>1
  <2>3. (p + w) + m = L
    BY <2>2
  <2> QED BY <2>1, <2>3
<1>7. Suffix(B, p + w, left)
  BY <1>3, <1>4, <1>5, <1>6 DEF Suffix
<1> QED BY <1>1, <1>7

LEMMA MatchNext ==
  ASSUME NEW codes, Codable(codes), NEW octets, NEW B, NEW P, CodeOf(codes, octets, B, P),
         NEW k \in 1..Len(codes), NEW s, s.ok, Suffix(B, P[k - 1], s.rest), Loaded(s)
  PROVE  /\ MatchOne(s).ok /\ MatchOne(s).value = Append(s.value, codes[k])
         /\ k # Len(codes) => Suffix(B, P[k], MatchOne(s).rest) /\ Loaded(MatchOne(s))
         /\ k = Len(codes) => MatchOne(s).rest = <<>>
<1>1. PICK symbol, code, w, rest, n, p :
        /\ symbol = codes[k] /\ code = CodeBits[symbol] /\ w = Len(code)
        /\ rest = s.rest /\ n = Len(rest) /\ p = P[k - 1]
  OBVIOUS
<1>2. /\ symbol \in Symbols /\ w <= 25 /\ w \in Nat /\ w >= 5
  BY <1>1, CodableFacts, CodeFacts
<1>3. Spells(codes, Len(codes), B, P)
  BY DEF CodeOf
<1>4. /\ p \in Nat /\ P[k] = p + w /\ p + w <= Len(B) /\ Len(B) \in Nat
      /\ \A j \in 1..w : B[p + j] = code[j]
  <2>1. k \in 0..Len(codes) /\ k - 1 \in 0..Len(codes)
    OBVIOUS
  <2>2. B \in Seq(Bits)
    BY <1>3 DEF Spells
  <2>3. Len(B) \in Nat
    BY <2>2
  <2> QED BY <1>1, <1>3, <2>1, <2>3 DEF Spells
<1>5. /\ rest \in Seq(Bits) /\ n \in Nat /\ p + n = Len(B) /\ Suffix(B, p, rest)
      /\ \A i \in 1..n : rest[i] = B[p + i]
  BY <1>1 DEF Suffix
<1>6. w <= n
  BY <1>2, <1>4, <1>5
<1>7. Begins(rest, symbol)
  <2>1. ASSUME NEW j \in 1..w PROVE rest[j] = code[j]
    <3>1. j \in 1..n
      BY <1>2, <1>5, <1>6
    <3> QED BY <1>4, <1>5, <3>1
  <2> QED BY <1>1, <1>2, <1>5, <1>6, <2>1 DEF Begins
<1>8. PICK l, q \in Nat : l = s.loaded /\ n = l + 8 * q /\ l \in Nat
  BY <1>1 DEF Loaded
<1>9. PICK top : top = Top(l, n)
  OBVIOUS
<1>10. /\ top \in Nat /\ top <= n /\ (top >= 30 \/ top = n) /\ (n <= 32 => top = n)
       /\ \E r \in Nat : n = top + 8 * r
  <2>1. Topped(l + 8 * q, Top(l, l + 8 * q))
    BY TopFacts, Zenon
  <2>2. Topped(n, top)
    <3>1. n = l + 8 * q
      BY <1>8, Zenon
    <3> QED BY <1>9, <2>1, <3>1, Zenon
  <2> QED BY <2>2, Zenon DEF Topped
<1>11. w <= top
  BY <1>2, <1>6, <1>10
<1>12. FitsAt(rest, top) = {w} /\ SubSeq(rest, 1, w) = code
  BY <1>1, <1>7, <1>10, <1>11, OneFits
<1>13. rest # <<>>
  BY <1>1, <1>2, <1>6
<1>14. MatchOne(s) = [ok |-> TRUE, value |-> Append(s.value, SymbolOf[code]),
                      loaded |-> top - w, rest |-> After(rest, top, w)]
  <2>1. s.rest # <<>> /\ top = Top(s.loaded, Len(s.rest)) /\ FitsAt(s.rest, top) = {w}
    BY <1>1, <1>8, <1>9, <1>12, <1>13, Zenon
  <2>2. MatchOne(s) = [ok |-> TRUE, value |-> Append(s.value, SymbolOf[SubSeq(s.rest, 1, w)]),
                       loaded |-> top - w, rest |-> After(s.rest, top, w)]
    BY <2>1, Matched, Zenon
  <2> QED BY <1>1, <1>12, <2>2, Zenon
<1>15. PICK t, left : t = MatchOne(s) /\ left = SubSeq(rest, w + 1, n)
  OBVIOUS
<1>16. /\ t.ok /\ t.value = Append(s.value, symbol) /\ t.loaded = top - w
       /\ t.rest = After(rest, top, w)
  <2>1. SymbolOf[code] = symbol
    BY <1>1, <1>2, CodeFacts
  <2> QED BY <1>14, <1>15, <2>1
<1>17. Suffix(B, p + w, left)
  BY <1>1, <1>2, <1>4, <1>5, <1>6, <1>15, SuffixCut
<1>18. left \in Seq(Bits) /\ Len(left) = n - w /\ DOMAIN left = 1..Len(left)
       /\ \A i \in 1..Len(left) : left[i] = B[(p + w) + i]
  <2>1. /\ left \in Seq(Bits) /\ Len(left) \in Nat /\ (p + w) + Len(left) = Len(B)
        /\ \A i \in 1..Len(left) : left[i] = B[(p + w) + i]
    BY <1>17 DEF Suffix
  <2>2. Len(left) = n - w
    <3>1. PICK m, L : m = Len(left) /\ L = Len(B)
      OBVIOUS
    <3>2. p \in Nat /\ w \in Nat /\ n \in Nat /\ p + n = L /\ m \in Nat /\ (p + w) + m = L
      BY <1>2, <1>4, <1>5, <2>1, <3>1, Zenon
    <3>3. m = n - w
      BY <3>2
    <3> QED BY <3>1, <3>3
  <2>3. DOMAIN left = 1..Len(left)
    BY <2>1
  <2> QED BY <2>1, <2>2, <2>3
<1>19. t.rest = IF top = n /\ \A i \in 1..Len(left) : left[i] = 1 THEN <<>> ELSE left
  <2>1. After(rest, top, w) = IF top = Len(rest) /\ \A i \in DOMAIN left : left[i] = 1
                                THEN <<>> ELSE left
    BY <1>1, <1>15, Zenon DEF After
  <2>2. DOMAIN left = 1..Len(left)
    BY <1>18
  <2> QED BY <1>1, <1>16, <2>1, <2>2, Zenon
<1>20. ASSUME k # Len(codes) PROVE Suffix(B, P[k], t.rest) /\ Loaded(t)
  <2>1. k + 1 \in 1..Len(codes) /\ (k + 1) - 1 = k /\ k + 1 \in 0..Len(codes)
    BY <1>20
  <2>2. PICK next, more : next = codes[k + 1] /\ more = CodeBits[next]
    OBVIOUS
  <2>3. next \in Symbols /\ next # 256
    BY <2>1, <2>2, CodableFacts
  <2>4. PICK i \in 1..Len(more) : more[i] = 0
    BY <2>2, <2>3, CodeFacts
  <2>5. /\ P[k + 1] = P[k] + Len(more) /\ P[k + 1] <= Len(B) /\ B[P[k] + i] = more[i]
    BY <1>3, <2>1, <2>2 DEF Spells
  <2>6. Len(more) \in Nat
    BY <2>2, <2>3, CodeFacts
  <2>7. i \in 1..Len(left)
    <3>1. PICK m : m = Len(more)
      OBVIOUS
    <3>2. m \in Nat /\ i \in 1..m /\ (p + w) + m <= Len(B)
      BY <1>4, <2>5, <2>6, <3>1
    <3>3. i \in 1..(n - w)
      BY <1>2, <1>4, <1>5, <3>2, SMTT(40)
    <3> QED BY <1>18, <3>3
  <2>8. left[i] = 0
    BY <1>4, <1>18, <2>4, <2>5, <2>7
  <2>9. t.rest = left
    BY <1>19, <2>7, <2>8
  <2>10. Suffix(B, P[k], t.rest)
    BY <1>4, <1>17, <2>9
  <2>11. PICK r \in Nat : n = top + 8 * r
    BY <1>10
  <2>12. Len(t.rest) = t.loaded + 8 * r /\ t.loaded \in Nat
    <3>1. top - w \in Nat /\ n - w = (top - w) + 8 * r
      BY <1>2, <1>10, <1>11, <2>11
    <3> QED BY <1>16, <1>18, <2>9, <3>1
  <2> QED BY <2>10, <2>12 DEF Loaded
<1>21. ASSUME k = Len(codes) PROVE t.rest = <<>>
  <2>1. Len(B) <= P[k] + 7 /\ \A i \in 1..Len(B) : i > P[k] => B[i] = 1
    BY <1>21 DEF CodeOf
  <2>2. n <= 32
    BY <1>2, <1>4, <1>5, <2>1
  <2>3. ASSUME NEW i \in 1..Len(left) PROVE left[i] = 1
    <3>1. PICK j : j = (p + w) + i
      OBVIOUS
    <3>2. j \in 1..Len(B) /\ j > P[k]
      BY <1>2, <1>4, <1>5, <1>18, <3>1
    <3> QED BY <1>18, <2>1, <3>1, <3>2
  <2> QED BY <1>10, <1>19, <2>2, <2>3
<1> QED BY <1>1, <1>15, <1>16, <1>20, <1>21

\* huffmanDecode at the start, with all of the bits still to be matched.
Unmatched(octets) == [ok |-> TRUE, value |-> <<>>, loaded |-> 0, rest |-> AllBits(octets)]

LEMMA DecodeTurns ==
  ASSUME NEW octets, Len(octets) \in Nat
  PROVE  \E u : /\ u[0] = Unmatched(octets)
                /\ \A k \in 1..(2 * Len(octets)) : u[k] = MatchOne(u[k - 1])
                /\ HuffmanDecode(octets) = u[2 * Len(octets)]
<1> DEFINE N == 2 * Len(octets)
           Solution(f, n) ==
             f = [i \in 0..n |-> IF i = 0 THEN Unmatched(octets) ELSE MatchOne(f[i - 1])]
           state == CHOOSE f : Solution(f, N)
           T == {n \in 0..N : \E f : Solution(f, n)}
<1>1. N \in Nat
  OBVIOUS
<1>2. 0 \in T
  <2> DEFINE f == [k \in 0..0 |-> Unmatched(octets)]
  <2>1. Solution(f, 0)
    OBVIOUS
  <2> HIDE DEF Solution, f, N
  <2> QED BY <1>1, <2>1
<1>3. ASSUME NEW n \in 1..N, n - 1 \in T PROVE n \in T
  <2>1. PICK f : Solution(f, n - 1)
    BY <1>3
  <2> DEFINE g == [k \in 0..n |-> IF k = n THEN MatchOne(f[n - 1]) ELSE f[k]]
  <2>2. ASSUME NEW k \in 0..n
        PROVE  g[k] = IF k = 0 THEN Unmatched(octets) ELSE MatchOne(g[k - 1])
    <3>1. f[0] = Unmatched(octets) /\ n # 0
      BY <2>1
    <3>2. CASE k = 0
      BY <3>1, <3>2
    <3>3. CASE k # 0
      <4>1. k - 1 \in 0..n /\ k - 1 # n /\ g[k - 1] = f[k - 1]
        BY <3>3
      <4>2. CASE k = n
        <5>1. g[k] = MatchOne(f[k - 1])
          BY <4>2
        <5> HIDE DEF g
        <5> QED BY <3>3, <4>1, <5>1
      <4>3. CASE k # n
        <5>1. k \in 0..(n - 1) /\ g[k] = f[k]
          BY <4>3
        <5>2. f[k] = MatchOne(f[k - 1])
          BY <2>1, <3>3, <5>1
        <5> HIDE DEF g
        <5> QED BY <3>3, <4>1, <5>1, <5>2
      <4> QED BY <4>2, <4>3
    <3> QED BY <3>2, <3>3
  <2>3. g = [k \in 0..n |-> g[k]]
    OBVIOUS
  <2> HIDE DEF g
  <2>4. Solution(g, n)
    BY <2>2, <2>3
  <2> HIDE DEF Solution
  <2> QED BY <2>4
<1>4. N \in T
  <2> HIDE DEF T, N
  <2>1. \A n \in 0..N : n \in T
    BY <1>1, <1>2, <1>3, UpTo
  <2> QED BY <1>1, <2>1
<1>5. Solution(state, N)
  <2>1. \E f : Solution(f, N)
    BY <1>4
  <2> HIDE DEF Solution, N
  <2> QED BY <2>1
<1>6. HuffmanDecode(octets) = state[N]
  BY DEF HuffmanDecode, Unmatched
<1> HIDE DEF state
<1>7. state[0] = Unmatched(octets)
  BY <1>1, <1>5
<1>8. ASSUME NEW k \in 1..N PROVE state[k] = MatchOne(state[k - 1])
  <2>1. k \in 0..N /\ k # 0
    BY <1>1
  <2> QED BY <1>5, <2>1
<1> QED BY <1>6, <1>7, <1>8

\* Where k codes of at least five bits each end.
LEMMA CodesReach ==
  ASSUME NEW codes, Codable(codes), NEW B, NEW P, Spells(codes, Len(codes), B, P)
  PROVE  5 * Len(codes) <= Len(B)
<1>1. codes \in Seq(0..255)
  BY DEF Codable
<1>2. PICK n, L : n = Len(codes) /\ L = Len(B)
  OBVIOUS
<1>3. n \in Nat
  BY <1>1, <1>2, LenProperties, Zenon
<1>4. P[0] = 0 /\ \A i \in 0..n : P[i] \in Nat /\ P[i] <= L
  BY <1>2 DEF Spells
<1> DEFINE T == {k \in 0..n : P[k] >= 5 * k}
<1>5. 0 \in T
  BY <1>3, <1>4
<1>6. ASSUME NEW k \in 1..n, k - 1 \in T PROVE k \in T
  <2>1. PICK w : w = Len(CodeBits[codes[k]])
    OBVIOUS
  <2>2. codes[k] \in Symbols /\ P[k] = P[k - 1] + w
    BY <1>2, <2>1, CodableFacts DEF Spells
  <2>3. w \in Nat /\ w >= 5
    BY <2>1, <2>2, CodeFacts
  <2>4. PICK p : p = P[k - 1]
    OBVIOUS
  <2>5. p \in Nat /\ p >= 5 * (k - 1) /\ P[k] = p + w
    <3>1. k - 1 \in 0..n
      BY <1>3
    <3> QED BY <1>4, <1>6, <2>2, <2>4, <3>1
  <2>6. p + w >= 5 * k /\ k \in 0..n
    BY <1>3, <2>3, <2>5
  <2> QED BY <2>5, <2>6
<1> HIDE DEF T
<1>7. n \in T
  <2>1. \A k \in 0..n : k \in T
    BY <1>3, <1>5, <1>6, UpTo
  <2> QED BY <1>3, <2>1
<1>8. PICK p : p = P[n]
  OBVIOUS
<1>9. p \in Nat /\ p <= L /\ p >= 5 * n
  <2>1. n \in 0..n
    BY <1>3
  <2> QED BY <1>4, <1>7, <1>8, <2>1 DEF T
<1>10. L \in Nat
  <2>1. B \in Seq(Bits)
    BY DEF Spells
  <2> QED BY <1>2, <2>1, LenProperties, Zenon
<1>11. 5 * n <= L
  BY <1>3, <1>9, <1>10
<1> QED BY <1>2, <1>11

\* A turn with nothing left changes nothing.
LEMMA NothingLeft ==
  ASSUME NEW s, s.rest = <<>>
  PROVE  MatchOne(s) = s
BY Zenon DEF MatchOne

\* After k turns the first k codes have been read.
Read(codes, k, s) == s.ok /\ s.value = [i \in 1..k |-> codes[i]]

LEMMA ReadNext ==
  ASSUME NEW codes \in Seq(0..255), NEW k \in 1..Len(codes), NEW s, NEW t,
         Read(codes, k - 1, s), t.ok, t.value = Append(s.value, codes[k])
  PROVE  Read(codes, k, t)
<1>1. PICK m : m = k - 1
  OBVIOUS
<1>2. m \in Nat /\ k = m + 1 /\ Len(codes) \in Nat /\ m < Len(codes)
  BY <1>1
<1>3. s.value = [i \in 1..m |-> codes[i]]
  BY <1>1 DEF Read
<1>4. PICK v : v = [i \in 1..m |-> codes[i]]
  OBVIOUS
<1>5. v \in Seq(0..255) /\ Len(v) = m /\ \A i \in 1..m : v[i] = codes[i]
  <2>1. \A i \in 1..m : codes[i] \in 0..255
    <3>1. \A i \in 1..m : i \in 1..Len(codes)
      BY <1>2
    <3> QED BY <3>1, ElementOfSeq
  <2> QED BY <1>2, <1>4, <2>1
<1>6. codes[k] \in 0..255
  BY ElementOfSeq
<1>7. PICK a, c : a = Append(v, c) /\ c = codes[k]
  OBVIOUS
<1>8. a = [i \in 1..k |-> codes[i]]
  <2>1. a \in Seq(0..255) /\ Len(a) = k /\ a[k] = c /\ \A i \in 1..m : a[i] = v[i]
    BY <1>2, <1>5, <1>6, <1>7
  <2>2. ASSUME NEW i \in 1..k PROVE a[i] = codes[i]
    BY <1>2, <1>5, <1>7, <2>1
  <2>3. a = [i \in 1..k |-> a[i]]
    BY <2>1
  <2> QED BY <2>2, <2>3
<1>9. t.value = [i \in 1..k |-> codes[i]]
  BY <1>3, <1>4, <1>7, <1>8
<1> QED BY <1>9 DEF Read

\* The bits not read yet, after k turns.
Unread(codes, B, P, k, s) ==
  /\ k # Len(codes) => Suffix(B, P[k], s.rest) /\ Loaded(s)
  /\ k = Len(codes) => s.rest = <<>>

LEMMA NothingRead ==
  ASSUME NEW codes, Codable(codes), NEW octets, NEW B, NEW P, CodeOf(codes, octets, B, P)
  PROVE  Read(codes, 0, Unmatched(octets)) /\ Unread(codes, B, P, 0, Unmatched(octets))
<1>1. PICK s : s = Unmatched(octets)
  OBVIOUS
<1>2. s.ok /\ s.value = <<>> /\ s.loaded = 0 /\ s.rest = B
  BY <1>1 DEF Unmatched, CodeOf
<1>3. Spells(codes, Len(codes), B, P) /\ Len(B) <= P[Len(codes)] + 7 /\ Len(B) = 8 * Len(octets)
      /\ octets \in Seq(Nat)
  BY DEF CodeOf
<1>4. B \in Seq(Bits) /\ P[0] = 0
  BY <1>3 DEF Spells
<1>5. Len(octets) \in Nat /\ Len(B) \in Nat
  BY <1>3, <1>4
<1>6. Read(codes, 0, s)
  BY <1>2 DEF Read
<1>7. ASSUME 0 # Len(codes) PROVE Suffix(B, P[0], s.rest) /\ Loaded(s)
  <2>1. Suffix(B, 0, B)
    <3>1. \A i \in 1..Len(B) : 0 + i = i
      BY <1>5
    <3>2. 0 + Len(B) = Len(B)
      BY <1>5
    <3> QED BY <1>4, <1>5, <3>1, <3>2 DEF Suffix
  <2>2. 0 \in Nat /\ Len(s.rest) = 0 + 8 * Len(octets)
    BY <1>2, <1>3, <1>5
  <2> QED BY <1>2, <1>4, <1>5, <2>1, <2>2 DEF Loaded
<1>8. ASSUME 0 = Len(codes) PROVE s.rest = <<>>
  <2>1. Len(B) <= 7
    BY <1>3, <1>4, <1>5, <1>8
  <2>2. Len(B) = 0
    BY <1>3, <1>5, <2>1
  <2> QED BY <1>2, <1>4, <2>2
<1>9. Unread(codes, B, P, 0, s)
  BY <1>7, <1>8 DEF Unread
<1> QED BY <1>1, <1>6, <1>9

\* string.ts: huffmanDecode reads the octets that huffmanEncode wrote, however many there
\* are, as the text that was coded, provided that no code is longer than 25 bits; with
\* longer ones the accumulator of the encoder overflows.
THEOREM HuffmanRead ==
  ASSUME NEW codes, Codable(codes)
  PROVE  /\ HuffmanEncode(codes) \in Seq(Nat)
         /\ HuffmanDecode(HuffmanEncode(codes)).ok
         /\ HuffmanDecode(HuffmanEncode(codes)).value = codes
<1>1. PICK octets : octets = HuffmanEncode(codes)
  OBVIOUS
<1>2. PICK B, P : CodeOf(codes, octets, B, P)
  BY <1>1, EncodeSpells
<1>3. octets \in Seq(Nat) /\ Len(B) = 8 * Len(octets) /\ Spells(codes, Len(codes), B, P)
  BY <1>2 DEF CodeOf
<1>4. codes \in Seq(0..255)
  BY DEF Codable
<1>5. PICK n, m : n = Len(codes) /\ m = Len(octets)
  OBVIOUS
<1>6. n \in Nat /\ m \in Nat
  BY <1>3, <1>4, <1>5, LenProperties, Zenon
<1>7. n <= 2 * m
  <2>1. 5 * n <= Len(B)
    BY <1>3, <1>5, CodesReach
  <2>2. 5 * n <= 8 * m
    BY <1>3, <1>5, <2>1
  <2> QED BY <1>6, <2>2
<1>8. PICK u : /\ u[0] = Unmatched(octets) /\ \A k \in 1..(2 * m) : u[k] = MatchOne(u[k - 1])
               /\ HuffmanDecode(octets) = u[2 * m]
  BY <1>5, <1>6, DecodeTurns
<1> DEFINE T == {k \in 0..n : Read(codes, k, u[k]) /\ Unread(codes, B, P, k, u[k])}
<1>9. 0 \in T
  <2>1. Read(codes, 0, u[0]) /\ Unread(codes, B, P, 0, u[0])
    BY <1>2, <1>8, NothingRead, Zenon
  <2> QED BY <1>6, <2>1
<1>10. ASSUME NEW k \in 1..n, k - 1 \in T PROVE k \in T
  <2>1. PICK s, t : s = u[k - 1] /\ t = u[k]
    OBVIOUS
  <2>2. t = MatchOne(s)
    <3>1. k \in 1..(2 * m)
      BY <1>6, <1>7
    <3> QED BY <1>8, <2>1, <3>1
  <2>3. Read(codes, k - 1, s) /\ Unread(codes, B, P, k - 1, s)
    BY <1>10, <2>1
  <2>4. k - 1 # Len(codes) /\ k \in 1..Len(codes)
    BY <1>5, <1>6
  <2>5. s.ok /\ Suffix(B, P[k - 1], s.rest) /\ Loaded(s)
    BY <2>3, <2>4 DEF Read, Unread
  <2>6. /\ t.ok /\ t.value = Append(s.value, codes[k])
        /\ k # Len(codes) => Suffix(B, P[k], t.rest) /\ Loaded(t)
        /\ k = Len(codes) => t.rest = <<>>
    <3>1. k \in 1..Len(codes)
      BY <2>4
    <3>2. s.ok
      BY <2>5
    <3>3. Suffix(B, P[k - 1], s.rest) /\ Loaded(s)
      BY <2>5
    <3>4. /\ MatchOne(s).ok /\ MatchOne(s).value = Append(s.value, codes[k])
          /\ k # Len(codes) => Suffix(B, P[k], MatchOne(s).rest) /\ Loaded(MatchOne(s))
          /\ k = Len(codes) => MatchOne(s).rest = <<>>
      BY <1>2, <3>1, <3>2, <3>3, MatchNext
    <3> QED BY <2>2, <3>4, Zenon
  <2>7. Read(codes, k, t)
    BY <1>4, <2>3, <2>4, <2>6, ReadNext
  <2>8. Unread(codes, B, P, k, t)
    BY <2>6, Zenon DEF Unread
  <2>9. k \in 0..n
    BY <1>6
  <2> QED BY <2>1, <2>7, <2>8, <2>9
<1> HIDE DEF T
<1>11. n \in T
  <2>1. \A k \in 0..n : k \in T
    BY <1>6, <1>9, <1>10, UpTo
  <2> QED BY <1>6, <2>1
<1>12. Read(codes, n, u[n]) /\ u[n].rest = <<>>
  <2>1. Read(codes, n, u[n]) /\ Unread(codes, B, P, n, u[n])
    BY <1>11 DEF T
  <2> QED BY <1>5, <2>1, Zenon DEF Unread
<1> DEFINE S == {k \in 0..(2 * m - n) : u[n + k] = u[n]}
<1>13. PICK x : x = 2 * m - n
  OBVIOUS
<1>14. x \in Nat
  BY <1>6, <1>7, <1>13
<1>15. 0 \in S
  BY <1>6, <1>13, <1>14
<1>16. ASSUME NEW k \in 1..x, k - 1 \in S PROVE k \in S
  <2>1. n + k \in 1..(2 * m) /\ (n + k) - 1 = n + (k - 1) /\ k \in 0..x
    BY <1>6, <1>13, <1>14
  <2>2. u[n + (k - 1)] = u[n]
    BY <1>16
  <2>3. u[n + k] = MatchOne(u[n + (k - 1)])
    BY <1>8, <2>1
  <2>4. MatchOne(u[n]) = u[n]
    BY <1>12, NothingLeft
  <2> QED BY <1>13, <2>1, <2>2, <2>3, <2>4
<1> HIDE DEF S
<1>17. x \in S
  <2>1. \A k \in 0..x : k \in S
    BY <1>14, <1>15, <1>16, UpTo
  <2> QED BY <1>14, <2>1
<1>18. HuffmanDecode(octets) = u[n]
  <2>1. n + x = 2 * m
    BY <1>6, <1>13
  <2>2. u[n + x] = u[n]
    BY <1>17 DEF S
  <2> QED BY <1>8, <2>1, <2>2, Zenon
<1>19. [i \in 1..n |-> codes[i]] = codes
  BY <1>4, <1>5
<1> QED BY <1>1, <1>3, <1>12, <1>18, <1>19 DEF Read

\* What the client can send: octets, the Huffman codes of which have 25 bits at most where
\* they are used.
Writable(text, useHuffman) ==
  /\ text \in Texts /\ IsLatin1(text)
  /\ useHuffman => \A i \in DOMAIN CodesOf(text) : Len(CodeBits[CodesOf(text)[i]]) <= 25

LEMMA WritableIsSendable ==
  ASSUME NEW text, NEW useHuffman \in BOOLEAN, Writable(text, useHuffman)
  PROVE  Sendable(text, useHuffman)
<1>1. PICK codes : codes = CodesOf(text)
  OBVIOUS
<1>2. codes \in Seq(Nat) /\ TextOf(codes) = text
  BY <1>1, TextAssumption, Zenon DEF Writable
<1>3. DOMAIN codes = 1..Len(codes) /\ codes \in [1..Len(codes) -> Nat] /\ Len(codes) \in Nat
  BY <1>2
<1>4. codes \in Seq(0..255)
  <2>1. ASSUME NEW i \in 1..Len(codes) PROVE codes[i] \in 0..255
    <3>1. codes[i] <= 255
      BY <1>1, <1>3 DEF Writable, IsLatin1
    <3>2. PICK c : c = codes[i]
      OBVIOUS
    <3>3. c \in Nat /\ c <= 255
      BY <1>3, <3>1, <3>2
    <3>4. c \in 0..255
      BY <3>3
    <3> QED BY <3>2, <3>4
  <2>2. PICK n : n = Len(codes)
    OBVIOUS
  <2>3. n \in Nat /\ codes = [i \in 1..n |-> codes[i]] /\ \A i \in 1..n : codes[i] \in 0..255
    <3>1. codes = [i \in 1..Len(codes) |-> codes[i]]
      BY <1>2
    <3> QED BY <1>3, <2>1, <2>2, <3>1, Zenon
  <2>4. codes \in [1..n -> 0..255]
    BY <2>3
  <2> QED BY <2>3, <2>4
<1>5. ASSUME useHuffman PROVE Codable(codes)
  <2>1. \A i \in 1..Len(codes) : Len(CodeBits[codes[i]]) <= 25
    BY <1>1, <1>3, <1>5, Zenon DEF Writable
  <2> QED BY <1>4, <2>1, Zenon DEF Codable
<1>6. useHuffman => /\ HuffmanEncode(codes) \in Seq(Nat)
                    /\ HuffmanDecode(HuffmanEncode(codes)).ok
                    /\ HuffmanDecode(HuffmanEncode(codes)).value = codes
  BY <1>5, HuffmanRead, Zenon
<1> QED BY <1>1, <1>2, <1>6, Zenon DEF Sendable

-----------------------------------------------------------------------------
\* The representations of a header field, one turn of the decoder's loop each.

\* A flag that is a power of two times what the prefix holds leaves it clear.
LEMMA Flags ==
  /\ Above(128, 7) /\ Above(32, 5) /\ Above(64, 6) /\ Above(0, 4) /\ Above(16, 4)
  /\ MaxPrefix[7] = 127 /\ MaxPrefix[6] = 63 /\ MaxPrefix[5] = 31 /\ MaxPrefix[4] = 15
<1>1. MaxPrefix[7] = 127 /\ MaxPrefix[6] = 63 /\ MaxPrefix[5] = 31 /\ MaxPrefix[4] = 15
  BY DEF MaxPrefix
<1>2. 128 = 1 * (127 + 1) /\ 32 = 1 * (31 + 1) /\ 64 = 1 * (63 + 1) /\ 0 = 0 * (15 + 1)
      /\ 16 = 1 * (15 + 1)
  OBVIOUS
<1> QED BY <1>1, <1>2 DEF Above

LEMMA IndexedTurn ==
  ASSUME NEW buf, NEW s, s.ok, ~(s.next > Len(buf)), buf[s.next] >= 128,
         DecodeInteger(buf, s.next, 7).ok,
         ResolveIndex(DecodeInteger(buf, s.next, 7).value, s.table).ok
  PROVE  DecodeOne(buf, s)
           = [ok |-> TRUE, next |-> DecodeInteger(buf, s.next, 7).next,
              fields |-> Append(s.fields, ResolveIndex(DecodeInteger(buf, s.next, 7).value,
                                                       s.table).entry),
              table |-> s.table]
BY Zenon DEF DecodeOne, Then

LEMMA SizeTurn ==
  ASSUME NEW buf, NEW s, s.ok, ~(s.next > Len(buf)), ~(buf[s.next] >= 128),
         buf[s.next] \in 32..63, DecodeInteger(buf, s.next, 5).ok
  PROVE  DecodeOne(buf, s)
           = [ok |-> TRUE, next |-> DecodeInteger(buf, s.next, 5).next, fields |-> s.fields,
              table |-> SetLimit(s.table, DecodeInteger(buf, s.next, 5).value)]
BY Zenon DEF DecodeOne, Then

LEMMA LiteralTurn ==
  ASSUME NEW buf, NEW s, s.ok, ~(s.next > Len(buf)), ~(buf[s.next] >= 128),
         buf[s.next] \notin 32..63, NEW kind, kind = KindOf(buf[s.next]),
         DecodeLiteral(buf, s.next, kind, s.table).ok
  PROVE  DecodeOne(buf, s)
           = [ok |-> TRUE, next |-> DecodeLiteral(buf, s.next, kind, s.table).next,
              fields |-> Append(s.fields, DecodeLiteral(buf, s.next, kind, s.table).field),
              table |-> IF kind = "incremental"
                          THEN Add(s.table, DecodeLiteral(buf, s.next, kind, s.table).field)
                          ELSE s.table]
BY Zenon DEF DecodeOne, Then

LEMMA NewNameLiteral ==
  ASSUME NEW buf, NEW at, NEW kind, NEW table,
         DecodeInteger(buf, at, Kind[kind].prefix).ok,
         DecodeInteger(buf, at, Kind[kind].prefix).value = 0,
         NEW name, DecodeString(buf, DecodeInteger(buf, at, Kind[kind].prefix).next) = name,
         name.ok, DecodeString(buf, name.next).ok
  PROVE  DecodeLiteral(buf, at, kind, table)
           = [ok |-> TRUE, field |-> <<name.value, DecodeString(buf, name.next).value>>,
              next |-> DecodeString(buf, name.next).next]
BY Zenon DEF DecodeLiteral, Then

LEMMA KnownNameLiteral ==
  ASSUME NEW buf, NEW at, NEW kind, NEW table,
         NEW index, DecodeInteger(buf, at, Kind[kind].prefix) = index, index.ok,
         ~(index.value = 0), ResolveIndex(index.value, table).ok,
         DecodeString(buf, index.next).ok
  PROVE  DecodeLiteral(buf, at, kind, table)
           = [ok |-> TRUE, next |-> DecodeString(buf, index.next).next,
              field |-> <<ResolveIndex(index.value, table).entry[1],
                          DecodeString(buf, index.next).value>>]
BY Zenon DEF DecodeLiteral, Then

\* The decoder's loop, with what it has read, what comes next and its table.
State(at, table, done) == [ok |-> TRUE, next |-> at, table |-> table, fields |-> done]

Resolves(index, table, entry) == ResolveIndex(index, table) = [ok |-> TRUE, entry |-> entry]

\* What the first octet of a representation shows.
LEMMA Shown ==
  /\ \A octet \in 128..(128 + 127) : octet >= 128
  /\ \A octet \in 32..(32 + 31) : ~(octet >= 128) /\ octet \in 32..63
  /\ \A octet \in 64..(64 + 63) :
       ~(octet >= 128) /\ octet \notin 32..63 /\ KindOf(octet) = "incremental"
  /\ \A octet \in 16..(16 + 15) :
       ~(octet >= 128) /\ octet \notin 32..63 /\ KindOf(octet) = "never_indexed"
  /\ \A octet \in 0..(0 + 15) :
       ~(octet >= 128) /\ octet \notin 32..63 /\ KindOf(octet) = "no_indexing"
BY DEF KindOf

\* The loop reads an index as the field that the table has for it.
LEMMA IndexedRead ==
  ASSUME NEW index \in Nat, NEW buf \in Seq(Nat), NEW at \in Nat,
         Occurs(EmitIndexed(index), buf, at),
         NEW table, NEW done, NEW entry, Resolves(index, table, entry)
  PROVE  DecodeOne(buf, State(at, table, done))
           = State(at + Len(EmitIndexed(index)), table, Append(done, entry))
<1> DEFINE s == State(at, table, done)
           next == at + Len(EmitIndexed(index))
<1>1. IntegerAt(index, 7, 128, buf, at)
  <2>1. 7 \in 4..7 /\ Above(128, 7) /\ Occurs(Flagged(EncodeInteger(index, 7), 128), buf, at)
    BY Flags DEF EmitIndexed
  <2> QED BY <2>1, IntegerRead
<1>2. DecodeInteger(buf, at, 7) = [ok |-> TRUE, value |-> index, next |-> next]
  BY <1>1 DEF IntegerAt, EmitIndexed
<1>3. ~(at > Len(buf)) /\ buf[at] >= 128
  BY <1>1, Flags, Shown, Zenon DEF IntegerAt
<1> HIDE DEF next
<1>4. s.ok /\ s.next = at /\ s.table = table /\ s.fields = done
  BY DEF State
<1> HIDE DEF s
<1>5. ~(s.next > Len(buf)) /\ buf[s.next] >= 128
  BY <1>3, <1>4, Zenon
<1>6. /\ DecodeInteger(buf, s.next, 7).ok /\ DecodeInteger(buf, s.next, 7).next = next
      /\ ResolveIndex(DecodeInteger(buf, s.next, 7).value, s.table).ok
      /\ ResolveIndex(DecodeInteger(buf, s.next, 7).value, s.table).entry = entry
  BY <1>2, <1>4 DEF Resolves
<1>7. DecodeOne(buf, s)
        = [ok |-> TRUE, next |-> DecodeInteger(buf, s.next, 7).next,
           fields |-> Append(s.fields, ResolveIndex(DecodeInteger(buf, s.next, 7).value,
                                                    s.table).entry),
           table |-> s.table]
  BY <1>4, <1>5, <1>6, IndexedTurn, Zenon
<1>8. DecodeOne(buf, s) = State(next, table, Append(done, entry))
  BY <1>4, <1>6, <1>7, Zenon DEF State
<1> QED BY <1>8 DEF s, next

\* The loop reads a size update as that of its table.
LEMMA SizeUpdateRead ==
  ASSUME NEW size \in Nat, NEW buf \in Seq(Nat), NEW at \in Nat,
         Occurs(EncodeSizeUpdate(size), buf, at), NEW table, NEW done
  PROVE  DecodeOne(buf, State(at, table, done))
           = State(at + Len(EncodeSizeUpdate(size)), SetLimit(table, size), done)
<1> DEFINE s == State(at, table, done)
           next == at + Len(EncodeSizeUpdate(size))
<1>1. IntegerAt(size, 5, 32, buf, at)
  <2>1. 5 \in 4..7 /\ Above(32, 5) /\ Occurs(Flagged(EncodeInteger(size, 5), 32), buf, at)
    BY Flags DEF EncodeSizeUpdate
  <2> QED BY <2>1, IntegerRead
<1>2. DecodeInteger(buf, at, 5) = [ok |-> TRUE, value |-> size, next |-> next]
  BY <1>1 DEF IntegerAt, EncodeSizeUpdate
<1>3. ~(at > Len(buf)) /\ ~(buf[at] >= 128) /\ buf[at] \in 32..63
  BY <1>1, Flags, Shown, Zenon DEF IntegerAt
<1> HIDE DEF next
<1>4. s.ok /\ s.next = at /\ s.table = table /\ s.fields = done
  BY DEF State
<1> HIDE DEF s
<1>5. ~(s.next > Len(buf)) /\ ~(buf[s.next] >= 128) /\ buf[s.next] \in 32..63
  BY <1>3, <1>4, Zenon
<1>6. /\ DecodeInteger(buf, s.next, 5).ok /\ DecodeInteger(buf, s.next, 5).next = next
      /\ DecodeInteger(buf, s.next, 5).value = size
  BY <1>2, <1>4
<1>7. DecodeOne(buf, s)
        = [ok |-> TRUE, next |-> DecodeInteger(buf, s.next, 5).next, fields |-> s.fields,
           table |-> SetLimit(s.table, DecodeInteger(buf, s.next, 5).value)]
  BY <1>4, <1>5, <1>6, SizeTurn, Zenon
<1>8. DecodeOne(buf, s) = State(next, SetLimit(table, size), done)
  BY <1>4, <1>6, <1>7, Zenon DEF State
<1> QED BY <1>8 DEF s, next

LEMMA IndexOctets ==
  ASSUME NEW v \in Nat, NEW p \in 4..7, NEW flag \in Nat
  PROVE  Flagged(EncodeInteger(v, p), flag) \in Seq(Nat)
<1>1. PICK e : e = Flagged(EncodeInteger(v, p), flag)
  OBVIOUS
<1>2. Written(e, v, MaxPrefix[p], flag)
  BY <1>1, IntegerOctets
<1> QED BY <1>1, <1>2, Zenon DEF Written

LEMMA TextOctets ==
  ASSUME NEW text, NEW useHuffman \in BOOLEAN, Sendable(text, useHuffman)
  PROVE  EncodeString(text, useHuffman) \in Seq(Nat)
<1>1. PICK a, b : a = Length(text, useHuffman) /\ b = Coded(text, useHuffman)
  OBVIOUS
<1>2. a \in Seq(Nat) /\ b \in Seq(Nat) /\ EncodeString(text, useHuffman) = a \o b
  BY <1>1, StringOctets
<1> QED BY <1>2

Kinds == {"incremental", "no_indexing", "never_indexed"}

\* A literal's entry in the table of who reads it.
Extend(kind, table, e) == IF kind = "incremental" THEN Add(table, e) ELSE table

\* What a literal's name must be: text to be sent, or known to the table.
NameKnown(nameIndex, name, useHuffman, table) ==
  IF nameIndex = 0 THEN Sendable(name, useHuffman)
  ELSE \E entry : Resolves(nameIndex, table, entry) /\ entry[1] = name

\* The loop's turn on a literal.
LiteralAt(kind, nameIndex, name, value, useHuffman, buf, at, table, done) ==
  DecodeOne(buf, State(at, table, done))
    = State(at + Len(EmitLiteral(kind, nameIndex, name, value, useHuffman)),
            Extend(kind, table, <<name, value>>), Append(done, <<name, value>>))

\* The loop reads a literal of any kind as the field it was made from, and adds that to
\* its table if it is to be indexed.
LEMMA LiteralRead ==
  ASSUME NEW kind \in Kinds, NEW nameIndex \in Nat, NEW name, NEW value,
         NEW useHuffman \in BOOLEAN, Sendable(value, useHuffman),
         NEW buf \in Seq(Nat), NEW at \in Nat,
         Occurs(EmitLiteral(kind, nameIndex, name, value, useHuffman), buf, at),
         NEW table, NEW done, NameKnown(nameIndex, name, useHuffman, table)
  PROVE  LiteralAt(kind, nameIndex, name, value, useHuffman, buf, at, table, done)
<1> DEFINE p == Kind[kind].prefix
           flag == Kind[kind].flag
           index == Flagged(EncodeInteger(nameIndex, p), flag)
           called == IF nameIndex = 0 THEN EncodeString(name, useHuffman) ELSE <<>>
           valued == EncodeString(value, useHuffman)
           whole == EmitLiteral(kind, nameIndex, name, value, useHuffman)
<1>1. /\ kind = "incremental" => p = 6 /\ flag = 64
      /\ kind = "no_indexing" => p = 4 /\ flag = 0
      /\ kind = "never_indexed" => p = 4 /\ flag = 16
  BY DEF Kind
<1>2. p \in 4..7 /\ flag \in Nat /\ Above(flag, p)
  <2>1. (p = 6 /\ flag = 64) \/ (p = 4 /\ flag = 0) \/ (p = 4 /\ flag = 16)
    BY <1>1 DEF Kinds
  <2> HIDE DEF p, flag
  <2>2. p \in 4..7 /\ flag \in Nat
    BY <2>1
  <2>3. Above(flag, p)
    BY <2>1, Flags
  <2> QED BY <2>2, <2>3
<1> HIDE DEF p, flag
<1>3. index \in Seq(Nat) /\ valued \in Seq(Nat) /\ called \in Seq(Nat)
  <2>1. index \in Seq(Nat)
    BY <1>2, IndexOctets
  <2>2. valued \in Seq(Nat)
    BY TextOctets
  <2>3. called \in Seq(Nat)
    BY TextOctets DEF NameKnown
  <2> QED BY <2>1, <2>2, <2>3
<1>4. whole = (index \o called) \o valued
  BY DEF EmitLiteral, p, flag
<1>5. IntegerAt(nameIndex, p, flag, buf, at)
      /\ Occurs(called, buf, at + Len(index)) /\ Occurs(valued, buf, at + Len(index \o called))
  <2> HIDE DEF index, called, valued
  <2>1. index \o called \in Seq(Nat)
    BY <1>3
  <2>2. Occurs((index \o called) \o valued, buf, at)
    BY <1>4
  <2>3. Occurs(index \o called, buf, at) /\ Occurs(valued, buf, at + Len(index \o called))
    BY <1>3, <2>1, <2>2, OccursParts
  <2>4. Occurs(index, buf, at) /\ Occurs(called, buf, at + Len(index))
    BY <1>3, <2>3, OccursParts
  <2>5. IntegerAt(nameIndex, p, flag, buf, at)
    <3>1. Occurs(Flagged(EncodeInteger(nameIndex, p), flag), buf, at)
      BY <2>4 DEF index
    <3> QED BY <1>2, <3>1, IntegerRead
  <2> QED BY <2>3, <2>4, <2>5
<1> DEFINE named == at + Len(index)
           from == named + Len(called)
           next == from + Len(valued)
<1>6. /\ at + Len(index \o called) = from /\ at + Len(whole) = next
      /\ named \in Nat /\ from \in Nat /\ next \in Nat
  <2> HIDE DEF index, called, valued, whole
  <2> QED BY <1>3, <1>4
<1>7. DecodeInteger(buf, at, p) = [ok |-> TRUE, value |-> nameIndex, next |-> named]
  BY <1>5 DEF IntegerAt, index
<1>8. ~(at > Len(buf)) /\ buf[at] \in flag..(flag + MaxPrefix[p])
  BY <1>5, Zenon DEF IntegerAt
<1> HIDE DEF next, whole
<1>9. DecodeString(buf, from) = [ok |-> TRUE, value |-> value, next |-> next]
  <2>1. Occurs(EncodeString(value, useHuffman), buf, from)
    BY <1>5, <1>6
  <2> HIDE DEF from
  <2>2. DecodeString(buf, from)
          = [ok |-> TRUE, value |-> value, next |-> from + Len(EncodeString(value, useHuffman))]
    BY <1>6, <2>1, StringRead
  <2> QED BY <2>2 DEF next, valued
<1>10. DecodeLiteral(buf, at, kind, table)
         = [ok |-> TRUE, field |-> <<name, value>>, next |-> next]
  <2>1. CASE nameIndex = 0
    <3>1. DecodeString(buf, named) = [ok |-> TRUE, value |-> name, next |-> from]
      <4>1. Occurs(EncodeString(name, useHuffman), buf, named) /\ Sendable(name, useHuffman)
            /\ called = EncodeString(name, useHuffman)
        BY <1>5, <2>1 DEF NameKnown
      <4> HIDE DEF named
      <4>2. DecodeString(buf, named)
              = [ok |-> TRUE, value |-> name, next |-> named + Len(EncodeString(name, useHuffman))]
        BY <1>6, <4>1, StringRead
      <4> QED BY <4>1, <4>2
    <3> HIDE DEF named, from
    <3>2. PICK r : DecodeString(buf, DecodeInteger(buf, at, Kind[kind].prefix).next) = r
                   /\ r = [ok |-> TRUE, value |-> name, next |-> from]
      BY <1>7, <3>1 DEF p
    <3>3. /\ DecodeInteger(buf, at, Kind[kind].prefix).ok
          /\ DecodeInteger(buf, at, Kind[kind].prefix).value = 0
      BY <1>7, <2>1 DEF p
    <3>4. r.ok /\ DecodeString(buf, r.next).ok /\ r.value = name
          /\ DecodeString(buf, r.next).value = value /\ DecodeString(buf, r.next).next = next
      BY <1>9, <3>2
    <3>5. DecodeLiteral(buf, at, kind, table)
           = [ok |-> TRUE, field |-> <<r.value, DecodeString(buf, r.next).value>>,
              next |-> DecodeString(buf, r.next).next]
      BY <3>2, <3>3, <3>4, NewNameLiteral, ZenonT(60)
    <3> QED BY <3>4, <3>5, Zenon
  <2>2. CASE nameIndex # 0
    <3>1. PICK entry : Resolves(nameIndex, table, entry) /\ entry[1] = name
      BY <2>2 DEF NameKnown
    <3>2. named = from
      <4>1. Len(called) = 0
        BY <2>2
      <4> HIDE DEF called, named
      <4> QED BY <1>6, <4>1
    <3> HIDE DEF named, from
    <3>3. PICK r : DecodeInteger(buf, at, Kind[kind].prefix) = r
                   /\ r = [ok |-> TRUE, value |-> nameIndex, next |-> from]
      BY <1>7, <3>2 DEF p
    <3>4. /\ r.ok /\ ~(r.value = 0) /\ ResolveIndex(r.value, table).ok
          /\ ResolveIndex(r.value, table).entry = entry
          /\ DecodeString(buf, r.next).ok /\ DecodeString(buf, r.next).value = value
          /\ DecodeString(buf, r.next).next = next
      BY <1>9, <2>2, <3>1, <3>3 DEF Resolves
    <3>5. DecodeLiteral(buf, at, kind, table)
           = [ok |-> TRUE, next |-> DecodeString(buf, r.next).next,
              field |-> <<ResolveIndex(r.value, table).entry[1], DecodeString(buf, r.next).value>>]
      BY <3>3, <3>4, KnownNameLiteral, SMTT(40)
    <3>6. DecodeLiteral(buf, at, kind, table)
            = [ok |-> TRUE, next |-> next, field |-> <<name, value>>]
      BY <3>1, <3>4, <3>5, Zenon
    <3> QED BY <3>6
  <2> QED BY <2>1, <2>2
<1> DEFINE s == State(at, table, done)
<1>11. s.ok /\ s.next = at /\ s.table = table /\ s.fields = done
  BY DEF State
<1> HIDE DEF s
<1>12. ~(buf[at] >= 128) /\ buf[at] \notin 32..63 /\ kind = KindOf(buf[at])
  <2>1. CASE kind = "incremental"
    <3>1. buf[at] \in 64..(64 + 63)
      BY <1>1, <1>8, <2>1, Flags, Zenon
    <3> QED BY <2>1, <3>1, Shown, ZenonT(60)
  <2>2. CASE kind = "never_indexed"
    <3>1. buf[at] \in 16..(16 + 15)
      BY <1>1, <1>8, <2>2, Flags, Zenon
    <3> QED BY <2>2, <3>1, Shown, ZenonT(60)
  <2>3. CASE kind = "no_indexing"
    <3>1. buf[at] \in 0..(0 + 15)
      BY <1>1, <1>8, <2>3, Flags, Zenon
    <3> QED BY <2>3, <3>1, Shown, ZenonT(60)
  <2> QED BY <2>1, <2>2, <2>3 DEF Kinds
<1>13. ~(s.next > Len(buf)) /\ DecodeLiteral(buf, s.next, kind, s.table).ok
       /\ ~(buf[s.next] >= 128) /\ buf[s.next] \notin 32..63 /\ kind = KindOf(buf[s.next])
  <2>1. ~(at > Len(buf)) /\ DecodeLiteral(buf, at, kind, table).ok
    BY <1>8, <1>10
  <2> QED BY <1>11, <1>12, <2>1, Zenon
<1>14. PICK r : r = DecodeLiteral(buf, s.next, kind, s.table)
  OBVIOUS
<1>15. DecodeOne(buf, s)
         = [ok |-> TRUE, next |-> r.next, fields |-> Append(s.fields, r.field),
            table |-> IF kind = "incremental" THEN Add(s.table, r.field) ELSE s.table]
  BY <1>11, <1>13, <1>14, LiteralTurn, Zenon
<1>16. r.next = next /\ r.field = <<name, value>>
  BY <1>10, <1>11, <1>14
<1>17. DecodeOne(buf, s)
         = State(next, Extend(kind, table, <<name, value>>), Append(done, <<name, value>>))
  BY <1>11, <1>15, <1>16, Zenon DEF State, Extend
<1>18. next = at + Len(whole)
  BY <1>6
<1> QED BY <1>17, <1>18 DEF s, whole, LiteralAt

-----------------------------------------------------------------------------
\* The dynamic tables.  An entry is a name and a value.
Entries == Texts \X Texts

LEMMA GreatestElement ==
  ASSUME NEW N \in Nat, NEW T, T \subseteq 0..N, T # {}
  PROVE  \E n \in T : \A m \in T : m <= n
<1> DEFINE Rest == {N - n : n \in T}
<1>1. Rest \subseteq Nat /\ Rest # {}
  <2>1. \A n \in T : n \in Int /\ n <= N
    OBVIOUS
  <2>2. \A n \in T : N - n \in Nat
    BY <2>1
  <2> QED BY <2>2
<1>2. PICK r \in Rest : \A x \in Rest : r <= x
  <2> HIDE DEF Rest
  <2> QED BY <1>1, LeastElement
<1>3. PICK n \in T : r = N - n
  OBVIOUS
<1>4. ASSUME NEW m \in T PROVE m <= n
  <2>1. N - m \in Rest /\ m \in 0..N /\ n \in 0..N
    OBVIOUS
  <2>2. r <= N - m
    BY <1>2, <2>1
  <2> QED BY <1>3, <2>1, <2>2
<1> QED BY <1>4

LEMMA EntrySizes ==
  ASSUME NEW e \in Entries
  PROVE  EntrySize(e) \in Nat
<1>1. e[1] \in Texts /\ e[2] \in Texts
  BY DEF Entries
<1>2. CodesOf(e[1]) \in Seq(Nat) /\ CodesOf(e[2]) \in Seq(Nat)
  BY <1>1, TextAssumption
<1>3. Len(CodesOf(e[1])) \in Nat /\ Len(CodesOf(e[2])) \in Nat
  BY <1>2
<1> QED BY <1>3 DEF EntrySize

\* How large the first k of s are.
Sums(u, s) == u[0] = 0 /\ \A k \in 1..Len(s) : u[k] = u[k - 1] + EntrySize(s[k])

LEMMA SizeEquation ==
  ASSUME NEW s \in Seq(Entries)
  PROVE  \E u \in [0..Len(s) -> Nat] : Sums(u, s) /\ Size(s) = u[Len(s)]
<1> DEFINE N == Len(s)
           Solution(f) == f = [i \in 0..N |-> IF i = 0 THEN 0 ELSE f[i - 1] + EntrySize(s[i])]
           upTo == CHOOSE f : Solution(f)
           V == Nat
           step == [p \in (1..N) \X V |-> p[2] + EntrySize(s[p[1]])]
<1>1. N \in Nat /\ 0 \in V /\ \A i \in 1..N : s[i] \in Entries
  OBVIOUS
<1>2. \A i \in 1..N : EntrySize(s[i]) \in Nat
  BY <1>1, EntrySizes
<1>3. step \in Steps(N, V) /\ \A k \in 1..N, c \in V : step[<<k, c>>] = c + EntrySize(s[k])
  <2> HIDE DEF N
  <2>1. \A p \in (1..N) \X V : p[2] + EntrySize(s[p[1]]) \in V
    BY <1>2
  <2> HIDE DEF V
  <2> QED BY <2>1 DEF Steps
<1>4. PICK h \in [0..N -> V] : h[0] = 0 /\ \A k \in 1..N : h[k] = step[<<k, h[k - 1]>>]
  <2> HIDE DEF step, V, N
  <2> QED BY <1>1, <1>3, RecursionExists
<1>5. ASSUME NEW k \in 1..N PROVE h[k] = h[k - 1] + EntrySize(s[k])
  <2> HIDE DEF N, V, step
  <2>1. k - 1 \in 0..N
    BY <1>1
  <2>2. h[k - 1] \in V
    BY <2>1
  <2> QED BY <1>3, <1>4, <2>2
<1>6. Solution(h)
  <2> HIDE DEF N, step
  <2>1. h = [i \in 0..N |-> h[i]] /\ \A i \in 0..N : i # 0 => i \in 1..N
    BY <1>1
  <2> QED BY <1>4, <1>5, <2>1
<1>7. Solution(upTo)
  <2> HIDE DEF Solution
  <2> QED BY <1>6
<1>8. Size(s) = upTo[N]
  BY DEF Size, upTo
<1> HIDE DEF upTo, step
<1>9. upTo[0] = 0 /\ \A k \in 1..N : upTo[k] = upTo[k - 1] + EntrySize(s[k])
  <2> HIDE DEF N
  <2>1. 0 \in 0..N /\ \A k \in 1..N : k \in 0..N /\ k # 0
    BY <1>1
  <2> QED BY <1>7, <2>1
<1>10. ASSUME NEW k \in 0..N PROVE upTo[k] = h[k]
  <2> DEFINE T == {i \in 0..N : upTo[i] = h[i]}
  <2>1. 0 \in T
    BY <1>1, <1>4, <1>9
  <2>2. ASSUME NEW i \in 1..N, i - 1 \in T PROVE i \in T
    BY <1>5, <1>9, <2>2
  <2> HIDE DEF T, N
  <2>3. \A i \in 0..N : i \in T
    BY <1>1, <2>1, <2>2, UpTo
  <2> QED BY <2>3 DEF T
<1>11. Sums(h, s) /\ Size(s) = h[N] /\ h \in [0..N -> Nat]
  BY <1>1, <1>4, <1>5, <1>8, <1>10 DEF Sums
<1> QED BY <1>11

\* The size of the first n entries is no less for a greater n.
LEMMA SizeGrows ==
  ASSUME NEW s \in Seq(Entries)
  PROVE  \A n \in 0..Len(s) :
           /\ Size(SubSeq(s, 1, n)) \in Nat
           /\ \A m \in 0..n : Size(SubSeq(s, 1, m)) <= Size(SubSeq(s, 1, n))
<1> DEFINE N == Len(s)
<1>1. PICK u \in [0..N -> Nat] : Sums(u, s)
  BY SizeEquation
<1>2. ASSUME NEW n \in 0..N PROVE Size(SubSeq(s, 1, n)) = u[n]
  <2> DEFINE t == SubSeq(s, 1, n)
  <2>1. t \in Seq(Entries) /\ Len(t) = n /\ (\A i \in 1..n : t[i] = s[i])
        /\ n \in Nat /\ N \in Nat /\ n <= N
    OBVIOUS
  <2> HIDE DEF t
  <2>2. PICK v \in [0..n -> Nat] : Sums(v, t) /\ Size(t) = v[n]
    BY <2>1, SizeEquation
  <2> DEFINE T == {i \in 0..n : v[i] = u[i]}
  <2>3. 0 \in T
    BY <1>1, <2>1, <2>2 DEF Sums
  <2>4. ASSUME NEW i \in 1..n, i - 1 \in T PROVE i \in T
    <3>1. i \in 1..N /\ i \in 1..Len(t) /\ v[i - 1] = u[i - 1] /\ t[i] = s[i] /\ i \in 0..n
      BY <2>1, <2>4
    <3>2. v[i] = v[i - 1] + EntrySize(t[i])
      BY <2>2, <3>1 DEF Sums
    <3>3. u[i] = u[i - 1] + EntrySize(s[i])
      BY <1>1, <3>1 DEF Sums
    <3> QED BY <3>1, <3>2, <3>3
  <2> HIDE DEF T
  <2>5. \A i \in 0..n : i \in T
    BY <2>1, <2>3, <2>4, UpTo
  <2>6. n \in T
    BY <2>1, <2>5
  <2> QED BY <2>2, <2>6 DEF T, t
<1>3. ASSUME NEW k \in 1..N PROVE u[k - 1] <= u[k]
  <2>1. s[k] \in Entries /\ k - 1 \in 0..N /\ k \in 0..N
    OBVIOUS
  <2>2. EntrySize(s[k]) \in Nat
    BY <2>1, EntrySizes
  <2>3. u[k] = u[k - 1] + EntrySize(s[k])
    BY <1>1 DEF Sums
  <2>4. u[k - 1] \in Nat /\ u[k] \in Nat
    BY <2>1
  <2> QED BY <2>2, <2>3, <2>4
<1>4. \A n \in 0..N : \A m \in 0..n : u[m] <= u[n]
  <2> DEFINE T == {n \in 0..N : \A m \in 0..n : u[m] <= u[n]}
  <2>1. 0 \in T
    BY <1>1
  <2>2. ASSUME NEW n \in 1..N, n - 1 \in T PROVE n \in T
    <3>1. u[n - 1] <= u[n] /\ n - 1 \in 0..N /\ n \in 0..N
      BY <1>3
    <3>2. \A m \in 0..(n - 1) : u[m] <= u[n - 1]
      BY <2>2
    <3>3. ASSUME NEW m \in 0..n PROVE u[m] <= u[n]
      <4>1. u[m] \in Nat /\ u[n] \in Nat /\ u[n - 1] \in Nat
        BY <3>1
      <4>2. CASE m = n
        BY <4>1, <4>2
      <4>3. CASE m # n
        <5>1. m \in 0..(n - 1)
          BY <4>3
        <5>2. u[m] <= u[n - 1]
          BY <3>2, <5>1
        <5> QED BY <3>1, <4>1, <5>2
      <4> QED BY <4>2, <4>3
    <3> QED BY <3>1, <3>3
  <2>3. N \in Nat
    OBVIOUS
  <2> HIDE DEF T, N
  <2>4. \A n \in 0..N : n \in T
    BY <2>1, <2>2, <2>3, UpTo
  <2> QED BY <2>4 DEF T
<1>5. ASSUME NEW n \in 0..N
      PROVE  Size(SubSeq(s, 1, n)) \in Nat
             /\ \A m \in 0..n : Size(SubSeq(s, 1, m)) <= Size(SubSeq(s, 1, n))
  <2>1. \A m \in 0..n : m \in 0..N
    OBVIOUS
  <2>2. u[n] \in Nat
    OBVIOUS
  <2> QED BY <1>2, <1>4, <2>1, <2>2
<1> QED BY <1>5

LEMMA EmptySize == Size(<<>>) = 0
<1>1. <<>> \in Seq(Entries) /\ Len(<<>>) = 0
  OBVIOUS
<1> QED BY <1>1, SizeEquation DEF Sums

LEMMA Prefix ==
  ASSUME NEW s \in Seq(Entries), NEW n \in 0..Len(s)
  PROVE  /\ SubSeq(s, 1, n) \in Seq(Entries) /\ Len(SubSeq(s, 1, n)) = n
         /\ \A i \in 1..n : SubSeq(s, 1, n)[i] = s[i]
OBVIOUS

\* What the peer keeps fits.
LEMMA FittingKeeps ==
  ASSUME NEW s \in Seq(Entries), NEW size \in Nat
  PROVE  \E n \in 0..Len(s) : Fitting(s, size) = SubSeq(s, 1, n) /\ Size(SubSeq(s, 1, n)) <= size
<1> DEFINE fit == {n \in 0..Len(s) : Size(SubSeq(s, 1, n)) <= size}
           best == CHOOSE n \in fit : \A m \in fit : m <= n
<1>1. fit \subseteq 0..Len(s) /\ Len(s) \in Nat
  OBVIOUS
<1>2. 0 \in fit
  <2>1. SubSeq(s, 1, 0) = <<>> /\ 0 \in 0..Len(s)
    BY <1>1
  <2>2. Size(SubSeq(s, 1, 0)) = 0
    BY <2>1, EmptySize, Zenon
  <2> QED BY <2>1, <2>2
<1>3. best \in fit
  <2> HIDE DEF fit
  <2>1. \E n \in fit : \A m \in fit : m <= n
    BY <1>1, <1>2, GreatestElement
  <2> QED BY <2>1
<1>4. Fitting(s, size) = SubSeq(s, 1, best)
  BY DEF Fitting
<1> HIDE DEF best
<1> QED BY <1>3, <1>4

\* What evictToFit drops does not fit.
LEMMA EvictDrops ==
  ASSUME NEW s \in Seq(Entries), NEW budget \in Nat
  PROVE  \E n \in 0..Len(s) : EvictToFit(s, budget) = SubSeq(s, 1, n)
           /\ \A m \in (n + 1)..Len(s) : Size(SubSeq(s, 1, m)) > budget
<1> DEFINE N == Len(s)
           fit == {n \in 0..N : Size(SubSeq(s, 1, n)) <= budget}
           Keep(n) == /\ n > 0 => Size(SubSeq(s, 1, n)) <= budget
                      /\ \A m \in (n + 1)..N : Size(SubSeq(s, 1, m)) > budget
           kept == CHOOSE n \in 0..N : Keep(n)
<1>1. fit \subseteq 0..N /\ N \in Nat
  OBVIOUS
<1>2. 0 \in fit
  <2>1. SubSeq(s, 1, 0) = <<>> /\ 0 \in 0..N
    BY <1>1
  <2>2. Size(SubSeq(s, 1, 0)) = 0
    BY <2>1, EmptySize, Zenon
  <2> QED BY <2>1, <2>2
<1>3. PICK n \in fit : \A m \in fit : m <= n
  <2> HIDE DEF fit, N
  <2> QED BY <1>1, <1>2, GreatestElement
<1>4. Keep(n)
  <2>1. n \in 0..N /\ Size(SubSeq(s, 1, n)) <= budget
    OBVIOUS
  <2>2. ASSUME NEW m \in (n + 1)..N PROVE Size(SubSeq(s, 1, m)) > budget
    <3>1. m \in 0..N /\ ~(m <= n)
      BY <1>1, <2>1
    <3>2. Size(SubSeq(s, 1, m)) \in Nat
      BY <3>1, SizeGrows
    <3>3. ~(Size(SubSeq(s, 1, m)) <= budget)
      BY <1>3, <3>1
    <3> QED BY <3>2, <3>3
  <2> QED BY <2>1, <2>2
<1>5. kept \in 0..N /\ Keep(kept)
  <2> HIDE DEF Keep
  <2> QED BY <1>4
<1>6. EvictToFit(s, budget) = SubSeq(s, 1, kept)
  BY DEF EvictToFit
<1> HIDE DEF kept
<1> QED BY <1>5, <1>6

-----------------------------------------------------------------------------
\* The decoder's loop: its state after k turns on buf is s.
Begin == State(1, NewTable, <<>>)

Turns(buf, k, s) ==
  \E u : u[0] = Begin /\ u[k] = s /\ \A i \in 1..k : u[i] = DecodeOne(buf, u[i - 1])

LEMMA NoTurn == \A buf : Turns(buf, 0, Begin)
<1>1. [i \in 0..0 |-> Begin][0] = Begin /\ \A i \in 1..0 : FALSE
  OBVIOUS
<1>2. PICK u : u[0] = Begin
  BY <1>1
<1>3. ASSUME NEW buf PROVE Turns(buf, 0, Begin)
  BY <1>1, <1>2 DEF Turns
<1> QED BY <1>3

LEMMA OneMoreTurn ==
  ASSUME NEW buf, NEW k \in Nat, NEW s, Turns(buf, k, s)
  PROVE  Turns(buf, k + 1, DecodeOne(buf, s))
<1>1. PICK u : u[0] = Begin /\ u[k] = s /\ \A i \in 1..k : u[i] = DecodeOne(buf, u[i - 1])
  BY DEF Turns
<1> DEFINE v == [i \in 0..(k + 1) |-> IF i = k + 1 THEN DecodeOne(buf, s) ELSE u[i]]
<1>2. v[0] = Begin /\ v[k + 1] = DecodeOne(buf, s)
  BY <1>1
<1>3. ASSUME NEW i \in 1..(k + 1) PROVE v[i] = DecodeOne(buf, v[i - 1])
  <2>1. i - 1 \in 0..(k + 1) /\ i - 1 # k + 1 /\ i \in 0..(k + 1)
    OBVIOUS
  <2>2. v[i - 1] = u[i - 1]
    BY <2>1
  <2>3. CASE i = k + 1
    <3>1. i - 1 = k /\ v[i] = DecodeOne(buf, s)
      BY <2>1, <2>3
    <3> HIDE DEF v
    <3> QED BY <1>1, <2>2, <3>1
  <2>4. CASE i # k + 1
    <3>1. i \in 1..k /\ v[i] = u[i]
      BY <2>1, <2>4
    <3> HIDE DEF v
    <3> QED BY <1>1, <2>2, <3>1
  <2> QED BY <2>3, <2>4
<1> HIDE DEF v
<1> QED BY <1>2, <1>3 DEF Turns

LEMMA DecodeEquation ==
  ASSUME NEW buf \in Seq(Nat)
  PROVE  \E u : /\ u[0] = Begin /\ \A k \in 1..Len(buf) : u[k] = DecodeOne(buf, u[k - 1])
                /\ Decode(buf) = u[Len(buf)]
<1> DEFINE N == Len(buf)
           Solution(f, n) == f = [k \in 0..n |-> IF k = 0 THEN Begin ELSE DecodeOne(buf, f[k - 1])]
           state == CHOOSE f : Solution(f, N)
           T == {n \in 0..N : \E f : Solution(f, n)}
<1>1. N \in Nat
  OBVIOUS
<1>2. 0 \in T
  <2> DEFINE f == [k \in 0..0 |-> Begin]
  <2>1. Solution(f, 0)
    OBVIOUS
  <2> HIDE DEF Solution, f
  <2> QED BY <1>1, <2>1
<1>3. ASSUME NEW n \in 1..N, n - 1 \in T PROVE n \in T
  <2>1. PICK f : Solution(f, n - 1)
    BY <1>3
  <2> DEFINE g == [k \in 0..n |-> IF k = n THEN DecodeOne(buf, f[n - 1]) ELSE f[k]]
  <2>2. ASSUME NEW k \in 0..n
        PROVE  g[k] = IF k = 0 THEN Begin ELSE DecodeOne(buf, g[k - 1])
    <3>1. f[0] = Begin /\ n # 0
      BY <2>1
    <3>2. CASE k = 0
      BY <3>1, <3>2
    <3>3. CASE k # 0
      <4>1. k - 1 \in 0..n /\ k - 1 # n /\ g[k - 1] = f[k - 1]
        BY <3>3
      <4>2. CASE k = n
        <5>1. g[k] = DecodeOne(buf, f[k - 1])
          BY <4>2
        <5> HIDE DEF g
        <5> QED BY <3>3, <4>1, <5>1
      <4>3. CASE k # n
        <5>1. k \in 0..(n - 1) /\ g[k] = f[k]
          BY <4>3
        <5>2. f[k] = DecodeOne(buf, f[k - 1])
          BY <2>1, <3>3, <5>1
        <5> HIDE DEF g
        <5> QED BY <3>3, <4>1, <5>1, <5>2
      <4> QED BY <4>2, <4>3
    <3> QED BY <3>2, <3>3
  <2>3. g = [k \in 0..n |-> g[k]]
    OBVIOUS
  <2> HIDE DEF g
  <2>4. Solution(g, n)
    BY <2>2, <2>3
  <2> HIDE DEF Solution
  <2> QED BY <2>4
<1>4. N \in T
  <2> HIDE DEF T, N
  <2>1. \A n \in 0..N : n \in T
    BY <1>1, <1>2, <1>3, UpTo
  <2> QED BY <1>1, <2>1
<1>5. Solution(state, N)
  <2>1. \E f : Solution(f, N)
    BY <1>4
  <2> HIDE DEF Solution, N
  <2> QED BY <2>1
<1>6. Decode(buf) = state[N]
  BY DEF Decode, Begin, State
<1> HIDE DEF state
<1>7. state[0] = Begin
  BY <1>1, <1>5
<1>8. ASSUME NEW k \in 1..N PROVE state[k] = DecodeOne(buf, state[k - 1])
  <2>1. k \in 0..N /\ k # 0
    BY <1>1
  <2> QED BY <1>5, <2>1
<1> QED BY <1>6, <1>7, <1>8

\* When k turns have read everything, that is what Decode returns.
LEMMA DecodeAfter ==
  ASSUME NEW buf \in Seq(Nat), NEW k \in 0..Len(buf), NEW s, Turns(buf, k, s),
         s.next > Len(buf)
  PROVE  Decode(buf) = s
<1> DEFINE N == Len(buf)
<1>1. PICK u : /\ u[0] = Begin /\ \A i \in 1..N : u[i] = DecodeOne(buf, u[i - 1])
               /\ Decode(buf) = u[N]
  BY DecodeEquation
<1>2. PICK v : v[0] = Begin /\ v[k] = s /\ \A i \in 1..k : v[i] = DecodeOne(buf, v[i - 1])
  BY DEF Turns
<1>3. N \in Nat /\ k \in Nat /\ k <= N
  OBVIOUS
<1>4. DecodeOne(buf, s) = s
  BY DEF DecodeOne
<1> HIDE DEF N
<1> DEFINE T == {i \in 0..N : u[i] = IF i <= k THEN v[i] ELSE s}
<1>5. 0 \in T
  BY <1>1, <1>2, <1>3
<1>6. ASSUME NEW i \in 1..N, i - 1 \in T PROVE i \in T
  <2>1. u[i] = DecodeOne(buf, u[i - 1]) /\ i \in 0..N
    BY <1>1
  <2>2. CASE i <= k
    <3>1. i - 1 <= k /\ i \in 1..k
      BY <1>3, <2>2
    <3>2. u[i - 1] = v[i - 1] /\ v[i] = DecodeOne(buf, v[i - 1])
      BY <1>2, <1>6, <3>1
    <3> QED BY <2>1, <2>2, <3>2
  <2>3. CASE ~(i <= k)
    <3>1. u[i - 1] = s
      <4>1. CASE i - 1 = k
        BY <1>2, <1>3, <1>6, <4>1
      <4>2. CASE i - 1 # k
        <5>1. ~(i - 1 <= k)
          BY <1>3, <2>3, <4>2
        <5> QED BY <1>6, <5>1
      <4> QED BY <4>1, <4>2
    <3> QED BY <1>4, <2>1, <2>3, <3>1
  <2> QED BY <2>2, <2>3
<1> HIDE DEF T
<1>7. N \in T
  <2>1. \A i \in 0..N : i \in T
    BY <1>3, <1>5, <1>6, UpTo
  <2> QED BY <1>3, <2>1
<1>8. u[N] = s
  <2>1. CASE N = k
    BY <1>2, <1>3, <1>7, <2>1 DEF T
  <2>2. CASE N # k
    <3>1. ~(N <= k)
      BY <1>3, <2>2
    <3> QED BY <1>7, <3>1 DEF T
  <2> QED BY <2>1, <2>2
<1> QED BY <1>1, <1>8

LEMMA ConcatOctets ==
  ASSUME NEW a \in Seq(Nat), NEW b \in Seq(Nat), NEW c \in Seq(Nat)
  PROVE  (a \o b) \o c = a \o (b \o c)
<1>1. PICK S : S = Nat
  OBVIOUS
<1>2. a \in Seq(S) /\ b \in Seq(S) /\ c \in Seq(S)
  BY <1>1
<1> QED BY <1>2, ConcatAssociative, SMTT(30)

\* The octets of a block are read, whatever follows them, as fields, with a table.
Reads(octets, table, done) ==
  \E k \in 0..Len(octets) : \A rest \in Seq(Nat) :
    Turns(octets \o rest, k, State(Len(octets) + 1, table, done))

LEMMA ReadsNothing == Reads(<<>>, NewTable, <<>>)
<1>1. Len(<<>>) = 0 /\ 0 \in 0..0 /\ Begin = State(0 + 1, NewTable, <<>>)
  BY DEF Begin
<1> QED BY <1>1, NoTurn DEF Reads

LEMMA OccursAfter ==
  ASSUME NEW a \in Seq(Nat), NEW b \in Seq(Nat), NEW c \in Seq(Nat)
  PROVE  Occurs(b, a \o (b \o c), Len(a) + 1)
<1> DEFINE d == a \o (b \o c)
<1>1. /\ Len(a) \in Nat /\ Len(b) \in Nat /\ Len(c) \in Nat /\ b \o c \in Seq(Nat)
      /\ Len(b \o c) = Len(b) + Len(c)
  OBVIOUS
<1>2. d \in Seq(Nat) /\ Len(d) = Len(a) + (Len(b) + Len(c))
  BY <1>1
<1>3. ASSUME NEW i \in 1..Len(b) PROVE d[(Len(a) + 1) + i - 1] = b[i]
  <2>1. (b \o c)[i] = b[i] /\ i \in 1..Len(b \o c)
    BY <1>1
  <2>2. d[Len(a) + i] = (b \o c)[i]
    <3> DEFINE e == b \o c
    <3>1. e \in Seq(Nat) /\ i \in 1..Len(e)
      BY <1>1, <2>1
    <3> HIDE DEF e
    <3>2. (a \o e)[Len(a) + i] = e[i]
      BY <3>1, SMTT(40)
    <3> QED BY <3>2 DEF e
  <2>3. (Len(a) + 1) + i - 1 = Len(a) + i
    BY <1>1
  <2> QED BY <2>1, <2>2, <2>3
<1>4. Len(a) + 1 \in Nat /\ Len(a) + 1 >= 1 /\ (Len(a) + 1) + Len(b) <= Len(d) + 1
  BY <1>1, <1>2
<1> HIDE DEF d
<1>5. Occurs(b, d, Len(a) + 1)
  BY <1>3, <1>4 DEF Occurs
<1> QED BY <1>5 DEF d

\* A representation after them is read by one turn more.
LEMMA ReadsOneMore ==
  ASSUME NEW octets \in Seq(Nat), NEW table, NEW done, Reads(octets, table, done),
         NEW more \in Seq(Nat), more # <<>>, NEW newTable, NEW newDone,
         \A buf \in Seq(Nat) : Occurs(more, buf, Len(octets) + 1) =>
            DecodeOne(buf, State(Len(octets) + 1, table, done))
              = State(Len(octets) + 1 + Len(more), newTable, newDone)
  PROVE  Reads(octets \o more, newTable, newDone)
<1> DEFINE s == State(Len(octets) + 1, table, done)
           t == State(Len(octets) + 1 + Len(more), newTable, newDone)
<1>1. PICK k \in 0..Len(octets) : \A rest \in Seq(Nat) : Turns(octets \o rest, k, s)
  BY DEF Reads
<1>2. Len(octets) \in Nat /\ Len(more) \in Nat /\ Len(more) >= 1
      /\ Len(octets \o more) = Len(octets) + Len(more)
  OBVIOUS
<1>3. \A buf \in Seq(Nat) : Occurs(more, buf, Len(octets) + 1) => DecodeOne(buf, s) = t
  OBVIOUS
<1> HIDE DEF s
<1>4. t = State(Len(octets \o more) + 1, newTable, newDone)
  <2>1. Len(octets \o more) + 1 = Len(octets) + 1 + Len(more)
    BY <1>2
  <2> QED BY <2>1
<1> HIDE DEF t
<1>5. ASSUME NEW rest \in Seq(Nat) PROVE Turns((octets \o more) \o rest, k + 1, t)
  <2> DEFINE buf == octets \o (more \o rest)
  <2>1. more \o rest \in Seq(Nat) /\ buf \in Seq(Nat)
    <3>1. more \o rest \in Seq(Nat)
      OBVIOUS
    <3> QED BY <3>1, ConcatProperties
  <2>2. (octets \o more) \o rest = buf
    BY ConcatOctets
  <2>3. Occurs(more, buf, Len(octets) + 1)
    BY OccursAfter
  <2>4. Turns(buf, k, s)
    BY <1>1, <2>1
  <2> HIDE DEF buf
  <2>5. DecodeOne(buf, s) = t
    BY <1>3, <2>1, <2>3
  <2>6. k \in Nat
    BY <1>2
  <2>7. Turns(buf, k + 1, t)
    BY <2>4, <2>5, <2>6, OneMoreTurn
  <2> QED BY <2>2, <2>7
<1>6. k + 1 \in 0..Len(octets \o more)
  BY <1>2
<1> QED BY <1>4, <1>5, <1>6 DEF Reads

\* What is read of a whole block is what Decode returns for it.
LEMMA ReadsAll ==
  ASSUME NEW octets \in Seq(Nat), NEW table, NEW done, Reads(octets, table, done)
  PROVE  Decode(octets) = State(Len(octets) + 1, table, done)
<1> DEFINE s == State(Len(octets) + 1, table, done)
<1>1. PICK k \in 0..Len(octets) : \A rest \in Seq(Nat) : Turns(octets \o rest, k, s)
  BY DEF Reads
<1>2. octets \o <<>> = octets /\ <<>> \in Seq(Nat) /\ Len(octets) \in Nat
  OBVIOUS
<1>3. s.next > Len(octets)
  BY <1>2 DEF State
<1> HIDE DEF s
<1>4. Turns(octets, k, s)
  BY <1>1, <1>2
<1>5. Decode(octets) = s
  BY <1>3, <1>4, DecodeAfter
<1> QED BY <1>5 DEF s

-----------------------------------------------------------------------------
\* The peer that decodeHeaders can serve: it uses no entry of an earlier block, as the
\* client's table is new for every block, and not the entries 8 to 14 of the static table;
\* its table is never larger than the client's new one; and its literals can be written.
Servable ==
  /\ AcrossBlocks = FALSE
  /\ StaticIndices \subseteq (1..StaticTableLength) \ (8..14)
  /\ TableSizes \subseteq 0..TableSizeLimit
  /\ \A literal \in Literals :
       /\ literal.kind \in Kinds /\ literal.useHuffman \in BOOLEAN
       /\ Writable(literal.name, literal.useHuffman)
       /\ Writable(literal.value, literal.useHuffman)

Tables == [entries : Seq(Entries), maxSize : Nat]

\* The first n entries of both tables are the same.
Agree(table, n) ==
  /\ n <= Len(peerTable.entries) /\ n <= Len(table.entries)
  /\ \A i \in 1..n : table.entries[i] = peerTable.entries[i]

\* The inductive invariant: with a table of its own the client reads the block as the
\* fields it means, and the entries this block has added are the first in both tables.
BlocksInv ==
  /\ peerTable \in Tables /\ peerTable.maxSize <= TableSizeLimit
  /\ fresh \in Nat /\ block \in Seq(Nat)
  /\ \E table \in Tables :
       /\ Reads(block, table, fields)
       /\ Agree(table, fresh) /\ peerTable.maxSize <= table.maxSize
       /\ block = <<>> => table = NewTable /\ fields = <<>>
  /\ block = <<>> => fresh = 0

LEMMA NewTableFacts == NewTable \in Tables /\ NewTable.maxSize = TableSizeLimit
<1>1. <<>> \in Seq(Entries) /\ TableSizeLimit \in Nat
  BY TableSizeAssumption
<1> QED BY <1>1 DEF NewTable, Tables

LEMMA OneMoreEntry ==
  ASSUME NEW e \in Entries, NEW s \in Seq(Entries)
  PROVE  /\ <<e>> \o s \in Seq(Entries) /\ Len(<<e>> \o s) = Len(s) + 1
         /\ (<<e>> \o s)[1] = e /\ \A i \in 1..Len(s) : (<<e>> \o s)[i + 1] = s[i]
OBVIOUS

LEMMA AddFacts ==
  ASSUME NEW table \in Tables, NEW e \in Entries
  PROVE  /\ Add(table, e) \in Tables /\ Add(table, e).maxSize = table.maxSize
         /\ \A m \in 0..(Len(table.entries) + 1) :
              Size(SubSeq(<<e>> \o table.entries, 1, m)) <= table.maxSize =>
                /\ m <= Len(Add(table, e).entries)
                /\ \A i \in 1..m : Add(table, e).entries[i] = (<<e>> \o table.entries)[i]
<1> DEFINE s == <<e>> \o table.entries
           budget == IF table.maxSize >= EntrySize(e) THEN table.maxSize ELSE EntrySize(e)
           t == Add(table, e)
<1>1. table.entries \in Seq(Entries) /\ table.maxSize \in Nat
  BY DEF Tables
<1>2. s \in Seq(Entries) /\ Len(s) = Len(table.entries) + 1
  BY <1>1, OneMoreEntry
<1>3. budget \in Nat /\ budget >= table.maxSize
  BY <1>1, EntrySizes
<1>4. t = [table EXCEPT !.entries = EvictToFit(s, budget)]
  BY DEF Add
<1> HIDE DEF s, budget, t
<1>5. PICK n \in 0..Len(s) : EvictToFit(s, budget) = SubSeq(s, 1, n)
        /\ \A m \in (n + 1)..Len(s) : Size(SubSeq(s, 1, m)) > budget
  BY <1>2, <1>3, EvictDrops
<1>6. SubSeq(s, 1, n) \in Seq(Entries) /\ Len(SubSeq(s, 1, n)) = n
      /\ \A i \in 1..n : SubSeq(s, 1, n)[i] = s[i]
  BY <1>2, Prefix
<1>7. t \in Tables /\ t.maxSize = table.maxSize /\ t.entries = SubSeq(s, 1, n)
  <2>1. PICK f : f = SubSeq(s, 1, n) /\ f \in Seq(Entries)
    BY <1>6
  <2>2. t = [table EXCEPT !.entries = f]
    BY <1>4, <1>5, <2>1
  <2>3. t \in Tables /\ t.maxSize = table.maxSize /\ t.entries = f
    BY <2>1, <2>2 DEF Tables
  <2> QED BY <2>1, <2>3
<1>8. ASSUME NEW m \in 0..(Len(table.entries) + 1), Size(SubSeq(s, 1, m)) <= table.maxSize
      PROVE  m <= Len(t.entries) /\ \A i \in 1..m : t.entries[i] = s[i]
  <2>1. m \in 0..Len(s) /\ Len(s) \in Nat
    BY <1>2
  <2>2. Size(SubSeq(s, 1, m)) \in Nat
    BY <1>2, <2>1, SizeGrows
  <2>3. ~(Size(SubSeq(s, 1, m)) > budget)
    BY <1>1, <1>3, <1>8, <2>2
  <2>4. m \notin (n + 1)..Len(s)
    BY <1>5, <2>3
  <2>5. m <= n
    BY <2>1, <2>4
  <2>6. m <= Len(t.entries)
    BY <1>6, <1>7, <2>5
  <2>7. \A i \in 1..m : i \in 1..n
    BY <2>1, <2>5
  <2> QED BY <1>6, <1>7, <2>6, <2>7
<1> QED BY <1>7, <1>8 DEF s, t

LEMMA SetLimitFacts ==
  ASSUME NEW table \in Tables, NEW size \in Nat
  PROVE  SetLimit(table, size) \in Tables /\ SetLimit(table, size).maxSize = size
<1>1. table.entries \in Seq(Entries)
  BY DEF Tables
<1>2. PICK n \in 0..Len(table.entries) :
        EvictToFit(table.entries, size) = SubSeq(table.entries, 1, n)
  BY <1>1, EvictDrops
<1>3. EvictToFit(table.entries, size) \in Seq(Entries)
  BY <1>1, <1>2, Prefix
<1> QED BY <1>3 DEF SetLimit, Tables

LEMMA PeerAddFacts ==
  ASSUME peerTable \in Tables, NEW e \in Entries
  PROVE  LET s == <<e>> \o peerTable.entries
             kept == PeerAdd(e).entries IN
         /\ PeerAdd(e) \in Tables /\ PeerAdd(e).maxSize = peerTable.maxSize
         /\ Len(kept) \in 0..(Len(peerTable.entries) + 1)
         /\ \A i \in 1..Len(kept) : kept[i] = s[i]
         /\ Size(SubSeq(s, 1, Len(kept))) <= peerTable.maxSize
<1> DEFINE s == <<e>> \o peerTable.entries
           t == PeerAdd(e)
<1>1. peerTable.entries \in Seq(Entries) /\ peerTable.maxSize \in Nat
  BY DEF Tables
<1>2. s \in Seq(Entries) /\ Len(s) = Len(peerTable.entries) + 1
  BY <1>1, OneMoreEntry
<1>3. t = [peerTable EXCEPT !.entries = Fitting(s, peerTable.maxSize)]
  BY DEF PeerAdd
<1> HIDE DEF s, t
<1>4. PICK n \in 0..Len(s) : Fitting(s, peerTable.maxSize) = SubSeq(s, 1, n)
        /\ Size(SubSeq(s, 1, n)) <= peerTable.maxSize
  BY <1>1, <1>2, FittingKeeps
<1>5. PICK f : f = SubSeq(s, 1, n) /\ f \in Seq(Entries) /\ Len(f) = n
        /\ \A i \in 1..n : f[i] = s[i]
  BY <1>2, Prefix, ZenonT(60)
<1>6. t = [peerTable EXCEPT !.entries = f]
  BY <1>3, <1>4, <1>5
<1>7. t \in Tables /\ t.maxSize = peerTable.maxSize /\ t.entries = f
  BY <1>5, <1>6 DEF Tables
<1>8. n \in 0..(Len(peerTable.entries) + 1)
  BY <1>2
<1> QED BY <1>4, <1>5, <1>7, <1>8 DEF s, t

\* After an addition to both tables, what this block has added is still in both.
LEMMA AddAgrees ==
  ASSUME peerTable \in Tables, NEW table \in Tables, NEW e \in Entries,
         NEW n \in Nat, Agree(table, n), peerTable.maxSize <= table.maxSize,
         NEW m \in Nat, m <= n + 1, m <= Len(PeerAdd(e).entries)
  PROVE  /\ m <= Len(Add(table, e).entries)
         /\ \A i \in 1..m : Add(table, e).entries[i] = PeerAdd(e).entries[i]
<1> DEFINE s == <<e>> \o peerTable.entries
           t == <<e>> \o table.entries
           kept == PeerAdd(e).entries
<1>1. /\ peerTable.entries \in Seq(Entries) /\ peerTable.maxSize \in Nat
      /\ table.entries \in Seq(Entries) /\ table.maxSize \in Nat
  BY DEF Tables
<1>2. /\ s \in Seq(Entries) /\ Len(s) = Len(peerTable.entries) + 1
      /\ s[1] = e /\ \A i \in 1..Len(peerTable.entries) : s[i + 1] = peerTable.entries[i]
  BY <1>1, OneMoreEntry
<1>3. /\ t \in Seq(Entries) /\ Len(t) = Len(table.entries) + 1
      /\ t[1] = e /\ \A i \in 1..Len(table.entries) : t[i + 1] = table.entries[i]
  BY <1>1, OneMoreEntry
<1>4. /\ Len(kept) \in 0..Len(s) /\ \A i \in 1..Len(kept) : kept[i] = s[i]
      /\ Size(SubSeq(s, 1, Len(kept))) <= peerTable.maxSize
  BY <1>2, PeerAddFacts
<1>5. /\ n <= Len(peerTable.entries) /\ n <= Len(table.entries)
      /\ \A i \in 1..n : table.entries[i] = peerTable.entries[i]
  BY DEF Agree
<1> HIDE DEF s, t, kept
<1>6. m \in 0..Len(s) /\ m \in 0..Len(t) /\ m \in 0..Len(kept) /\ m \in 0..(Len(table.entries) + 1)
  <2>1. m <= Len(kept)
    BY DEF kept
  <2> QED BY <1>1, <1>2, <1>3, <1>4, <1>5, <2>1, SMTT(40)
<1>7. ASSUME NEW i \in 1..m PROVE s[i] = t[i]
  <2>1. CASE i = 1
    BY <1>2, <1>3, <2>1
  <2>2. CASE i # 1
    <3>1. i - 1 \in 1..n /\ (i - 1) + 1 = i
      BY <2>2
    <3>2. i - 1 \in 1..Len(peerTable.entries) /\ i - 1 \in 1..Len(table.entries)
      BY <1>1, <1>5, <3>1
    <3> QED BY <1>2, <1>3, <1>5, <3>1, <3>2
  <2> QED BY <2>1, <2>2
<1>8. SubSeq(s, 1, m) = SubSeq(t, 1, m)
  <2>1. PICK a, b : a = SubSeq(s, 1, m) /\ b = SubSeq(t, 1, m)
    OBVIOUS
  <2>2. /\ a \in Seq(Entries) /\ Len(a) = m /\ \A i \in 1..m : a[i] = s[i]
        /\ b \in Seq(Entries) /\ Len(b) = m /\ \A i \in 1..m : b[i] = t[i]
    BY <1>2, <1>3, <1>6, <2>1, Prefix
  <2>3. a = b
    BY <1>7, <2>2, SeqEqual
  <2> QED BY <2>1, <2>3
<1>9. Size(SubSeq(t, 1, m)) <= table.maxSize
  <2>1. Size(SubSeq(s, 1, m)) <= Size(SubSeq(s, 1, Len(kept)))
        /\ Size(SubSeq(s, 1, m)) \in Nat /\ Size(SubSeq(s, 1, Len(kept))) \in Nat
    BY <1>2, <1>4, <1>6, SizeGrows
  <2>2. PICK x, y : x = Size(SubSeq(s, 1, m)) /\ y = Size(SubSeq(s, 1, Len(kept)))
    OBVIOUS
  <2>3. x <= table.maxSize
    BY <1>1, <1>4, <2>1, <2>2
  <2> QED BY <1>8, <2>2, <2>3
<1>10. m <= Len(Add(table, e).entries) /\ \A i \in 1..m : Add(table, e).entries[i] = t[i]
  BY <1>6, <1>9, AddFacts DEF t
<1>11. \A i \in 1..m : kept[i] = t[i]
  BY <1>4, <1>6, <1>7
<1> QED BY <1>10, <1>11 DEF kept

LEMMA StaticFacts ==
  /\ StaticTableLength \in Nat /\ StaticTableLength = Len(StaticTable)
  /\ StaticTable \in Seq(Entries)
  /\ \A i \in 1..StaticTableLength : StaticTable[i] \in Entries
<1>1. PICK s : s = StaticTable
  OBVIOUS
<1>2. s \in Seq(Entries) /\ StaticTableLength = Len(s)
  BY <1>1, TableSizeAssumption DEF Entries, StaticTableLength
<1>3. Len(s) \in Nat /\ \A i \in 1..Len(s) : s[i] \in Entries
  BY <1>2
<1> QED BY <1>1, <1>2, <1>3

\* An index that the peer may use means the same to the client.
LEMMA SameEntry ==
  ASSUME Servable, peerTable \in Tables, fresh \in Nat,
         NEW table \in Tables, Agree(table, fresh), NEW index \in Usable
  PROVE  /\ index \in Nat /\ index # 0
         /\ PeerEntry(index) \in Entries /\ Resolves(index, table, PeerEntry(index))
<1> DEFINE N == StaticTableLength
<1>1. PICK s, t, q : s = StaticTable /\ t = table.entries /\ q = peerTable.entries
  OBVIOUS
<1>2. /\ N \in Nat /\ s \in Seq(Entries) /\ N = Len(s) /\ \A i \in 1..N : s[i] \in Entries
  BY <1>1, StaticFacts
<1>3. t \in Seq(Entries) /\ q \in Seq(Entries)
  BY <1>1 DEF Tables
<1>4. fresh <= Len(q) /\ fresh <= Len(t) /\ \A i \in 1..fresh : t[i] = q[i]
  BY <1>1 DEF Agree
<1>5. Usable = StaticIndices \cup {N + i : i \in 1..fresh} /\ StaticIndices \subseteq (1..N) \ (8..14)
  BY DEF Usable, Servable
<1>6. PICK p : p = PeerStaticTable
  OBVIOUS
<1>7. p = [i \in 1..N |-> IF i \in 8..14 THEN <<":status", s[i][2]>> ELSE s[i]]
  BY <1>1, <1>6 DEF PeerStaticTable
<1> DEFINE U == Entries \cup {p[i] : i \in 1..N}
<1>8. p \in Seq(U) /\ Len(p) = N /\ q \in Seq(U) /\ \A i \in (1..N) \ (8..14) : p[i] = s[i]
  <2>1. \A i \in 1..N : p[i] \in U
    OBVIOUS
  <2>2. Entries \subseteq U
    OBVIOUS
  <2>3. \A i \in (1..N) \ (8..14) : p[i] = s[i]
    BY <1>7
  <2>4. DOMAIN p = 1..N /\ p = [i \in 1..N |-> p[i]]
    BY <1>7
  <2> HIDE DEF U, N
  <2>5. p \in [1..N -> U]
    BY <2>1, <2>4
  <2>6. p \in Seq(U) /\ Len(p) = N
    BY <1>2, <2>5
  <2>7. q \in Seq(U)
    BY <1>3, <2>2
  <2> QED BY <2>3, <2>6, <2>7
<1> HIDE DEF U, N
<1>9. /\ Len(s \o t) = N + Len(t)
      /\ \A i \in 1..N : (s \o t)[i] = s[i]
      /\ \A i \in 1..Len(t) : (s \o t)[N + i] = t[i]
  BY <1>2, <1>3, ConcatAt
<1>10. /\ \A i \in 1..N : (p \o q)[i] = p[i]
       /\ \A i \in 1..Len(q) : (p \o q)[N + i] = q[i]
  BY <1>8, ConcatAt
<1>11. Len(t) \in Nat /\ Len(q) \in Nat /\ \A i \in 1..Len(q) : q[i] \in Entries
  BY <1>3
<1>12. /\ index \in Nat /\ index # 0 /\ index \in 1..Len(s \o t)
       /\ (p \o q)[index] \in Entries /\ (s \o t)[index] = (p \o q)[index]
  <2>1. CASE index \in StaticIndices
    <3>1. index \in 1..N /\ index \in (1..N) \ (8..14)
      BY <1>5, <2>1
    <3>2. (s \o t)[index] = s[index] /\ (p \o q)[index] = s[index] /\ s[index] \in Entries
      BY <1>2, <1>8, <1>9, <1>10, <3>1
    <3>3. index \in Nat /\ index # 0 /\ index \in 1..(N + Len(t))
      BY <1>2, <1>11, <3>1
    <3> QED BY <1>9, <3>2, <3>3
  <2>2. CASE index \notin StaticIndices
    <3>1. PICK i \in 1..fresh : index = N + i
      BY <1>5, <2>2
    <3>2. i \in 1..Len(t) /\ i \in 1..Len(q) /\ t[i] = q[i]
      BY <1>4, <1>11, <3>1
    <3>3. (s \o t)[index] = t[i] /\ (p \o q)[index] = q[i] /\ q[i] \in Entries
      BY <1>9, <1>10, <1>11, <3>1, <3>2
    <3>4. index \in Nat /\ index # 0 /\ index \in 1..(N + Len(t))
      BY <1>2, <1>11, <3>1, <3>2
    <3> QED BY <1>9, <3>2, <3>3, <3>4
  <2> QED BY <2>1, <2>2
<1>13. PeerEntry(index) = (p \o q)[index]
  BY <1>1, <1>6 DEF PeerEntry
<1>14. ResolveIndex(index, table)
         = IF index \in 1..Len(s \o t) THEN [ok |-> TRUE, entry |-> (s \o t)[index]] ELSE Thrown
  BY <1>1 DEF ResolveIndex
<1>15. ResolveIndex(index, table) = [ok |-> TRUE, entry |-> (s \o t)[index]]
  BY <1>12, <1>14
<1> QED BY <1>12, <1>13, <1>15 DEF Resolves

LEMMA FlaggedOctets ==
  ASSUME NEW v \in Nat, NEW p \in 4..7, NEW flag \in Nat
  PROVE  /\ Flagged(EncodeInteger(v, p), flag) \in Seq(Nat)
         /\ Flagged(EncodeInteger(v, p), flag) # <<>>
<1>1. PICK e : e = Flagged(EncodeInteger(v, p), flag)
  OBVIOUS
<1>2. Written(e, v, MaxPrefix[p], flag)
  BY <1>1, IntegerOctets
<1>3. e \in Seq(Nat) /\ Len(e) >= 1
  BY <1>2, Zenon DEF Written
<1> QED BY <1>1, <1>3

LEMMA LiteralOctets ==
  ASSUME NEW kind \in Kinds, NEW nameIndex \in Nat, NEW name, NEW value,
         NEW useHuffman \in BOOLEAN, Sendable(value, useHuffman),
         nameIndex = 0 => Sendable(name, useHuffman)
  PROVE  /\ EmitLiteral(kind, nameIndex, name, value, useHuffman) \in Seq(Nat)
         /\ EmitLiteral(kind, nameIndex, name, value, useHuffman) # <<>>
<1>1. PICK p, flag : p = Kind[kind].prefix /\ flag = Kind[kind].flag
  OBVIOUS
<1>2. p \in 4..7 /\ flag \in Nat
  <2>1. (p = 6 /\ flag = 64) \/ (p = 4 /\ flag = 0) \/ (p = 4 /\ flag = 16)
    BY <1>1 DEF Kinds, Kind
  <2> QED BY <2>1
<1>3. PICK i : i = Flagged(EncodeInteger(nameIndex, p), flag) /\ i \in Seq(Nat) /\ i # <<>>
  BY <1>2, FlaggedOctets
<1>4. PICK c : /\ c = IF nameIndex = 0 THEN EncodeString(name, useHuffman) ELSE <<>>
               /\ c \in Seq(Nat)
  <2>1. PICK c : c = IF nameIndex = 0 THEN EncodeString(name, useHuffman) ELSE <<>>
    OBVIOUS
  <2>2. ASSUME nameIndex = 0 PROVE c \in Seq(Nat)
    <3>1. EncodeString(name, useHuffman) \in Seq(Nat)
      BY <2>2, TextOctets
    <3> QED BY <2>1, <2>2, <3>1
  <2>3. ASSUME nameIndex # 0 PROVE c \in Seq(Nat)
    <3>1. c = <<>> /\ <<>> \in Seq(Nat)
      BY <2>1, <2>3
    <3> QED BY <3>1
  <2>4. c \in Seq(Nat)
    BY <2>2, <2>3
  <2> QED BY <2>1, <2>4
<1>5. PICK d : d = EncodeString(value, useHuffman) /\ d \in Seq(Nat)
  BY TextOctets
<1>6. EmitLiteral(kind, nameIndex, name, value, useHuffman) = (i \o c) \o d
  BY <1>1, <1>3, <1>4, <1>5 DEF EmitLiteral
<1>7. i \o c \in Seq(Nat) /\ i \o c # <<>>
  BY <1>3, <1>4
<1>8. PICK h : h = i \o c
  OBVIOUS
<1>9. h \o d \in Seq(Nat) /\ h \o d # <<>>
  BY <1>5, <1>7, <1>8
<1> QED BY <1>6, <1>8, <1>9

LEMMA NotEmpty ==
  ASSUME NEW a \in Seq(Nat), NEW b \in Seq(Nat), b # <<>>
  PROVE  a \o b \in Seq(Nat) /\ a \o b # <<>>
<1>1. Len(a \o b) = Len(a) + Len(b) /\ Len(a) \in Nat /\ Len(b) \in Nat /\ Len(b) # 0
  OBVIOUS
<1>2. Len(<<>>) = 0 /\ Len(a \o b) # 0
  BY <1>1
<1>3. a \o b \in Seq(Nat)
  OBVIOUS
<1> QED BY <1>2, <1>3

\* What the peer and the client know when a representation has been added to the block.
LEMMA Extended ==
  ASSUME NEW more \in Seq(Nat), more # <<>>, block \in Seq(Nat), block' = block \o more,
         peerTable' \in Tables, peerTable'.maxSize <= TableSizeLimit, fresh' \in Nat,
         NEW table, NEW newTable \in Tables, Reads(block, table, fields),
         \A buf \in Seq(Nat) : Occurs(more, buf, Len(block) + 1) =>
            DecodeOne(buf, State(Len(block) + 1, table, fields))
              = State(Len(block) + 1 + Len(more), newTable, fields'),
         Agree(newTable, fresh)', peerTable'.maxSize <= newTable.maxSize
  PROVE  BlocksInv'
<1>1. block' \in Seq(Nat) /\ block' # <<>>
  BY NotEmpty
<1>2. Reads(block', newTable, fields')
  BY ReadsOneMore
<1>3. \E t \in Tables :
        /\ Reads(block', t, fields') /\ Agree(t, fresh)' /\ peerTable'.maxSize <= t.maxSize
        /\ block' = <<>> => t = NewTable /\ fields' = <<>>
  BY <1>1, <1>2
<1> QED BY <1>1, <1>3 DEF BlocksInv

LEMMA IndexedKeepsInv ==
  ASSUME Servable, BlocksInv, NEW index \in Usable, PeerIndexed(index)
  PROVE  BlocksInv'
<1>1. PICK table \in Tables : /\ Reads(block, table, fields) /\ Agree(table, fresh)
                              /\ peerTable.maxSize <= table.maxSize
  BY DEF BlocksInv
<1>2. /\ peerTable \in Tables /\ peerTable.maxSize <= TableSizeLimit
      /\ fresh \in Nat /\ block \in Seq(Nat)
  BY DEF BlocksInv
<1>3. PICK more : more = EmitIndexed(index)
  OBVIOUS
<1>4. /\ block' = block \o more /\ fields' = Append(fields, PeerEntry(index))
      /\ peerTable' = peerTable /\ fresh' = fresh
  BY <1>3 DEF PeerIndexed
<1>5. index \in Nat /\ Resolves(index, table, PeerEntry(index))
  BY <1>1, <1>2, SameEntry
<1>6. more \in Seq(Nat) /\ more # <<>>
  BY <1>3, <1>5, FlaggedOctets DEF EmitIndexed
<1>7. ASSUME NEW buf \in Seq(Nat), Occurs(more, buf, Len(block) + 1)
      PROVE  DecodeOne(buf, State(Len(block) + 1, table, fields))
               = State(Len(block) + 1 + Len(more), table, fields')
  <2>1. Len(block) + 1 \in Nat
    BY <1>2
  <2>2. PICK at : at = Len(block) + 1
    OBVIOUS
  <2>3. DecodeOne(buf, State(at, table, fields))
          = State(at + Len(EmitIndexed(index)), table, Append(fields, PeerEntry(index)))
    BY <1>3, <1>5, <1>7, <2>1, <2>2, IndexedRead
  <2> QED BY <1>3, <1>4, <2>2, <2>3, Zenon
<1>8. Agree(table, fresh)'
  BY <1>1, <1>4 DEF Agree
<1> QED BY <1>1, <1>2, <1>4, <1>6, <1>7, <1>8, Extended

LEMMA LiteralKeepsInv ==
  ASSUME Servable, BlocksInv, NEW literal \in Literals, NEW index \in {0} \cup Usable,
         PeerLiteral(literal, index)
  PROVE  BlocksInv'
<1>1. PICK table \in Tables : /\ Reads(block, table, fields) /\ Agree(table, fresh)
                              /\ peerTable.maxSize <= table.maxSize
  BY DEF BlocksInv
<1>2. /\ peerTable \in Tables /\ peerTable.maxSize <= TableSizeLimit
      /\ fresh \in Nat /\ block \in Seq(Nat)
  BY DEF BlocksInv
<1>3. PICK kind, value, useHuffman :
        kind = literal.kind /\ value = literal.value /\ useHuffman = literal.useHuffman
  OBVIOUS
<1>4. PICK name : name = IF index = 0 THEN literal.name ELSE PeerEntry(index)[1]
  OBVIOUS
<1>5. PICK more : more = EmitLiteral(kind, index, name, value, useHuffman)
  OBVIOUS
<1>6. /\ block' = block \o more /\ fields' = Append(fields, <<name, value>>)
      /\ IF kind = "incremental"
         THEN /\ peerTable' = PeerAdd(<<name, value>>)
              /\ fresh' = Lesser(fresh + 1, Len(peerTable'.entries))
         ELSE peerTable' = peerTable /\ fresh' = fresh
  BY <1>3, <1>4, <1>5 DEF PeerLiteral
<1>7. /\ kind \in Kinds /\ useHuffman \in BOOLEAN /\ value \in Texts /\ Sendable(value, useHuffman)
      /\ literal.name \in Texts /\ Sendable(literal.name, useHuffman)
  <2>1. /\ kind \in Kinds /\ useHuffman \in BOOLEAN
        /\ Writable(value, useHuffman) /\ Writable(literal.name, useHuffman)
    BY <1>3 DEF Servable
  <2> QED BY <2>1, WritableIsSendable DEF Writable
<1>8. index \in Nat /\ name \in Texts /\ NameKnown(index, name, useHuffman, table)
      /\ (index = 0 => Sendable(name, useHuffman))
  <2>1. CASE index = 0
    BY <1>4, <1>7, <2>1 DEF NameKnown
  <2>2. CASE index # 0
    <3>1. index \in Usable
      BY <2>2
    <3>2. index \in Nat /\ PeerEntry(index) \in Entries /\ Resolves(index, table, PeerEntry(index))
      BY <1>1, <1>2, <3>1, SameEntry
    <3>3. PeerEntry(index)[1] \in Texts
      BY <3>2 DEF Entries
    <3> QED BY <1>4, <2>2, <3>2, <3>3 DEF NameKnown
  <2> QED BY <2>1, <2>2
<1>9. more \in Seq(Nat) /\ more # <<>>
  BY <1>5, <1>7, <1>8, LiteralOctets
<1>10. PICK e : e = <<name, value>> /\ e \in Entries
  <2>1. <<name, value>> \in Entries
    BY <1>7, <1>8 DEF Entries
  <2> QED BY <2>1
<1>11. PICK newTable : newTable = Extend(kind, table, e)
  OBVIOUS
<1>12. ASSUME NEW buf \in Seq(Nat), Occurs(more, buf, Len(block) + 1)
       PROVE  DecodeOne(buf, State(Len(block) + 1, table, fields))
                = State(Len(block) + 1 + Len(more), newTable, fields')
  <2>1. Len(block) + 1 \in Nat
    BY <1>2
  <2>2. PICK at : at = Len(block) + 1
    OBVIOUS
  <2>3. DecodeOne(buf, State(at, table, fields))
          = State(at + Len(EmitLiteral(kind, index, name, value, useHuffman)),
                  Extend(kind, table, <<name, value>>),
                  Append(fields, <<name, value>>))
    <3>1. Occurs(EmitLiteral(kind, index, name, value, useHuffman), buf, at) /\ at \in Nat
      BY <1>5, <1>12, <2>1, <2>2
    <3>2. LiteralAt(kind, index, name, value, useHuffman, buf, at, table, fields)
      BY <1>7, <1>8, <3>1, LiteralRead, Zenon
    <3> QED BY <3>2, Zenon DEF LiteralAt
  <2> QED BY <1>5, <1>6, <1>10, <1>11, <2>2, <2>3, Zenon
<1>13. /\ peerTable' \in Tables /\ peerTable'.maxSize <= TableSizeLimit /\ fresh' \in Nat
       /\ newTable \in Tables /\ Agree(newTable, fresh)' /\ peerTable'.maxSize <= newTable.maxSize
  <2>1. CASE kind = "incremental"
    <3>1. peerTable' = PeerAdd(e) /\ fresh' = Lesser(fresh + 1, Len(peerTable'.entries))
          /\ newTable = Add(table, e)
      BY <1>6, <1>10, <1>11, <2>1 DEF Extend
    <3>2. /\ PeerAdd(e) \in Tables /\ PeerAdd(e).maxSize = peerTable.maxSize
          /\ Len(PeerAdd(e).entries) \in 0..(Len(peerTable.entries) + 1)
      BY <1>2, <1>10, PeerAddFacts
    <3>3. Add(table, e) \in Tables /\ Add(table, e).maxSize = table.maxSize
      BY <1>10, AddFacts
    <3>4. PICK m, k : m = fresh' /\ k = Len(PeerAdd(e).entries) /\ k \in Nat
      <4>1. Len(peerTable.entries) \in Nat
        BY <1>2 DEF Tables
      <4> QED BY <3>2, <4>1
    <3>5. m = Lesser(fresh + 1, k)
      BY <3>1, <3>4
    <3>6. m \in Nat /\ m <= fresh + 1 /\ m <= k
      BY <1>2, <3>4, <3>5 DEF Lesser
    <3>7. /\ m <= Len(Add(table, e).entries)
          /\ \A i \in 1..m : Add(table, e).entries[i] = PeerAdd(e).entries[i]
      BY <1>1, <1>2, <1>10, <3>4, <3>6, AddAgrees, SMTT(40)
    <3>8. Agree(newTable, fresh)'
      BY <3>1, <3>4, <3>6, <3>7 DEF Agree
    <3> QED BY <1>1, <1>2, <3>1, <3>2, <3>3, <3>4, <3>6, <3>8
  <2>2. CASE kind # "incremental"
    <3>1. peerTable' = peerTable /\ fresh' = fresh /\ newTable = table
      BY <1>6, <1>11, <2>2 DEF Extend
    <3> QED BY <1>1, <1>2, <3>1 DEF Agree
  <2> QED BY <2>1, <2>2
<1> QED BY <1>1, <1>2, <1>6, <1>9, <1>12, <1>13, Extended

LEMMA SizeUpdateKeepsInv ==
  ASSUME Servable, BlocksInv, NEW size \in TableSizes, PeerSizeUpdate(size)
  PROVE  BlocksInv'
<1>1. PICK table \in Tables : /\ Reads(block, table, fields) /\ Agree(table, fresh)
  BY DEF BlocksInv
<1>2. /\ peerTable \in Tables /\ fresh = 0 /\ block = <<>> /\ block \in Seq(Nat)
  BY DEF BlocksInv, PeerSizeUpdate
<1>3. PICK more : more = EncodeSizeUpdate(size)
  OBVIOUS
<1>4. /\ block' = more /\ fields' = fields /\ peerTable' = PeerResize(size) /\ fresh' = fresh
  BY <1>3 DEF PeerSizeUpdate
<1>5. size \in Nat /\ size <= TableSizeLimit
  <2>1. size \in 0..TableSizeLimit
    BY Zenon DEF Servable
  <2> QED BY <2>1, TableSizeAssumption
<1>6. more \in Seq(Nat) /\ more # <<>>
  BY <1>3, <1>5, FlaggedOctets DEF EncodeSizeUpdate
<1>7. block' = block \o more
  BY <1>2, <1>4, <1>6
<1>8. PICK newTable : newTable = SetLimit(table, size)
  OBVIOUS
<1>9. newTable \in Tables /\ newTable.maxSize = size
  BY <1>5, <1>8, SetLimitFacts
<1>10. ASSUME NEW buf \in Seq(Nat), Occurs(more, buf, Len(block) + 1)
       PROVE  DecodeOne(buf, State(Len(block) + 1, table, fields))
                = State(Len(block) + 1 + Len(more), newTable, fields')
  <2>1. Len(block) + 1 \in Nat
    BY <1>2
  <2>2. PICK at : at = Len(block) + 1
    OBVIOUS
  <2>3. DecodeOne(buf, State(at, table, fields))
          = State(at + Len(EncodeSizeUpdate(size)), SetLimit(table, size), fields)
    BY <1>3, <1>5, <1>10, <2>1, <2>2, SizeUpdateRead
  <2> QED BY <1>3, <1>4, <1>8, <2>2, <2>3, Zenon
<1>11. peerTable' \in Tables /\ peerTable'.maxSize = size
  <2>1. peerTable.entries \in Seq(Entries)
    BY <1>2 DEF Tables
  <2>2. PICK n \in 0..Len(peerTable.entries) :
          Fitting(peerTable.entries, size) = SubSeq(peerTable.entries, 1, n)
    BY <1>5, <2>1, FittingKeeps
  <2>3. Fitting(peerTable.entries, size) \in Seq(Entries)
    BY <2>1, <2>2, Prefix
  <2> QED BY <1>4, <1>5, <2>3 DEF PeerResize, Tables
<1>12. Agree(newTable, fresh)'
  <2>1. Len(peerTable'.entries) \in Nat /\ Len(newTable.entries) \in Nat
    BY <1>9, <1>11 DEF Tables
  <2> QED BY <1>2, <1>4, <2>1 DEF Agree
<1> QED BY <1>1, <1>2, <1>4, <1>5, <1>6, <1>7, <1>9, <1>10, <1>11, <1>12, Extended

LEMMA EndBlockKeepsInv ==
  ASSUME BlocksInv, EndBlock
  PROVE  BlocksInv'
<1>1. block' = <<>> /\ fields' = <<>> /\ fresh' = 0 /\ peerTable' = peerTable
  BY DEF EndBlock
<1>2. peerTable \in Tables /\ peerTable.maxSize <= TableSizeLimit
  BY DEF BlocksInv
<1>3. Reads(block', NewTable, fields')
  BY <1>1, ReadsNothing
<1>4. Agree(NewTable, fresh)'
  <2>1. Len(peerTable.entries) \in Nat /\ Len(NewTable.entries) = 0
    BY <1>2 DEF Tables, NewTable
  <2> QED BY <1>1, <2>1 DEF Agree
<1> QED BY <1>1, <1>2, <1>3, <1>4, NewTableFacts DEF BlocksInv

\* decoder.ts, dynamic-table.ts: at every field of every block the client reads what has
\* been written of it as the fields meant, and what the block has added to the peer's table
\* is at the front of the client's.
THEOREM BlocksInvariant ==
  Servable => (BlocksSpec => []BlocksInv)
<1> SUFFICES ASSUME Servable PROVE BlocksSpec => []BlocksInv
  OBVIOUS
<1>1. BlocksInit => BlocksInv
  <2> SUFFICES ASSUME BlocksInit PROVE BlocksInv
    OBVIOUS
  <2>1. peerTable = NewTable /\ fresh = 0 /\ block = <<>> /\ fields = <<>>
    BY DEF BlocksInit
  <2>2. Agree(NewTable, fresh)
    BY <2>1 DEF Agree, NewTable
  <2>3. TableSizeLimit \in Nat
    BY TableSizeAssumption
  <2> QED BY <2>1, <2>2, <2>3, ReadsNothing, NewTableFacts DEF BlocksInv
<1>2. BlocksInv /\ [BlocksNext]_blockVars => BlocksInv'
  <2> SUFFICES ASSUME BlocksInv, [BlocksNext]_blockVars PROVE BlocksInv'
    OBVIOUS
  <2>1. CASE \E index \in Usable : PeerIndexed(index)
    BY <2>1, IndexedKeepsInv
  <2>2. CASE \E literal \in Literals, index \in {0} \cup Usable : PeerLiteral(literal, index)
    BY <2>2, LiteralKeepsInv
  <2>3. CASE \E size \in TableSizes : PeerSizeUpdate(size)
    BY <2>3, SizeUpdateKeepsInv
  <2>4. CASE EndBlock
    BY <2>4, EndBlockKeepsInv
  <2>5. CASE UNCHANGED blockVars
    BY <2>5 DEF BlocksInv, Agree, blockVars
  <2> QED BY <2>1, <2>2, <2>3, <2>4, <2>5 DEF BlocksNext
<1> QED BY <1>1, <1>2, PTL DEF BlocksSpec

\* What decodeHeaders reads of a block.
LEMMA BlockRead ==
  ASSUME BlocksInv
  PROVE  \E table \in Tables : /\ Agree(table, fresh)
                               /\ Decode(block) = State(Len(block) + 1, table, fields)
<1>1. PICK table \in Tables : Reads(block, table, fields) /\ Agree(table, fresh)
  BY DEF BlocksInv
<1>2. Decode(block) = State(Len(block) + 1, table, fields)
  BY <1>1, ReadsAll DEF BlocksInv
<1> QED BY <1>1, <1>2

\* decoder.ts:4-7: what decodeHeaders reads, at every field of every block, is what the
\* peer meant by it, for every peer that it can serve.
THEOREM BlocksUnderstood ==
  Servable => (BlocksSpec => []HeadersUnderstood)
<1> SUFFICES ASSUME Servable PROVE BlocksSpec => []HeadersUnderstood
  OBVIOUS
<1>1. BlocksInv => HeadersUnderstood
  <2> SUFFICES ASSUME BlocksInv PROVE HeadersUnderstood
    OBVIOUS
  <2>1. PICK table, d : d = Decode(block) /\ d = State(Len(block) + 1, table, fields)
    BY BlockRead
  <2>2. d.ok /\ d.fields = fields
    BY <2>1 DEF State
  <2>3. DecodeHeaders(block) = [ok |-> TRUE, headers |-> MapOf(d.fields)]
    BY <2>1, <2>2, Zenon DEF DecodeHeaders, Then
  <2> QED BY <2>2, <2>3 DEF HeadersUnderstood
<1> QED BY <1>1, BlocksInvariant, PTL

\* dynamic-table.ts: whatever this block has added, evicted or resized, an index that the
\* peer may use means the same to the client.
THEOREM IndicesUnderstood ==
  Servable => (BlocksSpec => []IndicesAgree)
<1> SUFFICES ASSUME Servable PROVE BlocksSpec => []IndicesAgree
  OBVIOUS
<1>1. BlocksInv => IndicesAgree
  <2> SUFFICES ASSUME BlocksInv, NEW index \in Usable
               PROVE  ResolveIndex(index, Decode(block).table)
                        = [ok |-> TRUE, entry |-> PeerEntry(index)]
    BY DEF IndicesAgree
  <2>1. PICK table \in Tables : Agree(table, fresh)
          /\ Decode(block) = State(Len(block) + 1, table, fields)
    BY BlockRead
  <2>2. Decode(block).table = table
    BY <2>1 DEF State
  <2>3. Resolves(index, table, PeerEntry(index))
    BY <2>1, SameEntry DEF BlocksInv
  <2> QED BY <2>2, <2>3 DEF Resolves
<1> QED BY <1>1, BlocksInvariant, PTL
=============================================================================
