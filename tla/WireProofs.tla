----------------------------- MODULE WireProofs -----------------------------
(***************************************************************************)
(* What is proved of the octets of a connection.  Inbound: the invariants  *)
(* of FrameReader, and that it implements FrameQueue, for every codec that *)
(* satisfies CodecAssumption, any frames and however the reads cut the     *)
(* octets.  Outbound: that the peer reads a request as it was meant, for   *)
(* any fields, orders and encoding.  Both hold of Wire, where the three    *)
(* parts of a connection run next to each other.                           *)
(***************************************************************************)
EXTENDS Wire, HpackProofs, FiniteSetTheorems


\* u gives the octets of the first frames of s, for every number of them.
Gathers(u, s) ==
  /\ u[0] = <<>>
  /\ \A k \in 1..Len(s) : u[k] = u[k - 1] \o Octets(s[k])

-----------------------------------------------------------------------------
\* OctetsOf is the last value of such a u: its recursive function exists.
LEMMA OctetsEquation ==
  ASSUME NEW s \in Seq(Frames)
  PROVE  \E u \in [0..Len(s) -> Seq(Nat)] : Gathers(u, s) /\ OctetsOf(s) = u[Len(s)]
<1> DEFINE N == Len(s)
           Solves(u, n) == u[0] = <<>> /\ \A k \in 1..n : u[k] = u[k - 1] \o Octets(s[k])
           T == {n \in 0..N : \E u \in [0..n -> Seq(Nat)] : Solves(u, n)}
           upTo == CHOOSE u : u = [i \in 0..N |-> IF i = 0 THEN <<>> ELSE u[i - 1] \o Octets(s[i])]
<1>1. N \in Nat
  OBVIOUS
<1>2. \A k \in 1..N : Octets(s[k]) \in Seq(Nat)
  BY CodecAssumption
<1> HIDE DEF N
<1>3. 0 \in T
  <2> DEFINE u == [k \in 0..0 |-> <<>>]
  <2>1. <<>> \in Seq(Nat)
    OBVIOUS
  <2>2. u \in [0..0 -> Seq(Nat)] /\ Solves(u, 0)
    BY <2>1
  <2> HIDE DEF u, Solves
  <2> QED BY <1>1, <2>2
<1>4. ASSUME NEW n \in 1..N, n - 1 \in T PROVE n \in T
  <2>1. PICK v \in [0..(n - 1) -> Seq(Nat)] : Solves(v, n - 1)
    BY <1>4
  <2> DEFINE last == v[n - 1] \o Octets(s[n])
             u == [k \in 0..n |-> IF k = n THEN last ELSE v[k]]
  <2>2. n \in Nat /\ n - 1 \in 0..(n - 1) /\ v[n - 1] \in Seq(Nat)
    BY <1>1
  <2>3. last \in Seq(Nat)
    BY <1>2, <2>2
  <2>4. u \in [0..n -> Seq(Nat)]
    <3> HIDE DEF last
    <3> QED BY <2>2, <2>3
  <2>5. u[0] = <<>>
    BY <2>1, <2>2
  <2>6. ASSUME NEW k \in 1..n PROVE u[k] = u[k - 1] \o Octets(s[k])
    <3>1. CASE k = n
      <4>1. k - 1 \in 0..n /\ k - 1 # n /\ u[k - 1] = v[n - 1] /\ u[k] = last
        BY <2>2, <3>1
      <4> QED BY <3>1, <4>1
    <3>2. CASE k # n
      <4>1. k \in 1..(n - 1) /\ k \in 0..n /\ k - 1 \in 0..n /\ k - 1 # n
        BY <2>2, <3>2
      <4>2. u[k] = v[k] /\ u[k - 1] = v[k - 1]
        BY <3>2, <4>1
      <4> QED BY <2>1, <4>1, <4>2
    <3> QED BY <3>1, <3>2
  <2> HIDE DEF u
  <2>7. Solves(u, n)
    BY <2>5, <2>6
  <2> HIDE DEF Solves
  <2> QED BY <2>4, <2>7
<1> HIDE DEF T
<1>5. N \in T
  <2>1. \A n \in 1..N : n - 1 \in T => n \in T
    BY <1>4
  <2>2. \A n \in 0..N : n \in T
    BY <1>1, <1>3, <2>1, UpTo
  <2> QED BY <1>1, <2>2
<1>6. PICK h \in [0..N -> Seq(Nat)] : Solves(h, N)
  BY <1>5 DEF T
<1>7. h = [i \in 0..N |-> IF i = 0 THEN <<>> ELSE h[i - 1] \o Octets(s[i])]
  <2> DEFINE g == [i \in 0..N |-> IF i = 0 THEN <<>> ELSE h[i - 1] \o Octets(s[i])]
  <2>1. ASSUME NEW i \in 0..N PROVE h[i] = g[i]
    <3>1. CASE i = 0
      BY <1>6, <3>1
    <3>2. CASE i # 0
      <4>1. i \in 1..N
        BY <1>1, <3>2
      <4> QED BY <1>6, <3>2, <4>1
    <3> QED BY <3>1, <3>2
  <2>2. DOMAIN g = 0..N /\ g = [i \in 0..N |-> g[i]]
    OBVIOUS
  <2> HIDE DEF g
  <2>3. h = g
    BY <2>1, <2>2
  <2> QED BY <2>3 DEF g
<1>8. upTo = [i \in 0..N |-> IF i = 0 THEN <<>> ELSE upTo[i - 1] \o Octets(s[i])]
  BY <1>7
<1>9. OctetsOf(s) = upTo[N]
  BY DEF OctetsOf, N
<1> HIDE DEF upTo
<1>10. upTo[0] = <<>> /\ \A k \in 1..N : upTo[k] = upTo[k - 1] \o Octets(s[k])
  <2>1. upTo[0] = <<>>
    BY <1>1, <1>8
  <2>2. ASSUME NEW k \in 1..N PROVE upTo[k] = upTo[k - 1] \o Octets(s[k])
    <3>1. k \in 0..N /\ k # 0
      BY <1>1
    <3> QED BY <1>8, <3>1, Zenon
  <2> QED BY <2>1, <2>2
<1>11. upTo \in [0..N -> Seq(Nat)]
  <2> DEFINE V == {k \in 0..N : upTo[k] = h[k]}
  <2>1. 0 \in V
    BY <1>1, <1>6, <1>10
  <2>2. ASSUME NEW k \in 1..N, k - 1 \in V PROVE k \in V
    <3>1. k \in 0..N /\ upTo[k - 1] = h[k - 1]
      BY <1>1, <2>2
    <3>2. upTo[k] = upTo[k - 1] \o Octets(s[k])
      BY <1>10
    <3>3. h[k] = h[k - 1] \o Octets(s[k])
      BY <1>6
    <3> QED BY <3>1, <3>2, <3>3
  <2> HIDE DEF V
  <2>3. \A k \in 0..N : k \in V
    BY <1>1, <2>1, <2>2, UpTo
  <2>4. \A k \in 0..N : upTo[k] = h[k]
    BY <2>3 DEF V
  <2> QED BY <1>6, <1>8, <2>4
<1> QED BY <1>9, <1>10, <1>11 DEF Gathers, N

\* Two such functions agree as far as their sequences do.
LEMMA GathersAgree ==
  ASSUME NEW s, NEW t, NEW n \in Nat, NEW u, NEW v,
         Gathers(u, s), Gathers(v, t),
         Len(s) \in Nat, Len(t) \in Nat, n <= Len(s), n <= Len(t),
         \A k \in 1..n : s[k] = t[k]
  PROVE  u[n] = v[n]
<1> DEFINE T == {k \in 0..n : u[k] = v[k]}
<1>1. 0 \in T
  BY DEF Gathers
<1>2. ASSUME NEW k \in 1..n, k - 1 \in T PROVE k \in T
  <2>1. k \in 1..Len(s) /\ k \in 1..Len(t) /\ k \in 0..n /\ u[k - 1] = v[k - 1]
    BY <1>2
  <2>2. u[k] = u[k - 1] \o Octets(s[k]) /\ v[k] = v[k - 1] \o Octets(t[k])
    BY <2>1 DEF Gathers
  <2>3. s[k] = t[k]
    OBVIOUS
  <2> QED BY <2>1, <2>2, <2>3
<1> HIDE DEF T
<1>3. \A k \in 1..n : k - 1 \in T => k \in T
  BY <1>2
<1>4. \A k \in 0..n : k \in T
  BY <1>1, <1>3, UpTo
<1>5. n \in T
  BY <1>4
<1> QED BY <1>5 DEF T

\* The octets of no frames, and of one more frame at the end.
LEMMA OctetsOfNone == OctetsOf(<<>>) = <<>>
<1>1. <<>> \in Seq(Frames) /\ Len(<<>>) = 0
  OBVIOUS
<1> QED BY <1>1, OctetsEquation DEF Gathers

LEMMA OctetsOfAppend ==
  ASSUME NEW s \in Seq(Frames), NEW f \in Frames
  PROVE  OctetsOf(Append(s, f)) = OctetsOf(s) \o Octets(f)
<1> DEFINE t == Append(s, f)
           n == Len(s)
<1>1. t \in Seq(Frames) /\ n \in Nat /\ Len(t) = n + 1 /\ t[n + 1] = f
      /\ \A k \in 1..n : s[k] = t[k]
  OBVIOUS
<1>2. PICK u : Gathers(u, s) /\ OctetsOf(s) = u[n]
  BY OctetsEquation
<1>3. PICK v : Gathers(v, t) /\ OctetsOf(t) = v[n + 1]
  BY <1>1, OctetsEquation
<1> HIDE DEF t, n
<1>4. u[n] = v[n]
  BY <1>1, <1>2, <1>3, GathersAgree DEF n
<1>5. n + 1 \in 1..Len(t) /\ (n + 1) - 1 = n
  BY <1>1
<1>6. v[n + 1] = v[n] \o Octets(t[n + 1])
  BY <1>3, <1>5 DEF Gathers
<1> QED BY <1>1, <1>2, <1>3, <1>4, <1>6 DEF t

\* The elements of both parts.
LEMMA ConcatElements ==
  ASSUME NEW a \in Seq(Nat), NEW b \in Seq(Nat)
  PROVE  /\ a \o b \in Seq(Nat) /\ Len(a \o b) = Len(a) + Len(b)
         /\ \A i \in 1..Len(a) : (a \o b)[i] = a[i]
         /\ \A i \in 1..Len(b) : (a \o b)[Len(a) + i] = b[i]
OBVIOUS

\* The octets of a sequence begin with those of its first frame.
LEMMA OctetsOfFirst ==
  ASSUME NEW s \in Seq(Frames), NEW t \in Seq(Frames), Len(s) = Len(t) + 1,
         \A k \in 1..Len(t) : s[k + 1] = t[k]
  PROVE  OctetsOf(s) = Octets(s[1]) \o OctetsOf(t)
<1> DEFINE n == Len(t)
           o == Octets(s[1])
<1>1. PICK u \in [0..(n + 1) -> Seq(Nat)] : Gathers(u, s) /\ OctetsOf(s) = u[n + 1]
  BY OctetsEquation
<1>2. PICK v \in [0..n -> Seq(Nat)] : Gathers(v, t) /\ OctetsOf(t) = v[n]
  BY OctetsEquation
<1>3. n \in Nat /\ o \in Seq(Nat) /\ \A k \in 1..n : Octets(t[k]) \in Seq(Nat)
  BY CodecAssumption
<1> DEFINE T == {k \in 0..n : u[k + 1] = o \o v[k]}
<1>4. 0 \in T
  <2>1. 1 \in 1..Len(s) /\ 1 - 1 = 0
    BY <1>3
  <2>2. u[1] = <<>> \o o
    BY <1>1, <2>1 DEF Gathers
  <2>3. <<>> \o o = o /\ o \o <<>> = o
    BY <1>3
  <2>4. 0 \in 0..n /\ 0 + 1 = 1 /\ v[0] = <<>>
    BY <1>2, <1>3 DEF Gathers
  <2> HIDE DEF o
  <2> QED BY <2>2, <2>3, <2>4
<1>5. ASSUME NEW k \in 1..n, k - 1 \in T PROVE k \in T
  <2>1. k \in 0..n /\ k - 1 \in 0..n /\ k + 1 \in 1..Len(s) /\ (k + 1) - 1 = k /\ (k - 1) + 1 = k
    BY <1>3
  <2>2. u[k + 1] = u[k] \o Octets(s[k + 1])
    BY <1>1, <2>1 DEF Gathers
  <2>3. v[k] = v[k - 1] \o Octets(t[k]) /\ s[k + 1] = t[k]
    BY <1>2 DEF Gathers
  <2>4. u[k] = o \o v[k - 1]
    BY <1>5, <2>1
  <2>5. v[k - 1] \in Seq(Nat) /\ Octets(t[k]) \in Seq(Nat)
    BY <1>2, <1>3, <2>1
  <2> HIDE DEF o
  <2>6. (o \o v[k - 1]) \o Octets(t[k]) = o \o (v[k - 1] \o Octets(t[k]))
    BY <1>3, <2>5, ConcatOctets
  <2>7. u[k + 1] = o \o v[k]
    BY <2>2, <2>3, <2>4, <2>6
  <2> QED BY <2>1, <2>7
<1> HIDE DEF T
<1>6. \A k \in 1..n : k - 1 \in T => k \in T
  BY <1>5
<1>7. \A k \in 0..n : k \in T
  BY <1>3, <1>4, <1>6, UpTo
<1>8. n \in T
  BY <1>3, <1>7
<1> QED BY <1>1, <1>2, <1>8 DEF T

\* Of two ways to cut the same octets, the longer first part begins with the shorter.
LEMMA CutTwice ==
  ASSUME NEW a \in Seq(Nat), NEW b \in Seq(Nat), NEW c \in Seq(Nat), NEW d \in Seq(Nat),
         a \o b = c \o d, Len(c) <= Len(a)
  PROVE  /\ \A i \in 1..Len(c) : a[i] = c[i]
         /\ SubSeq(a, 1, Len(c)) = c
         /\ SubSeq(a, Len(c) + 1, Len(a)) \in Seq(Nat)
         /\ SubSeq(a, Len(c) + 1, Len(a)) \o b = d
<1> DEFINE la == Len(a)
           lb == Len(b)
           lc == Len(c)
           ld == Len(d)
           r == SubSeq(a, lc + 1, la)
<1>1. la \in Nat /\ lb \in Nat /\ lc \in Nat /\ ld \in Nat /\ lc <= la
  OBVIOUS
<1>2. la + lb = lc + ld
  <2>1. Len(a \o b) = la + lb /\ Len(c \o d) = lc + ld
    OBVIOUS
  <2> QED BY <2>1
<1>3. ASSUME NEW i \in 1..lc PROVE a[i] = c[i]
  <2>1. (a \o b)[i] = a[i] /\ (c \o d)[i] = c[i]
    BY <1>1
  <2> QED BY <2>1
<1>4. SubSeq(a, 1, lc) = c
  <2>1. SubSeq(a, 1, lc) \in Seq(Nat) /\ Len(SubSeq(a, 1, lc)) = lc
        /\ \A i \in 1..lc : SubSeq(a, 1, lc)[i] = a[i]
    BY <1>1
  <2> QED BY <1>3, <2>1, SeqEqual
<1>5. r \in Seq(Nat) /\ Len(r) = la - lc /\ \A i \in 1..(la - lc) : r[i] = a[lc + i]
  BY <1>1, SMTT(30)
<1> HIDE DEF r
<1>9. \A k \in 1..lb : (a \o b)[la + k] = b[k]
  BY ConcatElements
<1>10. /\ r \o b \in Seq(Nat) /\ Len(r \o b) = Len(r) + lb
       /\ \A k \in 1..Len(r) : (r \o b)[k] = r[k]
       /\ \A k \in 1..lb : (r \o b)[Len(r) + k] = b[k]
  BY <1>5, ConcatElements
<1>6. r \o b \in Seq(Nat) /\ Len(r \o b) = ld
  BY <1>1, <1>2, <1>5, <1>10
<1>7. ASSUME NEW i \in 1..ld PROVE (r \o b)[i] = d[i]
  <2>1. (c \o d)[lc + i] = d[i]
    BY ConcatElements
  <2>2. CASE i <= la - lc
    <3>1. i \in 1..(la - lc) /\ lc + i \in 1..la
      BY <1>1, <2>2
    <3>2. (r \o b)[i] = r[i]
      BY <1>5, <1>10, <3>1
    <3>3. (a \o b)[lc + i] = a[lc + i]
      BY <3>1, ConcatElements
    <3> QED BY <1>5, <2>1, <3>1, <3>2, <3>3
  <2>3. CASE i > la - lc
    <3> DEFINE j == i - (la - lc)
    <3>1. j \in 1..lb /\ i = (la - lc) + j /\ lc + i = la + j
      BY <1>1, <1>2, <2>3
    <3> HIDE DEF j
    <3>2. (r \o b)[Len(r) + j] = b[j]
      BY <1>10, <3>1, Zenon
    <3>3. (a \o b)[la + j] = b[j]
      BY <1>9, <3>1, Zenon
    <3> QED BY <1>5, <2>1, <3>1, <3>2, <3>3
  <2>4. i <= la - lc \/ i > la - lc
    BY <1>1
  <2> QED BY <2>2, <2>3, <2>4
<1>8. r \o b = d
  BY <1>6, <1>7, SeqEqual
<1> QED BY <1>3, <1>4, <1>5, <1>8 DEF r

-----------------------------------------------------------------------------
LEMMA UndeliveredFacts ==
  ASSUME NEW w \in Seq(Frames), NEW n \in Nat, n < Len(w)
  PROVE  LET s == SubSeq(w, n + 1, Len(w))
             t == SubSeq(w, (n + 1) + 1, Len(w)) IN
         /\ s \in Seq(Frames) /\ t \in Seq(Frames)
         /\ Len(s) = Len(t) + 1 /\ s[1] = w[n + 1]
         /\ \A k \in 1..Len(t) : s[k + 1] = t[k]
<1> DEFINE s == SubSeq(w, n + 1, Len(w))
           t == SubSeq(w, (n + 1) + 1, Len(w))
           l == Len(w)
<1>1. l \in Nat /\ n < l
  OBVIOUS
<1>2. s \in Seq(Frames) /\ Len(s) = l - n /\ \A k \in 1..(l - n) : s[k] = w[n + k]
  BY <1>1
<1>3. t \in Seq(Frames) /\ Len(t) = l - n - 1 /\ \A k \in 1..(l - n - 1) : t[k] = w[(n + 1) + k]
  BY <1>1
<1> HIDE DEF s, t, l
<1>4. 1 \in 1..(l - n) /\ Len(s) = Len(t) + 1
  BY <1>1, <1>2, <1>3
<1>5. s[1] = w[n + 1]
  BY <1>2, <1>4
<1>6. ASSUME NEW k \in 1..Len(t) PROVE s[k + 1] = t[k]
  <2>1. k + 1 \in 1..(l - n) /\ k \in 1..(l - n - 1) /\ n + (k + 1) = (n + 1) + k
    BY <1>1, <1>3
  <2>2. s[k + 1] = w[n + (k + 1)] /\ t[k] = w[(n + 1) + k]
    BY <1>2, <1>3, <2>1
  <2> QED BY <2>1, <2>2
<1> QED BY <1>2, <1>3, <1>4, <1>5, <1>6 DEF s, t

\* When what is held has the octets of a frame, they are those of the next frame to be
\* delivered, and what is past them continues with the one after it.
LEMMA NextFrame ==
  ASSUME ReaderTypeOK, NothingLost, reading, HasFrame
  PROVE  LET f == written[Len(delivered) + 1] IN
         /\ Len(delivered) < Len(written) /\ f \in Frames
         /\ Whole = Octets(f)
         /\ Rest \in Seq(Nat)
         /\ Rest \o inTransit =
              OctetsOf(SubSeq(written, (Len(delivered) + 1) + 1, Len(written)))
<1> DEFINE n == Len(delivered)
           w == written
           f == w[n + 1]
           s == SubSeq(w, n + 1, Len(w))
           t == SubSeq(w, (n + 1) + 1, Len(w))
           c == Octets(f)
           h == HeaderLength
<1>1. /\ w \in Seq(Frames) /\ n \in Nat /\ n <= Len(w) /\ Len(w) \in Nat
      /\ held \in Seq(Nat) /\ inTransit \in Seq(Nat)
      /\ h \in Nat \ {0} /\ h <= Len(held) /\ Len(held) \in Nat
  BY CodecAssumption DEF ReaderTypeOK, HasFrame
<1>2. held \o inTransit = OctetsOf(s)
  BY DEF NothingLost
<1>3. n < Len(w)
  <2>1. SUFFICES ASSUME n = Len(w) PROVE FALSE
    BY <1>1
  <2>2. s = <<>>
    BY <1>1, <2>1
  <2>3. held \o inTransit = <<>>
    BY <1>2, <2>2, OctetsOfNone
  <2>4. Len(held \o inTransit) = Len(held) + Len(inTransit) /\ Len(inTransit) \in Nat
    BY <1>1
  <2> QED BY <1>1, <2>3, <2>4
<1>4. /\ s \in Seq(Frames) /\ t \in Seq(Frames)
      /\ Len(s) = Len(t) + 1 /\ s[1] = f
      /\ \A k \in 1..Len(t) : s[k + 1] = t[k]
  BY <1>1, <1>3, UndeliveredFacts
<1>5. f \in Frames
  BY <1>1, <1>3
<1>6. c \in Seq(Nat) /\ Len(c) \in Nat /\ h <= Len(c) /\ Total(SubSeq(c, 1, h)) = Len(c)
  BY <1>5, CodecAssumption
<1> HIDE DEF n, w, f, s, t, c, h
<1>7. OctetsOf(s) = c \o OctetsOf(t)
  BY <1>4, OctetsOfFirst DEF c
<1>8. OctetsOf(t) \in Seq(Nat)
  <2>1. PICK u \in [0..Len(t) -> Seq(Nat)] : OctetsOf(t) = u[Len(t)]
    BY <1>4, OctetsEquation
  <2>2. Len(t) \in 0..Len(t)
    BY <1>4
  <2> QED BY <2>1, <2>2
<1>9. held \o inTransit = c \o OctetsOf(t)
  BY <1>2, <1>7
\* Both begin with the same frame header, so the length found in it is that of f.
<1>10. SubSeq(held, 1, h) = SubSeq(c, 1, h)
  <2>1. ASSUME NEW i \in 1..h PROVE held[i] = c[i]
    <3>1. i \in 1..Len(held) /\ i \in 1..Len(c)
      BY <1>1, <1>6
    <3>2. (held \o inTransit)[i] = held[i]
      BY <1>1, <3>1, ConcatElements
    <3>3. (c \o OctetsOf(t))[i] = c[i]
      BY <1>6, <1>8, <3>1, ConcatElements
    <3> QED BY <1>9, <3>2, <3>3
  <2>2. /\ SubSeq(held, 1, h) \in Seq(Nat) /\ Len(SubSeq(held, 1, h)) = h
        /\ \A i \in 1..h : SubSeq(held, 1, h)[i] = held[i]
    BY <1>1
  <2>3. /\ SubSeq(c, 1, h) \in Seq(Nat) /\ Len(SubSeq(c, 1, h)) = h
        /\ \A i \in 1..h : SubSeq(c, 1, h)[i] = c[i]
    BY <1>1, <1>6
  <2> QED BY <2>1, <2>2, <2>3, SeqEqual
<1>11. HeldTotal = Len(c)
  BY <1>6, <1>10 DEF HeldTotal, h
<1>12. Len(c) <= Len(held)
  BY <1>11 DEF HasFrame
<1>13. Whole = SubSeq(held, 1, Len(c)) /\ Rest = SubSeq(held, Len(c) + 1, Len(held))
  BY <1>11, Zenon DEF Whole, Rest
<1>14. /\ SubSeq(held, 1, Len(c)) = c
       /\ SubSeq(held, Len(c) + 1, Len(held)) \in Seq(Nat)
       /\ SubSeq(held, Len(c) + 1, Len(held)) \o inTransit = OctetsOf(t)
  BY <1>1, <1>6, <1>8, <1>9, <1>12, CutTwice, ZenonT(60)
<1>15. Whole = c /\ Rest \in Seq(Nat) /\ Rest \o inTransit = OctetsOf(t)
  BY <1>13, <1>14, Zenon
<1> QED BY <1>3, <1>5, <1>15 DEF n, w, f, t, c

\* A sequence cut in two, put together again.
LEMMA CutAndJoin ==
  ASSUME NEW a \in Seq(Nat), NEW n \in 1..Len(a)
  PROVE  LET b == SubSeq(a, 1, n)
             c == SubSeq(a, n + 1, Len(a)) IN
         b \in Seq(Nat) /\ c \in Seq(Nat) /\ b \o c = a
<1> DEFINE l == Len(a)
           b == SubSeq(a, 1, n)
           c == SubSeq(a, n + 1, l)
<1>1. l \in Nat /\ n \in 1..l
  OBVIOUS
<1>2. b \in Seq(Nat) /\ Len(b) = n /\ \A i \in 1..n : b[i] = a[i]
  BY <1>1
<1>3. c \in Seq(Nat) /\ Len(c) = l - n /\ \A i \in 1..(l - n) : c[i] = a[n + i]
  BY <1>1
<1> HIDE DEF b, c, l
<1>4. b \o c \in Seq(Nat) /\ Len(b \o c) = l
  <2>1. b \o c \in Seq(Nat) /\ Len(b \o c) = Len(b) + Len(c)
    BY <1>2, <1>3, ConcatElements
  <2>2. Len(b) + Len(c) = l
    BY <1>1, <1>2, <1>3
  <2> QED BY <2>1, <2>2
<1>5. ASSUME NEW i \in 1..l PROVE (b \o c)[i] = a[i]
  <2>1. CASE i <= n
    <3>1. i \in 1..n
      BY <1>1, <2>1
    <3> QED BY <1>2, <1>3, <3>1, ConcatElements
  <2>2. CASE i > n
    <3> DEFINE j == i - n
    <3>1. j \in 1..(l - n) /\ i = n + j
      BY <1>1, <2>2
    <3> HIDE DEF j
    <3>2. (b \o c)[Len(b) + j] = c[j]
      <4>1. j \in 1..Len(c)
        BY <1>3, <3>1
      <4>2. \A k \in 1..Len(c) : (b \o c)[Len(b) + k] = c[k]
        BY <1>2, <1>3, ConcatElements
      <4> QED BY <4>1, <4>2, Zenon
    <3> QED BY <1>2, <1>3, <3>1, <3>2
  <2>3. i <= n \/ i > n
    BY <1>1
  <2> QED BY <2>1, <2>2, <2>3
<1>6. b \o c = a
  BY <1>4, <1>5, SeqEqual DEF l
<1> QED BY <1>2, <1>3, <1>6 DEF b, c, l

LEMMA UndeliveredAppend ==
  ASSUME NEW w \in Seq(Frames), NEW n \in Nat, n <= Len(w), NEW f \in Frames
  PROVE  /\ SubSeq(w, n + 1, Len(w)) \in Seq(Frames)
         /\ SubSeq(Append(w, f), n + 1, Len(Append(w, f)))
              = Append(SubSeq(w, n + 1, Len(w)), f)
<1> DEFINE l == Len(w)
           s == SubSeq(w, n + 1, l)
           x == Append(w, f)
           t == SubSeq(x, n + 1, l + 1)
<1>1. l \in Nat /\ n <= l
  OBVIOUS
<1>2. x \in Seq(Frames) /\ Len(x) = l + 1 /\ x[l + 1] = f /\ \A i \in 1..l : x[i] = w[i]
  OBVIOUS
<1>3. s \in Seq(Frames) /\ Len(s) = l - n /\ \A i \in 1..(l - n) : s[i] = w[n + i]
  BY <1>1
<1> HIDE DEF x
<1>4. t \in Seq(Frames) /\ Len(t) = l - n + 1 /\ \A i \in 1..(l - n + 1) : t[i] = x[n + i]
  BY <1>1, <1>2
<1> HIDE DEF s, t, l
<1>5. /\ Append(s, f) \in Seq(Frames) /\ Len(Append(s, f)) = l - n + 1
      /\ Append(s, f)[l - n + 1] = f
      /\ \A i \in 1..(l - n) : Append(s, f)[i] = s[i]
  BY <1>1, <1>3
<1>6. ASSUME NEW i \in 1..(l - n + 1) PROVE t[i] = Append(s, f)[i]
  <2>1. CASE i = l - n + 1
    <3>1. n + i = l + 1
      BY <1>1, <2>1
    <3> QED BY <1>2, <1>4, <1>5, <2>1, <3>1
  <2>2. CASE i # l - n + 1
    <3>1. i \in 1..(l - n) /\ n + i \in 1..l
      BY <1>1, <2>2
    <3> QED BY <1>2, <1>3, <1>4, <1>5, <3>1
  <2> QED BY <2>1, <2>2
<1>7. t = Append(s, f)
  BY <1>4, <1>5, <1>6, SeqEqual
<1> QED BY <1>2, <1>3, <1>7 DEF s, t, l, x

-----------------------------------------------------------------------------
\* Inductive as it stands: ReaderTypeOK is what makes the sequences of NothingLost
\* sequences, and NothingLost is what makes the frame that Deliver adds a frame.
ReaderInv == ReaderTypeOK /\ NothingLost

LEMMA ReaderInitInv == ReaderInit => ReaderInv
<1> SUFFICES ASSUME ReaderInit PROVE ReaderInv
  OBVIOUS
<1>1. ReaderTypeOK
  <2>1. <<>> \in Seq(Frames) /\ <<>> \in Seq(Nat) /\ Len(<<>>) <= Len(<<>>)
    OBVIOUS
  <2> QED BY <2>1, Zenon DEF ReaderInit, ReaderTypeOK
<1>2. held \o inTransit = <<>> /\ SubSeq(written, Len(delivered) + 1, Len(written)) = <<>>
  BY DEF ReaderInit
<1>3. NothingLost
  BY <1>2, OctetsOfNone, Zenon DEF NothingLost
<1> QED BY <1>1, <1>3 DEF ReaderInv

LEMMA ReaderStepInv == ReaderInv /\ [ReaderNext]_readerVars => ReaderInv'
<1> SUFFICES ASSUME ReaderInv, [ReaderNext]_readerVars PROVE ReaderInv'
  OBVIOUS
<1> USE DEF ReaderInv
<1>1. ASSUME NEW f \in Frames, PeerWrite(f) PROVE ReaderInv'
  <2>1. Octets(f) \in Seq(Nat)
    BY CodecAssumption
  <2>2. ReaderTypeOK'
    BY <1>1, <2>1 DEF ReaderTypeOK, PeerWrite
  <2>3. ASSUME reading
        PROVE  held \o (inTransit \o Octets(f))
                 = OctetsOf(SubSeq(Append(written, f), Len(delivered) + 1, Len(Append(written, f))))
    <3> DEFINE s == SubSeq(written, Len(delivered) + 1, Len(written))
    <3>1. /\ written \in Seq(Frames) /\ Len(delivered) \in Nat /\ Len(delivered) <= Len(written)
          /\ held \in Seq(Nat) /\ inTransit \in Seq(Nat)
      BY DEF ReaderTypeOK
    <3>2. s \in Seq(Frames)
          /\ SubSeq(Append(written, f), Len(delivered) + 1, Len(Append(written, f))) = Append(s, f)
      BY <3>1, UndeliveredAppend
    <3>3. OctetsOf(Append(s, f)) = OctetsOf(s) \o Octets(f)
      BY <3>2, OctetsOfAppend
    <3>4. held \o inTransit = OctetsOf(s)
      BY <2>3 DEF NothingLost
    <3>5. (held \o inTransit) \o Octets(f) = held \o (inTransit \o Octets(f))
      BY <2>1, <3>1, ConcatOctets
    <3> HIDE DEF s
    <3> QED BY <3>2, <3>3, <3>4, <3>5, Zenon
  <2>4. NothingLost'
    BY <1>1, <2>3, Zenon DEF NothingLost, PeerWrite
  <2> QED BY <2>2, <2>4
<1>2. ASSUME NEW n \in 1..Len(inTransit), ReadChunk(n) PROVE ReaderInv'
  <2> DEFINE b == SubSeq(inTransit, 1, n)
             c == SubSeq(inTransit, n + 1, Len(inTransit))
  <2>1. held \in Seq(Nat) /\ inTransit \in Seq(Nat)
    BY DEF ReaderTypeOK
  <2>2. b \in Seq(Nat) /\ c \in Seq(Nat) /\ b \o c = inTransit
    BY <2>1, CutAndJoin
  <2>3. /\ held' = held \o b /\ inTransit' = c /\ reading
        /\ UNCHANGED <<written, delivered, closed, reading>>
    BY <1>2 DEF ReadChunk
  <2> HIDE DEF b, c
  <2>4. held \o b \in Seq(Nat)
    BY <2>1, <2>2
  <2>5. ReaderTypeOK'
    BY <2>2, <2>3, <2>4 DEF ReaderTypeOK
  <2>6. (held \o b) \o c = held \o inTransit
    BY <2>1, <2>2, ConcatOctets
  <2>7. NothingLost'
    BY <2>3, <2>6, Zenon DEF NothingLost
  <2> QED BY <2>5, <2>7
<1>3. CASE Deliver
  <2> DEFINE f == written[Len(delivered) + 1]
  <2>1. reading /\ HasFrame /\ held' = Rest /\ Parse(Whole) # Bad
        /\ delivered' = Append(delivered, Parse(Whole)) /\ UNCHANGED <<written, inTransit>>
        /\ closed' \in BOOLEAN /\ reading' = ~closed'
    BY <1>3 DEF Deliver, CutFrame, ReaderTypeOK
  <2>2. /\ Len(delivered) < Len(written) /\ f \in Frames /\ Whole = Octets(f)
        /\ Rest \in Seq(Nat)
        /\ Rest \o inTransit =
             OctetsOf(SubSeq(written, (Len(delivered) + 1) + 1, Len(written)))
    BY <2>1, NextFrame
  <2>3. Parse(Whole) = f
    BY <2>1, <2>2, CodecAssumption
  <2> HIDE DEF f
  <2>4. delivered' \in Seq(Frames) /\ Len(delivered') = Len(delivered) + 1
    BY <2>1, <2>2, <2>3 DEF ReaderTypeOK
  <2>5. ReaderTypeOK'
    <3>1. Len(delivered') <= Len(written)
      BY <2>2, <2>4 DEF ReaderTypeOK
    <3>2. reading' \in BOOLEAN /\ (reading' \/ closed')
      BY <2>1, Zenon
    <3>3. written' = written /\ inTransit' = inTransit /\ held' = Rest
      BY <2>1
    <3> QED BY <2>1, <2>2, <2>4, <3>1, <3>2, <3>3, Zenon DEF ReaderTypeOK
  <2>6. NothingLost'
    BY <2>1, <2>2, <2>4, Zenon DEF NothingLost
  <2> QED BY <2>5, <2>6
<1>4. CASE RefuseFrame
  <2>1. reading /\ HasFrame /\ held' = Rest /\ ~reading' /\ closed' = TRUE /\ reading' = FALSE
        /\ UNCHANGED <<written, inTransit, delivered>>
    BY <1>4 DEF RefuseFrame, CutFrame
  <2>2. Rest \in Seq(Nat)
    BY <2>1, NextFrame
  <2> QED BY <2>1, <2>2 DEF ReaderTypeOK, NothingLost
<1>5. CASE ReadFails
  BY <1>5 DEF ReadFails, ReaderTypeOK, NothingLost
<1>6. CASE CloseReader
  <2>1. closed' = TRUE /\ UNCHANGED <<written, inTransit, held, delivered, reading>>
    BY <1>6 DEF CloseReader
  <2>2. ReaderTypeOK'
    BY <2>1 DEF ReaderTypeOK
  <2>3. NothingLost'
    BY <2>1, Zenon DEF NothingLost
  <2> QED BY <2>2, <2>3
<1>7. CASE UNCHANGED readerVars
  <2>1. UNCHANGED <<written, inTransit, held, delivered, closed, reading>>
    BY <1>7 DEF readerVars
  <2>2. ReaderTypeOK'
    BY <2>1 DEF ReaderTypeOK
  <2>3. NothingLost'
    BY <2>1, Zenon DEF NothingLost
  <2> QED BY <2>2, <2>3
<1> QED BY <1>1, <1>2, <1>3, <1>4, <1>5, <1>6, <1>7 DEF ReaderNext

LEMMA ReaderInvariant == ReaderSpec => []ReaderInv
<1>1. ReaderInit => ReaderInv
  BY ReaderInitInv
<1>2. ReaderInv /\ [ReaderNext]_readerVars => ReaderInv'
  BY ReaderStepInv
<1> QED BY <1>1, <1>2, PTL DEF ReaderSpec

-----------------------------------------------------------------------------
\* readOneFrame and readLoop keep the shape of their state, and the loop never ends
\* while the connection stays open, whatever the peer writes.
THEOREM ReaderTypeCorrect == ReaderSpec => []ReaderTypeOK
<1>1. ReaderInv => ReaderTypeOK
  BY DEF ReaderInv
<1> QED BY <1>1, ReaderInvariant, PTL

\* However the transport cuts the octets, readOneFrame loses none, keeps none twice and
\* always cuts at the end of a frame.
THEOREM ReaderLosesNothing == ReaderSpec => []NothingLost
<1>1. ReaderInv => NothingLost
  BY DEF ReaderInv
<1> QED BY <1>1, ReaderInvariant, PTL

\* The read loop implements the queue of frames: it dispatches the frames the peer wrote,
\* in order, each once, and none after it has stopped.
THEOREM ReaderIsAQueue == ReaderSpec => Queue!SafeSpec
<1>1. ReaderInit => Queue!Init
  BY DEF ReaderInit, Queue!Init
<1>2. ReaderInv /\ [ReaderNext]_readerVars
        => [Queue!Next]_<<written, delivered, ~reading>>
  <2> SUFFICES ASSUME ReaderInv, [ReaderNext]_readerVars
               PROVE  [Queue!Next]_<<written, delivered, ~reading>>
    OBVIOUS
  <2> USE DEF ReaderInv
  <2>1. ASSUME NEW f \in Frames, PeerWrite(f) PROVE Queue!Write
    <3>1. written' = Append(written, f) /\ UNCHANGED <<delivered, reading>>
      BY <2>1 DEF PeerWrite
    <3> QED BY <3>1 DEF Queue!Write
  <2>2. ASSUME NEW n \in 1..Len(inTransit), ReadChunk(n)
        PROVE  UNCHANGED <<written, delivered, ~reading>>
    BY <2>2 DEF ReadChunk
  <2>3. CASE Deliver
    <3>1. reading /\ HasFrame /\ Parse(Whole) # Bad
          /\ delivered' = Append(delivered, Parse(Whole)) /\ written' = written
          /\ closed' \in BOOLEAN /\ reading' = ~closed'
      BY <2>3 DEF Deliver, CutFrame, ReaderTypeOK
    <3>2. /\ Len(delivered) < Len(written) /\ written[Len(delivered) + 1] \in Frames
          /\ Whole = Octets(written[Len(delivered) + 1])
      BY <3>1, NextFrame
    <3>3. Parse(Whole) = written[Len(delivered) + 1]
      BY <3>1, <3>2, CodecAssumption
    <3>4. (~reading') \in BOOLEAN
      BY <3>1, Zenon
    <3>5. Queue!Deliver
      BY <3>1, <3>2, <3>3, <3>4, Zenon DEF Queue!Deliver
    <3> QED BY <3>5 DEF Queue!Next
  <2>4. CASE RefuseFrame
    <3>1. Queue!Stop
      BY <2>4 DEF RefuseFrame, Queue!Stop
    <3> QED BY <3>1 DEF Queue!Next
  <2>5. CASE ReadFails
    <3>1. Queue!Stop
      BY <2>5 DEF ReadFails, Queue!Stop
    <3> QED BY <3>1 DEF Queue!Next
  <2>6. CASE CloseReader
    BY <2>6 DEF CloseReader
  <2>7. CASE UNCHANGED readerVars
    BY <2>7 DEF readerVars
  <2> QED BY <2>1, <2>2, <2>3, <2>4, <2>5, <2>6, <2>7 DEF ReaderNext, Queue!Next
<1> QED BY <1>1, <1>2, ReaderInvariant, PTL DEF ReaderSpec, Queue!SafeSpec
-----------------------------------------------------------------------------
\* Each of F has a name of its own.
NamesDiffer(F) == \A f, g \in F : f[1] = g[1] => f = g

\* Under such names to set a field that the map has changes nothing.
LEMMA MapSetFacts ==
  ASSUME NEW F, NamesDiffer(F), NEW map \in Seq(F), NEW field \in F
  PROVE  \/ MapSet(map, field) = map /\ \E i \in 1..Len(map) : map[i] = field
         \/ MapSet(map, field) = Append(map, field) /\ \A i \in 1..Len(map) : map[i] # field
<1>1. Len(map) \in Nat /\ DOMAIN map = 1..Len(map) /\ \A i \in 1..Len(map) : map[i] \in F
  OBVIOUS
<1>2. CASE \E i \in DOMAIN map : map[i][1] = field[1]
  <2>1. PICK i \in 1..Len(map) : map[i][1] = field[1]
    BY <1>1, <1>2
  <2>2. map[i] = field
    BY <1>1, <2>1, Zenon DEF NamesDiffer
  <2>3. \A j \in DOMAIN map : map[j][1] = field[1] => map[j] = field
    BY <1>1, Zenon DEF NamesDiffer
  <2>4. [j \in DOMAIN map |-> IF map[j][1] = field[1] THEN field ELSE map[j]] = map
    <3>1. \A j \in DOMAIN map : (IF map[j][1] = field[1] THEN field ELSE map[j]) = map[j]
      BY <2>3
    <3>2. map = [j \in DOMAIN map |-> map[j]]
      OBVIOUS
    <3> QED BY <3>1, <3>2
  <2>5. MapSet(map, field) = map
    BY <1>2, <2>4 DEF MapSet
  <2> QED BY <2>2, <2>5
<1>3. CASE ~\E i \in DOMAIN map : map[i][1] = field[1]
  <2>1. MapSet(map, field) = Append(map, field)
    BY <1>3, Zenon DEF MapSet
  <2>2. \A i \in 1..Len(map) : map[i] # field
    BY <1>1, <1>3, Zenon
  <2> QED BY <2>1, <2>2
<1> QED BY <1>2, <1>3

\* A turn of a loop that makes a Map.
Turn(turns, k, map) ==
  IF turns[k] = {} THEN map ELSE MapSet(map, CHOOSE f \in turns[k] : TRUE)

\* Each turn sets a field of F, or none.
Setting(turns, F) ==
  /\ turns \in Seq(SUBSET F)
  /\ \A k \in 1..Len(turns) : \A f, g \in turns[k] : f = g

LEMMA TurnTyped ==
  ASSUME NEW F, NamesDiffer(F), NEW turns, Setting(turns, F), NEW k \in 1..Len(turns),
         NEW map \in Seq(F)
  PROVE  Turn(turns, k, map) \in Seq(F)
<1>1. PICK f : f = CHOOSE g \in turns[k] : TRUE
  OBVIOUS
<1>2. turns[k] \subseteq F
  BY DEF Setting
<1>3. CASE turns[k] = {}
  BY <1>3 DEF Turn
<1>4. CASE turns[k] # {}
  <2>1. f \in F
    BY <1>1, <1>2, <1>4
  <2>2. MapSet(map, f) \in Seq(F)
    BY <2>1, MapSetFacts
  <2> QED BY <1>1, <1>4, <2>2 DEF Turn
<1> QED BY <1>3, <1>4

LEMMA MapEquation ==
  ASSUME NEW F, NamesDiffer(F), NEW turns, Setting(turns, F)
  PROVE  \E u \in [0..Len(turns) -> Seq(F)] :
           /\ u[0] = <<>> /\ \A k \in 1..Len(turns) : u[k] = Turn(turns, k, u[k - 1])
           /\ MapSetAll(turns) = u[Len(turns)]
<1> DEFINE N == Len(turns)
           Solution(f) == f = [i \in 0..N |-> IF i = 0 THEN <<>> ELSE
                IF turns[i] = {} THEN f[i - 1]
                ELSE MapSet(f[i - 1], CHOOSE g \in turns[i] : TRUE)]
           map == CHOOSE f : Solution(f)
           V == Seq(F)
           step == [p \in (1..N) \X V |-> Turn(turns, p[1], p[2])]
<1>1. N \in Nat /\ <<>> \in V
  BY DEF Setting
<1>2. step \in Steps(N, V) /\ \A k \in 1..N, c \in V : step[<<k, c>>] = Turn(turns, k, c)
  <2>1. \A k \in 1..N, c \in V : Turn(turns, k, c) \in V
    BY TurnTyped
  <2> HIDE DEF N, V
  <2>2. \A p \in (1..N) \X V : Turn(turns, p[1], p[2]) \in V
    BY <2>1
  <2> QED BY <2>2 DEF Steps
<1>3. PICK h \in [0..N -> V] : h[0] = <<>> /\ \A k \in 1..N : h[k] = step[<<k, h[k - 1]>>]
  <2> HIDE DEF step, V, N
  <2> QED BY <1>1, <1>2, RecursionExists
<1>4. ASSUME NEW k \in 1..N PROVE h[k] = Turn(turns, k, h[k - 1])
  <2> HIDE DEF N, V, step
  <2>1. k - 1 \in 0..N
    BY <1>1
  <2>2. h[k - 1] \in V
    BY <2>1
  <2> QED BY <1>2, <1>3, <2>2
<1>5. Solution(h)
  <2> HIDE DEF N, step
  <2>1. h = [i \in 0..N |-> h[i]] /\ \A i \in 0..N : i # 0 => i \in 1..N
    BY <1>1
  <2> QED BY <1>3, <1>4, <2>1 DEF Turn
<1>6. Solution(map)
  <2> HIDE DEF Solution
  <2> QED BY <1>5
<1>7. MapSetAll(turns) = map[N]
  BY DEF MapSetAll, map
<1> HIDE DEF map, step
<1>8. map[0] = <<>> /\ \A k \in 1..N : map[k] = Turn(turns, k, map[k - 1])
  <2> HIDE DEF N
  <2>1. 0 \in 0..N /\ \A k \in 1..N : k \in 0..N /\ k # 0
    BY <1>1
  <2> QED BY <1>6, <2>1 DEF Turn
<1>9. ASSUME NEW k \in 0..N PROVE map[k] = h[k]
  <2> DEFINE T == {i \in 0..N : map[i] = h[i]}
  <2>1. 0 \in T
    BY <1>1, <1>3, <1>8
  <2>2. ASSUME NEW i \in 1..N, i - 1 \in T PROVE i \in T
    BY <1>4, <1>8, <2>2
  <2> HIDE DEF T, N
  <2>3. \A i \in 0..N : i \in T
    BY <1>1, <2>1, <2>2, UpTo
  <2> QED BY <2>3 DEF T
<1>10. MapSetAll(turns) = h[N]
  <2> HIDE DEF N
  <2> QED BY <1>1, <1>7, <1>9
<1> QED BY <1>3, <1>4, <1>10

\* f is set in a turn before any that sets g.
Before(turns, f, g) ==
  \E a \in 1..Len(turns) : f \in turns[a] /\ \A b \in 1..a : g \notin turns[b]

\* The Map after k turns: the fields that these set, in the order of their first turns.
Built(turns, k, map) ==
  /\ \A i \in 1..Len(map) : \E a \in 1..k : map[i] \in turns[a]
  /\ \A a \in 1..k : \A f \in turns[a] : \E i \in 1..Len(map) : map[i] = f
  /\ \A i, j \in 1..Len(map) : i < j => Before(turns, map[i], map[j])

LEMMA BuiltNext ==
  ASSUME NEW F, NamesDiffer(F), NEW turns, Setting(turns, F), NEW k \in 1..Len(turns),
         NEW map \in Seq(F), Built(turns, k - 1, map)
  PROVE  Built(turns, k, Turn(turns, k, map))
<1>1. /\ turns[k] \subseteq F /\ \A f, g \in turns[k] : f = g
      /\ Len(turns) \in Nat /\ k \in Nat /\ k >= 1 /\ k <= Len(turns)
      /\ \A a \in 1..k : a = k \/ a \in 1..(k - 1)
      /\ \A a \in 1..(k - 1) : a \in 1..k
  BY DEF Setting
<1>2. CASE turns[k] = {}
  <2>1. Turn(turns, k, map) = map
    BY <1>2 DEF Turn
  <2>2. ASSUME NEW i \in 1..Len(map) PROVE \E a \in 1..k : map[i] \in turns[a]
    <3>1. PICK a \in 1..(k - 1) : map[i] \in turns[a]
      BY DEF Built
    <3> QED BY <1>1, <3>1
  <2>3. ASSUME NEW a \in 1..k, NEW f \in turns[a] PROVE \E i \in 1..Len(map) : map[i] = f
    <3>1. a \in 1..(k - 1)
      BY <1>1, <1>2
    <3> QED BY <3>1 DEF Built
  <2>4. \A i, j \in 1..Len(map) : i < j => Before(turns, map[i], map[j])
    BY DEF Built
  <2> QED BY <2>1, <2>2, <2>3, <2>4 DEF Built
<1>3. CASE turns[k] # {}
  <2>1. PICK f : f = CHOOSE g \in turns[k] : TRUE
    OBVIOUS
  <2>2. f \in turns[k] /\ f \in F /\ turns[k] = {f}
    BY <1>1, <1>3, <2>1
  <2>3. Turn(turns, k, map) = MapSet(map, f)
    BY <1>3, <2>1 DEF Turn
  <2>4. CASE MapSet(map, f) = map /\ \E i \in 1..Len(map) : map[i] = f
    <3>1. ASSUME NEW i \in 1..Len(map) PROVE \E a \in 1..k : map[i] \in turns[a]
      <4>1. PICK a \in 1..(k - 1) : map[i] \in turns[a]
        BY DEF Built
      <4> QED BY <1>1, <4>1
    <3>2. ASSUME NEW a \in 1..k, NEW g \in turns[a] PROVE \E i \in 1..Len(map) : map[i] = g
      <4>1. CASE a = k
        BY <2>2, <2>4, <4>1
      <4>2. CASE a \in 1..(k - 1)
        BY <4>2 DEF Built
      <4> QED BY <1>1, <4>1, <4>2
    <3>3. \A i, j \in 1..Len(map) : i < j => Before(turns, map[i], map[j])
      BY DEF Built
    <3> QED BY <2>3, <2>4, <3>1, <3>2, <3>3 DEF Built
  <2>5. CASE MapSet(map, f) = Append(map, f) /\ \A i \in 1..Len(map) : map[i] # f
    <3>1. PICK longer, n : longer = Append(map, f) /\ n = Len(map)
      OBVIOUS
    <3>2. /\ n \in Nat /\ Len(longer) = n + 1 /\ longer[n + 1] = f
          /\ \A i \in 1..n : longer[i] = map[i] /\ i \in 1..Len(longer)
          /\ n + 1 \in 1..Len(longer)
          /\ \A i \in 1..Len(longer) : i = n + 1 \/ i \in 1..n
      BY <2>2, <3>1
    <3>3. ASSUME NEW i \in 1..n PROVE \E a \in 1..(k - 1) : map[i] \in turns[a]
      BY <3>1 DEF Built
    <3>4. ASSUME NEW i \in 1..Len(longer) PROVE \E a \in 1..k : longer[i] \in turns[a]
      <4>1. CASE i = n + 1
        BY <1>1, <2>2, <3>2, <4>1
      <4>2. CASE i \in 1..n
        <5>1. PICK a \in 1..(k - 1) : map[i] \in turns[a]
          BY <3>3, <4>2
        <5> QED BY <1>1, <3>2, <4>2, <5>1
      <4> QED BY <3>2, <4>1, <4>2
    <3>5. ASSUME NEW a \in 1..k, NEW g \in turns[a]
          PROVE  \E i \in 1..Len(longer) : longer[i] = g
      <4>1. CASE a = k
        BY <2>2, <3>2, <4>1
      <4>2. CASE a \in 1..(k - 1)
        <5>1. PICK i \in 1..n : map[i] = g
          BY <3>1, <4>2 DEF Built
        <5> QED BY <3>2, <5>1
      <4> QED BY <1>1, <4>1, <4>2
    <3>6. \A a \in 1..(k - 1) : f \notin turns[a]
      BY <2>5 DEF Built
    <3>7. ASSUME NEW i \in 1..Len(longer), NEW j \in 1..Len(longer), i < j
          PROVE  Before(turns, longer[i], longer[j])
      <4>1. i \in 1..n
        BY <3>2, <3>7
      <4>2. CASE j = n + 1
        <5>1. PICK a \in 1..(k - 1) : map[i] \in turns[a]
          BY <3>3, <4>1
        <5>2. a \in 1..Len(turns) /\ \A b \in 1..a : b \in 1..(k - 1)
          BY <1>1
        <5> QED BY <3>2, <3>6, <4>1, <4>2, <5>1, <5>2 DEF Before
      <4>3. CASE j \in 1..n
        <5>1. Before(turns, map[i], map[j])
          BY <3>1, <3>7, <4>1, <4>3 DEF Built
        <5> QED BY <3>2, <4>1, <4>3, <5>1
      <4> QED BY <3>2, <4>2, <4>3
    <3>8. Built(turns, k, longer)
      BY <3>4, <3>5, <3>7 DEF Built
    <3> QED BY <2>3, <2>5, <3>1, <3>8
  <2>6. \/ MapSet(map, f) = map /\ \E i \in 1..Len(map) : map[i] = f
        \/ MapSet(map, f) = Append(map, f) /\ \A i \in 1..Len(map) : map[i] # f
    BY <2>2, MapSetFacts
  <2> QED BY <2>4, <2>5, <2>6
<1> QED BY <1>2, <1>3

LEMMA MapBuilt ==
  ASSUME NEW F, NamesDiffer(F), NEW turns, Setting(turns, F)
  PROVE  MapSetAll(turns) \in Seq(F) /\ Built(turns, Len(turns), MapSetAll(turns))
<1>1. PICK N : N = Len(turns)
  OBVIOUS
<1>2. PICK u \in [0..N -> Seq(F)] :
        /\ u[0] = <<>> /\ \A k \in 1..N : u[k] = Turn(turns, k, u[k - 1])
        /\ MapSetAll(turns) = u[N]
  BY <1>1, MapEquation
<1>3. N \in Nat
  BY <1>1 DEF Setting
<1> DEFINE T == {k \in 0..N : Built(turns, k, u[k])}
<1>4. 0 \in T
  <2>1. u[0] = <<>> /\ Len(<<>>) = 0
    BY <1>2
  <2>2. Built(turns, 0, u[0])
    BY <2>1 DEF Built
  <2> QED BY <1>3, <2>2
<1>5. ASSUME NEW k \in 1..N, k - 1 \in T PROVE k \in T
  <2>1. k - 1 \in 0..N /\ k \in 0..N /\ Built(turns, k - 1, u[k - 1])
    BY <1>3, <1>5
  <2>2. u[k - 1] \in Seq(F)
    BY <2>1
  <2>3. Built(turns, k, Turn(turns, k, u[k - 1]))
    BY <1>1, <2>1, <2>2, BuiltNext
  <2> QED BY <1>2, <2>1, <2>3
<1> HIDE DEF T
<1>6. \A k \in 0..N : k \in T
  BY <1>3, <1>4, <1>5, UpTo
<1>7. N \in T /\ N \in 0..N
  BY <1>3, <1>6
<1>8. Built(turns, N, u[N]) /\ u[N] \in Seq(F)
  BY <1>7 DEF T
<1> QED BY <1>1, <1>2, <1>8

-----------------------------------------------------------------------------
LEMMA FunctionIsSeq ==
  ASSUME NEW S, NEW n \in Nat, NEW f \in [1..n -> S]
  PROVE  f \in Seq(S) /\ Len(f) = n
OBVIOUS

\* Fields with a name of their own each.
Distinct(list) ==
  \A p, q \in DOMAIN list : list[p][1] = list[q][1] => p = q

\* An order is absent, or a sequence of names.
IsOrder(order) == order = Absent \/ \E U : order \in Seq(U)

LEMMA RankFacts ==
  ASSUME NEW U, NEW order \in Seq(U), order # Absent, NEW name
  PROVE  /\ (\E i \in 1..Len(order) : order[i] = name) =>
              /\ Rank(order, name) \in 1..Len(order) /\ order[Rank(order, name)] = name
              /\ \A i \in 1..Len(order) : order[i] = name => Rank(order, name) <= i
         /\ ~(\E i \in 1..Len(order) : order[i] = name) => Rank(order, name) = Len(order) + 1
<1> DEFINE N == Len(order)
           First(i) == order[i] = name /\ \A j \in 1..(i - 1) : order[j] # name
           T == {i \in 1..N : order[i] = name}
<1>1. N \in Nat /\ DOMAIN order = 1..N /\ ToSet(order) = {order[i] : i \in 1..N}
  BY DEF ToSet
<1>2. CASE \E i \in 1..N : order[i] = name
  <2> HIDE DEF N
  <2>1. T # {} /\ T \subseteq Nat
    BY <1>1, <1>2
  <2>2. PICK i \in T : \A j \in T : i <= j
    <3> HIDE DEF T
    <3> QED BY <2>1, LeastElement
  <2>3. i \in 1..N /\ First(i)
    BY <1>1, <2>2
  <2>4. PICK r : r = CHOOSE k \in 1..N : First(k)
    OBVIOUS
  <2>5. r \in 1..N /\ First(r)
    <3> HIDE DEF First
    <3> QED BY <2>3, <2>4
  <2>6. name \in ToSet(order)
    BY <1>1, <1>2
  <2>7. Rank(order, name) = r
    BY <1>1, <2>4, <2>6, Zenon DEF Rank
  <2>8. ASSUME NEW j \in 1..N, order[j] = name PROVE r <= j
    <3>1. CASE j < r
      <4>1. j \in 1..(r - 1)
        BY <1>1, <2>5, <3>1
      <4> QED BY <2>5, <2>8, <4>1
    <3> QED BY <1>1, <2>5, <3>1
  <2> QED BY <1>2, <2>5, <2>7, <2>8 DEF N
<1>3. CASE ~(\E i \in 1..N : order[i] = name)
  <2>1. name \notin ToSet(order)
    BY <1>1, <1>3
  <2>2. Rank(order, name) = N + 1
    BY <2>1 DEF Rank
  <2> QED BY <1>3, <2>2
<1> QED BY <1>2, <1>3

\* The loops over a list set each of its fields, nothing else, and one in a turn.
Covers(turns, list, K, N) ==
  /\ \A k \in 1..K : \A f, g \in turns[k] : f = g
  /\ \A k \in 1..K : \A f \in turns[k] : \E p \in 1..N : f = list[p]
  /\ \A p \in 1..N : \E k \in 1..K : list[p] \in turns[k]

\* The turns of a loop over the K names of an order and one over the N fields of a list:
\* which of the list they set.
Ordered(turns, order, list, K, N) ==
  /\ Len(turns) = K + N
  /\ \A k \in 1..K : \A p \in 1..N : list[p] \in turns[k] <=> list[p][1] = order[k]
  /\ \A k \in 1..N : \A p \in 1..N :
       list[p] \in turns[K + k] <=> (p = k /\ \A i \in 1..K : order[i] # list[p][1])
  /\ \A k \in 1..Len(turns) : \A f \in turns[k] : \E p \in 1..N : f = list[p]

LEMMA OrderedTurns ==
  ASSUME NEW U, NEW order \in Seq(U), order # Absent,
         NEW F, NEW list \in Seq(F), Distinct(list)
  PROVE  /\ SetTurns(order, list) \in Seq(SUBSET F)
         /\ Ordered(SetTurns(order, list), order, list, Len(order), Len(list))
<1>1. PICK K, N, turns, named, unnamed :
        /\ K = Len(order) /\ N = Len(list) /\ turns = SetTurns(order, list)
        /\ named = Named(order, list) /\ unnamed = Unnamed(order, list)
  OBVIOUS
<1>2. /\ K \in Nat /\ N \in Nat /\ DOMAIN order = 1..K /\ DOMAIN list = 1..N
      /\ \A p \in 1..N : list[p] \in F
      /\ ToSet(order) = {order[i] : i \in 1..K} /\ ToSet(list) = {list[p] : p \in 1..N}
  BY <1>1 DEF ToSet
<1>3. /\ named = [k \in 1..K |-> {f \in ToSet(list) : f[1] = order[k]}]
      /\ unnamed = [k \in 1..N |-> {f \in {list[k]} : f[1] \notin ToSet(order)}]
  BY <1>1, <1>2 DEF Named, Unnamed
<1>4. /\ named \in Seq(SUBSET F) /\ Len(named) = K
      /\ unnamed \in Seq(SUBSET F) /\ Len(unnamed) = N
  <2>1. \A k \in 1..K : {f \in ToSet(list) : f[1] = order[k]} \in SUBSET F
    BY <1>2
  <2>2. \A k \in 1..N : {f \in {list[k]} : f[1] \notin ToSet(order)} \in SUBSET F
    BY <1>2
  <2>3. named \in [1..K -> SUBSET F] /\ unnamed \in [1..N -> SUBSET F]
    BY <1>3, <2>1, <2>2
  <2> QED BY <1>2, <2>3, FunctionIsSeq
<1>5. turns = named \o unnamed
  BY <1>1 DEF SetTurns
<1>6. /\ turns \in Seq(SUBSET F) /\ Len(turns) = K + N
      /\ \A k \in 1..K : turns[k] = named[k]
      /\ \A k \in 1..N : turns[K + k] = unnamed[k]
  <2>1. PICK S : S = SUBSET F
    OBVIOUS
  <2>2. named \in Seq(S) /\ unnamed \in Seq(S)
    BY <1>4, <2>1
  <2>3. /\ turns \in Seq(S) /\ Len(turns) = Len(named) + Len(unnamed)
        /\ \A k \in 1..Len(named) : turns[k] = named[k]
        /\ \A k \in 1..Len(unnamed) : turns[Len(named) + k] = unnamed[k]
    BY <1>5, <2>2, ConcatAt
  <2> QED BY <1>4, <2>1, <2>3
<1>7. ASSUME NEW k \in 1..K, NEW p \in 1..N
      PROVE  list[p] \in turns[k] <=> list[p][1] = order[k]
  <2>1. turns[k] = {f \in ToSet(list) : f[1] = order[k]} /\ list[p] \in ToSet(list)
    BY <1>2, <1>3, <1>6
  <2> QED BY <2>1
<1>8. ASSUME NEW k \in 1..N, NEW p \in 1..N
      PROVE  list[p] \in turns[K + k] <=> (p = k /\ \A i \in 1..K : order[i] # list[p][1])
  <2>1. turns[K + k] = {f \in {list[k]} : f[1] \notin ToSet(order)}
    BY <1>3, <1>6
  <2>2. list[p] = list[k] => p = k
    BY <1>2 DEF Distinct
  <2>3. list[p][1] \notin ToSet(order) <=> \A i \in 1..K : order[i] # list[p][1]
    BY <1>2
  <2> QED BY <2>1, <2>2, <2>3
<1>9. ASSUME NEW k \in 1..(K + N), NEW f \in turns[k] PROVE \E p \in 1..N : f = list[p]
  <2>1. CASE k \in 1..K
    <3>1. f \in ToSet(list)
      BY <1>3, <1>6, <1>9, <2>1
    <3> QED BY <1>2, <3>1
  <2>2. CASE k \notin 1..K
    <3>1. PICK j : j = k - K
      OBVIOUS
    <3>2. j \in 1..N /\ k = K + j
      BY <1>2, <2>2, <3>1
    <3>3. f = list[j]
      BY <1>3, <1>6, <1>9, <3>2
    <3> QED BY <3>2, <3>3
  <2> QED BY <2>1, <2>2
<1>10. Ordered(turns, order, list, K, N)
  BY <1>6, <1>7, <1>8, <1>9 DEF Ordered
<1> QED BY <1>1, <1>6, <1>10

LEMMA TurnsCover ==
  ASSUME NEW order, IsOrder(order), NEW F, NEW list \in Seq(F), Distinct(list)
  PROVE  /\ SetTurns(order, list) \in Seq(SUBSET F)
         /\ Covers(SetTurns(order, list), list, Len(SetTurns(order, list)), Len(list))
<1>1. PICK N, turns : N = Len(list) /\ turns = SetTurns(order, list)
  OBVIOUS
<1>2. N \in Nat /\ DOMAIN list = 1..N /\ \A p \in 1..N : list[p] \in F
  BY <1>1
<1>3. CASE order = Absent
  <2>1. turns = [k \in 1..N |-> {list[k]}]
    BY <1>1, <1>2, <1>3 DEF SetTurns, Each
  <2>2. turns \in [1..N -> SUBSET F]
    BY <1>2, <2>1
  <2>3. turns \in Seq(SUBSET F) /\ Len(turns) = N
    BY <1>2, <2>2, FunctionIsSeq
  <2>4. Covers(turns, list, Len(turns), N)
    <3>1. \A k \in 1..Len(turns) : \A f, g \in turns[k] : f = g
      BY <2>1, <2>3
    <3>2. \A k \in 1..Len(turns) : \A f \in turns[k] : \E p \in 1..N : f = list[p]
      BY <2>1, <2>3
    <3>3. \A p \in 1..N : list[p] \in turns[p] /\ p \in 1..Len(turns)
      BY <2>1, <2>3
    <3> QED BY <1>1, <3>1, <3>2, <3>3 DEF Covers
  <2> QED BY <1>1, <2>3, <2>4
<1>4. CASE order # Absent
  <2>1. PICK U : order \in Seq(U)
    BY <1>4 DEF IsOrder
  <2>2. PICK K : K = Len(order)
    OBVIOUS
  <2>3. /\ turns \in Seq(SUBSET F) /\ Len(turns) = K + N
        /\ \A k \in 1..K : \A p \in 1..N : list[p] \in turns[k] <=> list[p][1] = order[k]
        /\ \A k \in 1..N : \A p \in 1..N :
             list[p] \in turns[K + k] <=> (p = k /\ \A i \in 1..K : order[i] # list[p][1])
        /\ \A k \in 1..Len(turns) : \A f \in turns[k] : \E p \in 1..N : f = list[p]
    <3>1. /\ SetTurns(order, list) \in Seq(SUBSET F)
          /\ Ordered(SetTurns(order, list), order, list, Len(order), Len(list))
      BY <1>4, <2>1, OrderedTurns
    <3>2. turns \in Seq(SUBSET F) /\ Ordered(turns, order, list, K, N)
      BY <1>1, <2>2, <3>1
    <3> QED BY <3>2 DEF Ordered
  <2>4. ASSUME NEW p \in 1..N PROVE \E k \in 1..Len(turns) : list[p] \in turns[k]
    <3>1. K \in Nat /\ p \in Nat /\ K + p \in 1..Len(turns)
      BY <1>2, <2>1, <2>2, <2>3
    <3>2. CASE \E i \in 1..K : order[i] = list[p][1]
      <4>1. PICK i \in 1..K : order[i] = list[p][1]
        BY <3>2
      <4>2. i \in 1..Len(turns)
        BY <1>2, <2>3, <3>1
      <4> QED BY <2>3, <4>1, <4>2
    <3>3. CASE ~\E i \in 1..K : order[i] = list[p][1]
      <4>1. list[p] \in turns[K + p]
        BY <2>3, <3>3
      <4> QED BY <3>1, <4>1
    <3> QED BY <3>2, <3>3
  <2>5. ASSUME NEW k \in 1..Len(turns), NEW f \in turns[k], NEW g \in turns[k] PROVE f = g
    <3>1. PICK p, q \in 1..N : f = list[p] /\ g = list[q]
      BY <2>3, <2>5
    <3>2. K \in Nat
      BY <2>1, <2>2
    <3>3. CASE k \in 1..K
      <4>1. list[p][1] = list[q][1]
        BY <2>3, <2>5, <3>1, <3>3
      <4>2. p = q
        BY <1>2, <4>1, Zenon DEF Distinct
      <4> QED BY <3>1, <4>2, Zenon
    <3>4. CASE k \notin 1..K
      <4>1. PICK j : j = k - K
        OBVIOUS
      <4>2. j \in 1..N /\ k = K + j
        BY <1>2, <2>3, <3>2, <3>4, <4>1
      <4>3. p = j /\ q = j
        BY <2>3, <2>5, <3>1, <4>2
      <4> QED BY <3>1, <4>3
    <3> QED BY <3>3, <3>4
  <2>6. Covers(turns, list, Len(turns), N)
    BY <1>1, <2>3, <2>4, <2>5 DEF Covers
  <2> QED BY <1>1, <2>3, <2>6
<1> QED BY <1>3, <1>4

\* Of two fields the one that is set first comes first by rank, or in the list if the order
\* names neither.
LEMMA TurnsRank ==
  ASSUME NEW order, IsOrder(order), NEW F, NEW list \in Seq(F), Distinct(list),
         NEW p \in 1..Len(list), NEW q \in 1..Len(list),
         Before(SetTurns(order, list), list[p], list[q])
  PROVE  \/ Rank(order, list[p][1]) < Rank(order, list[q][1])
         \/ Rank(order, list[p][1]) = Rank(order, list[q][1]) /\ p < q
<1>1. PICK N, turns : N = Len(list) /\ turns = SetTurns(order, list)
  OBVIOUS
<1>2. N \in Nat /\ DOMAIN list = 1..N /\ p \in 1..N /\ q \in 1..N
  BY <1>1
<1>3. PICK a \in 1..Len(turns) : list[p] \in turns[a] /\ \A b \in 1..a : list[q] \notin turns[b]
  BY <1>1 DEF Before
<1>4. CASE order = Absent
  <2>1. turns = [k \in 1..N |-> {list[k]}] /\ Len(turns) = N
    BY <1>1, <1>2, <1>4 DEF SetTurns, Each
  <2>2. a = p
    BY <1>2, <1>3, <2>1 DEF Distinct
  <2>3. ~(q <= p)
    <3>1. list[q] \in turns[q] /\ q \in 1..Len(turns)
      BY <1>2, <2>1
    <3>2. q \notin 1..a
      BY <1>3, <3>1
    <3> QED BY <1>2, <2>2, <3>2
  <2>4. Rank(order, list[p][1]) = 1 /\ Rank(order, list[q][1]) = 1
    BY <1>4 DEF Rank
  <2> QED BY <1>2, <2>3, <2>4
<1>5. CASE order # Absent
  <2>1. PICK U : order \in Seq(U)
    BY <1>5 DEF IsOrder
  <2>2. PICK K, rp, rq : /\ K = Len(order) /\ rp = Rank(order, list[p][1])
                         /\ rq = Rank(order, list[q][1])
    OBVIOUS
  <2>3. /\ Len(turns) = K + N
        /\ \A k \in 1..K : \A i \in 1..N : list[i] \in turns[k] <=> list[i][1] = order[k]
        /\ \A k \in 1..N : \A i \in 1..N :
             list[i] \in turns[K + k] <=> (i = k /\ \A j \in 1..K : order[j] # list[i][1])
    <3>1. Ordered(SetTurns(order, list), order, list, Len(order), Len(list))
      BY <1>5, <2>1, OrderedTurns
    <3>2. Ordered(turns, order, list, K, N)
      BY <1>1, <2>2, <3>1
    <3> QED BY <3>2 DEF Ordered
  <2>4. K \in Nat
    BY <2>1, <2>2
  <2>5. /\ (\E i \in 1..K : order[i] = list[p][1]) =>
              rp \in 1..K /\ \A i \in 1..K : order[i] = list[p][1] => rp <= i
        /\ ~(\E i \in 1..K : order[i] = list[p][1]) => rp = K + 1
    BY <1>5, <2>1, <2>2, RankFacts
  <2>6. /\ (\E i \in 1..K : order[i] = list[q][1]) => rq \in 1..K /\ order[rq] = list[q][1]
        /\ ~(\E i \in 1..K : order[i] = list[q][1]) => rq = K + 1
    BY <1>5, <2>1, <2>2, RankFacts
  <2>7. CASE \E i \in 1..K : order[i] = list[p][1]
    <3>1. a \in 1..K
      <4>1. CASE a \notin 1..K
        <5>1. PICK j : j = a - K
          OBVIOUS
        <5>2. j \in 1..N /\ a = K + j
          BY <1>2, <2>3, <2>4, <4>1, <5>1
        <5> QED BY <1>2, <1>3, <2>3, <2>7, <5>2
      <4> QED BY <4>1
    <3>2. rp \in 1..K /\ rp <= a
      BY <1>2, <1>3, <2>3, <2>5, <2>7, <3>1
    <3>3. CASE \E i \in 1..K : order[i] = list[q][1]
      <4>1. rq \in 1..K /\ list[q] \in turns[rq]
        BY <1>2, <2>3, <2>6, <3>3
      <4>2. rq > a
        BY <1>3, <2>4, <3>1, <4>1
      <4> QED BY <2>2, <2>4, <3>1, <3>2, <4>1, <4>2
    <3>4. CASE ~\E i \in 1..K : order[i] = list[q][1]
      BY <2>2, <2>4, <2>6, <3>2, <3>4
    <3> QED BY <3>3, <3>4
  <2>8. CASE ~\E i \in 1..K : order[i] = list[p][1]
    <3>1. a \notin 1..K
      BY <1>2, <1>3, <2>3, <2>8
    <3>2. PICK j : j = a - K
      OBVIOUS
    <3>3. j \in 1..N /\ a = K + j
      BY <1>2, <2>3, <2>4, <3>1, <3>2
    <3>4. j = p
      BY <1>2, <1>3, <2>3, <3>3
    <3>5. CASE \E i \in 1..K : order[i] = list[q][1]
      <4>1. rq \in 1..K /\ list[q] \in turns[rq]
        BY <1>2, <2>3, <2>6, <3>5
      <4>2. rq \in 1..a
        BY <2>4, <3>3, <4>1
      <4> QED BY <1>3, <4>1, <4>2
    <3>6. CASE ~\E i \in 1..K : order[i] = list[q][1]
      <4>1. list[q] \in turns[K + q]
        BY <1>2, <2>3, <3>6
      <4>2. ~(K + q \in 1..a)
        BY <1>3, <4>1
      <4>3. p < q
        BY <1>2, <2>4, <3>3, <3>4, <4>2
      <4> QED BY <2>2, <2>5, <2>6, <2>8, <3>6, <4>3
    <3> QED BY <3>5, <3>6
  <2> QED BY <2>7, <2>8
<1> QED BY <1>4, <1>5

-----------------------------------------------------------------------------
Given(req) == req.pseudo \o req.headers

\* A request whose fields have names of their own, with orders of the caller's choice.
Orderly(req) ==
  /\ req.pseudo \in Seq(Entries) /\ req.headers \in Seq(Entries)
  /\ Distinct(Given(req))
  /\ IsOrder(req.pseudoHeaderOrder) /\ IsOrder(req.headerOrder)

\* Field p goes before field q by an order.
ByRank(order, list, p, q) ==
  \/ Rank(order, list[p][1]) < Rank(order, list[q][1])
  \/ Rank(order, list[p][1]) = Rank(order, list[q][1]) /\ p < q

\* Of the fields given, p goes before q.
Precedes(req, p, q) ==
  LET P == Len(req.pseudo) IN
  \/ p <= P /\ ~(q <= P)
  \/ p <= P /\ q <= P /\ ByRank(req.pseudoHeaderOrder, Given(req), p, q)
  \/ ~(p <= P) /\ ~(q <= P) /\ ByRank(req.headerOrder, Given(req), p, q)

LEMMA RangeSum ==
  ASSUME NEW m \in Nat, NEW n \in Nat
  PROVE  /\ \A p \in 1..m : p \in 1..(m + n)
         /\ \A p \in 1..n : m + p \in 1..(m + n)
         /\ \A k \in 1..(m + n) : k \in 1..m \/ \E p \in 1..n : k = m + p
<1>1. ASSUME NEW k \in 1..(m + n), k \notin 1..m PROVE \E p \in 1..n : k = m + p
  <2>1. k - m \in 1..n /\ k = m + (k - m)
    BY <1>1
  <2> QED BY <2>1
<1> QED BY <1>1

\* What is given, g, is P pseudo-headers and H headers, with names of their own.
Parted(req, P, H, g) ==
  /\ P \in Nat /\ H \in Nat /\ g \in Seq(Entries) /\ Len(g) = P + H
  /\ \A p \in 1..P : req.pseudo[p] = g[p]
  /\ \A p \in 1..H : req.headers[p] = g[P + p]
  /\ \A p, q \in 1..(P + H) : g[p][1] = g[q][1] => p = q
  /\ req.pseudo \in Seq(ToSet(g)) /\ req.headers \in Seq(ToSet(g))
  /\ Distinct(req.pseudo) /\ Distinct(req.headers) /\ NamesDiffer(ToSet(g))
  /\ ToSet(g) = {g[p] : p \in 1..(P + H)}

LEMMA GivenFacts ==
  ASSUME NEW req, Orderly(req)
  PROVE  Parted(req, Len(req.pseudo), Len(req.headers), Given(req))
<1>1. PICK a, b, g : a = req.pseudo /\ b = req.headers /\ g = Given(req)
  OBVIOUS
<1>2. a \in Seq(Entries) /\ b \in Seq(Entries) /\ g = a \o b /\ Distinct(g)
  BY <1>1 DEF Orderly, Given
<1>14. PICK P, H : P = Len(a) /\ H = Len(b)
  OBVIOUS
<1>3. /\ P \in Nat /\ H \in Nat /\ g \in Seq(Entries) /\ Len(g) = P + H
      /\ \A p \in 1..P : g[p] = a[p]
      /\ \A p \in 1..H : g[P + p] = b[p]
  BY <1>2, <1>14, ConcatAt
<1>4. DOMAIN g = 1..(P + H) /\ DOMAIN a = 1..P /\ DOMAIN b = 1..H
  BY <1>2, <1>3, <1>14
<1>5. ToSet(g) = {g[p] : p \in 1..(P + H)}
  BY <1>4 DEF ToSet
<1>6. \A p, q \in 1..(P + H) : g[p][1] = g[q][1] => p = q
  BY <1>2, <1>4 DEF Distinct
<1>7. \A p \in 1..P : p \in 1..(P + H) /\ a[p] \in ToSet(g)
  <2>1. \A p \in 1..P : p \in 1..(P + H)
    BY <1>3, RangeSum, Zenon
  <2> QED BY <1>3, <1>5, <2>1
<1>8. \A p \in 1..H : P + p \in 1..(P + H) /\ b[p] \in ToSet(g)
  <2>1. \A p \in 1..H : P + p \in 1..(P + H)
    BY <1>3, RangeSum, Zenon
  <2> QED BY <1>3, <1>5, <2>1
<1>9. a \in Seq(ToSet(g)) /\ b \in Seq(ToSet(g))
  <2>1. a \in [1..P -> ToSet(g)]
    <3>1. a = [p \in 1..P |-> a[p]]
      BY <1>2, <1>14
    <3> QED BY <1>7, <3>1
  <2>2. b \in [1..H -> ToSet(g)]
    <3>1. b = [p \in 1..H |-> b[p]]
      BY <1>2, <1>14
    <3> QED BY <1>8, <3>1
  <2> QED BY <1>3, <2>1, <2>2, FunctionIsSeq
<1>10. Distinct(a)
  <2>1. ASSUME NEW p \in 1..P, NEW q \in 1..P, a[p][1] = a[q][1] PROVE p = q
    <3>1. a[p] = g[p] /\ a[q] = g[q] /\ p \in 1..(P + H) /\ q \in 1..(P + H)
      BY <1>3, <1>7, Zenon
    <3> QED BY <1>6, <2>1, <3>1, Zenon
  <2> QED BY <1>4, <2>1 DEF Distinct
<1>11. Distinct(b)
  <2>1. ASSUME NEW p \in 1..H, NEW q \in 1..H, b[p][1] = b[q][1] PROVE p = q
    <3>1. PICK i, j : i = P + p /\ j = P + q
      OBVIOUS
    <3>2. b[p] = g[i] /\ b[q] = g[j] /\ i \in 1..(P + H) /\ j \in 1..(P + H)
      BY <1>3, <1>8, <3>1, Zenon
    <3>3. i = j
      BY <1>6, <2>1, <3>2, Zenon
    <3> QED BY <1>3, <3>1, <3>3
  <2> QED BY <1>4, <2>1 DEF Distinct
<1>12. NamesDiffer(ToSet(g))
  <2>1. ASSUME NEW x \in ToSet(g), NEW y \in ToSet(g), x[1] = y[1] PROVE x = y
    <3>1. PICK p, q \in 1..(P + H) : x = g[p] /\ y = g[q]
      BY <1>5
    <3> QED BY <1>6, <2>1, <3>1, Zenon
  <2> QED BY <2>1 DEF NamesDiffer
<1>13. Parted(req, P, H, g)
  BY <1>1, <1>3, <1>5, <1>6, <1>9, <1>10, <1>11, <1>12 DEF Parted
<1> QED BY <1>1, <1>14, <1>13

\* M has the fields given, g, no others, and in the order asked for.
Rearranged(req, g, M, N) ==
  /\ M \in Seq(ToSet(g))
  /\ \A p \in 1..N : \E i \in 1..Len(M) : M[i] = g[p]
  /\ \A i, j \in 1..Len(M) : i < j =>
       \E p, q \in 1..N : p # q /\ M[i] = g[p] /\ M[j] = g[q] /\ Precedes(req, p, q)

\* buildRequestHeaders: every field given, once, in the order asked for.
LEMMA HeadersBuilt ==
  ASSUME NEW req, Orderly(req), NEW g, g = Given(req), NEW M, M = BuildRequestHeaders(req)
  PROVE  Rearranged(req, g, M, Len(g))
<1>1. PICK P, H, F, a, b : /\ P = Len(req.pseudo) /\ H = Len(req.headers) /\ F = ToSet(g)
                           /\ a = SetTurns(req.pseudoHeaderOrder, req.pseudo)
                           /\ b = SetTurns(req.headerOrder, req.headers)
  OBVIOUS
<1>2. /\ P \in Nat /\ H \in Nat /\ g \in Seq(Entries) /\ Len(g) = P + H
      /\ \A p \in 1..P : req.pseudo[p] = g[p]
      /\ \A p \in 1..H : req.headers[p] = g[P + p]
      /\ \A p, q \in 1..(P + H) : g[p][1] = g[q][1] => p = q
      /\ req.pseudo \in Seq(F) /\ req.headers \in Seq(F)
      /\ Distinct(req.pseudo) /\ Distinct(req.headers) /\ NamesDiffer(F)
      /\ F = {g[p] : p \in 1..(P + H)}
  <2>1. Parted(req, P, H, g)
    BY <1>1, GivenFacts, Zenon
  <2> QED BY <1>1, <2>1 DEF Parted
<1>3. IsOrder(req.pseudoHeaderOrder) /\ IsOrder(req.headerOrder)
  BY DEF Orderly
<1>4. a \in Seq(SUBSET F) /\ Covers(a, req.pseudo, Len(a), P)
  BY <1>1, <1>2, <1>3, TurnsCover
<1>5. b \in Seq(SUBSET F) /\ Covers(b, req.headers, Len(b), H)
  BY <1>1, <1>2, <1>3, TurnsCover
<1>6. PICK turns, A, B : turns = a \o b /\ A = Len(a) /\ B = Len(b)
  OBVIOUS
<1>7. /\ turns \in Seq(SUBSET F) /\ A \in Nat /\ B \in Nat /\ Len(turns) = A + B
      /\ \A k \in 1..A : turns[k] = a[k]
      /\ \A k \in 1..B : turns[A + k] = b[k]
  <2>1. PICK S : S = SUBSET F
    OBVIOUS
  <2>2. a \in Seq(S) /\ b \in Seq(S)
    BY <1>4, <1>5, <2>1
  <2>3. A \in Nat /\ B \in Nat
    BY <1>6, <2>2
  <2>4. /\ turns \in Seq(S) /\ Len(turns) = A + B
        /\ \A k \in 1..A : turns[k] = a[k]
        /\ \A k \in 1..B : turns[A + k] = b[k]
    BY <1>6, <2>2, ConcatAt
  <2> QED BY <2>1, <2>3, <2>4
<1>8. M = MapSetAll(turns)
  BY <1>1, <1>6 DEF BuildRequestHeaders
\* In which turns pseudo-headers and headers are set.
<1>9. /\ \A k \in 1..A : \A f, h \in turns[k] : f = h
      /\ \A k \in 1..A : \A f \in turns[k] : \E p \in 1..P : f = g[p]
      /\ \A p \in 1..P : \E k \in 1..A : g[p] \in turns[k]
  <2>1. /\ \A k \in 1..A : \A f, h \in a[k] : f = h
        /\ \A k \in 1..A : \A f \in a[k] : \E p \in 1..P : f = req.pseudo[p]
        /\ \A p \in 1..P : \E k \in 1..A : req.pseudo[p] \in a[k]
    BY <1>4, <1>6, Zenon DEF Covers
  <2>2. /\ \A k \in 1..A : turns[k] = a[k]
        /\ \A p \in 1..P : req.pseudo[p] = g[p]
    BY <1>2, <1>7
  <2>3. \A k \in 1..A : \A f, h \in turns[k] : f = h
    BY <2>1, <2>2
  <2>4. \A k \in 1..A : \A f \in turns[k] : \E p \in 1..P : f = g[p]
    BY <2>1, <2>2
  <2>5. \A p \in 1..P : \E k \in 1..A : g[p] \in turns[k]
    BY <2>1, <2>2
  <2> QED BY <2>3, <2>4, <2>5
<1>10. /\ \A k \in 1..B : \A f, h \in turns[A + k] : f = h
       /\ \A k \in 1..B : \A f \in turns[A + k] : \E p \in 1..H : f = g[P + p]
       /\ \A p \in 1..H : \E k \in 1..B : g[P + p] \in turns[A + k]
  <2>1. /\ \A k \in 1..B : \A f, h \in b[k] : f = h
        /\ \A k \in 1..B : \A f \in b[k] : \E p \in 1..H : f = req.headers[p]
        /\ \A p \in 1..H : \E k \in 1..B : req.headers[p] \in b[k]
    BY <1>5, <1>6, Zenon DEF Covers
  <2>2. /\ \A k \in 1..B : turns[A + k] = b[k]
        /\ \A p \in 1..H : req.headers[p] = g[P + p]
    BY <1>2, <1>7
  <2>3. \A k \in 1..B : \A f, h \in turns[A + k] : f = h
    BY <2>1, <2>2
  <2>4. \A k \in 1..B : \A f \in turns[A + k] : \E p \in 1..H : f = g[P + p]
    BY <2>1, <2>2
  <2>5. \A p \in 1..H : \E k \in 1..B : g[P + p] \in turns[A + k]
    BY <2>1, <2>2
  <2> QED BY <2>3, <2>4, <2>5
<1>11. /\ \A k \in 1..(A + B) : k \in 1..A \/ \E j \in 1..B : k = A + j
       /\ \A k \in 1..A : k \in 1..(A + B)
       /\ \A k \in 1..B : A + k \in 1..(A + B)
  BY <1>7, RangeSum, Zenon
<1>12. Setting(turns, F)
  <2>1. \A k \in 1..(A + B) : \A f, h \in turns[k] : f = h
    BY <1>9, <1>10, <1>11
  <2> QED BY <1>7, <2>1 DEF Setting
<1>13. M \in Seq(F) /\ Built(turns, A + B, M)
  <2>1. MapSetAll(turns) \in Seq(F) /\ Built(turns, Len(turns), MapSetAll(turns))
    BY <1>2, <1>12, MapBuilt, Zenon
  <2> QED BY <1>7, <1>8, <2>1, Zenon
<1>14. \A p \in 1..(P + H) : p \in 1..P \/ \E q \in 1..H : p = P + q
  BY <1>2, RangeSum, Zenon
<1>15. ASSUME NEW p \in 1..(P + H) PROVE \E i \in 1..Len(M) : M[i] = g[p]
  <2>1. \E k \in 1..(A + B) : g[p] \in turns[k]
    BY <1>9, <1>10, <1>11, <1>14, Zenon
  <2> QED BY <1>13, <2>1, Zenon DEF Built
\* Of which field a turn is the first tells in which of the loops it is.
<1>16. ASSUME NEW p \in 1..(P + H), NEW k \in 1..A, g[p] \in turns[k] PROVE p \in 1..P
  <2>1. PICK q \in 1..P : g[p] = g[q]
    BY <1>9, <1>16
  <2>2. p = q
    BY <1>2, <2>1, RangeSum
  <2> QED BY <2>1, <2>2
<1>17. ASSUME NEW p \in 1..(P + H), NEW k \in 1..B, g[p] \in turns[A + k]
       PROVE  \E q \in 1..H : p = P + q
  <2>1. PICK q \in 1..H : g[p] = g[P + q]
    BY <1>10, <1>17
  <2>2. P + q \in 1..(P + H)
    BY <1>2, RangeSum, Zenon
  <2>3. p = P + q
    BY <1>2, <2>1, <2>2, Zenon
  <2> QED BY <2>3
<1>18. ASSUME NEW p \in 1..(P + H), NEW q \in 1..(P + H), Before(turns, g[p], g[q])
       PROVE  Precedes(req, p, q)
  <2>1. PICK k \in 1..(A + B) : g[p] \in turns[k] /\ \A l \in 1..k : g[q] \notin turns[l]
    BY <1>7, <1>18 DEF Before
  <2>2. CASE q \in 1..P
    <3>1. PICK h \in 1..A : g[q] \in turns[h]
      BY <1>9, <2>2
    <3>2. k \in 1..A
      BY <1>7, <2>1, <3>1
    <3>3. p \in 1..P
      BY <1>16, <2>1, <3>2
    <3>4. g[p] = req.pseudo[p] /\ g[q] = req.pseudo[q]
      BY <1>2, <2>2, <3>3
    <3>5. Before(a, req.pseudo[p], req.pseudo[q])
      <4>1. \A l \in 1..k : l \in 1..A
        BY <1>7, <3>2
      <4> QED BY <1>6, <1>7, <2>1, <3>2, <3>4, <4>1 DEF Before
    <3>6. \/ Rank(req.pseudoHeaderOrder, req.pseudo[p][1])
                < Rank(req.pseudoHeaderOrder, req.pseudo[q][1])
          \/ /\ Rank(req.pseudoHeaderOrder, req.pseudo[p][1])
                  = Rank(req.pseudoHeaderOrder, req.pseudo[q][1])
             /\ p < q
      BY <1>1, <1>2, <1>3, <2>2, <3>3, <3>5, TurnsRank
    <3>7. ByRank(req.pseudoHeaderOrder, g, p, q)
      BY <3>4, <3>6, Zenon DEF ByRank
    <3>8. p <= P /\ q <= P
      BY <1>2, <2>2, <3>3
    <3> QED BY <1>1, <3>7, <3>8 DEF Precedes
  <2>3. CASE p \in 1..P /\ q \notin 1..P
    <3>1. p <= P /\ ~(q <= P)
      BY <1>2, <2>3
    <3> QED BY <1>1, <3>1 DEF Precedes
  <2>4. CASE p \notin 1..P /\ q \notin 1..P
    <3>1. PICK u, v \in 1..H : p = P + u /\ q = P + v
      BY <1>14, <2>4
    <3>2. k \notin 1..A
      BY <1>16, <2>1, <2>4
    <3>3. PICK j \in 1..B : k = A + j
      BY <1>11, <3>2
    <3>4. g[p] = req.headers[u] /\ g[q] = req.headers[v]
      BY <1>2, <3>1
    <3>5. Before(b, req.headers[u], req.headers[v])
      <4>1. \A l \in 1..j : l \in 1..B /\ A + l \in 1..k
        BY <1>7, <3>3
      <4>2. \A l \in 1..j : req.headers[v] \notin b[l]
        BY <1>7, <2>1, <3>4, <4>1
      <4> QED BY <1>6, <1>7, <2>1, <3>3, <3>4, <4>2 DEF Before
    <3>6. \/ Rank(req.headerOrder, req.headers[u][1]) < Rank(req.headerOrder, req.headers[v][1])
          \/ /\ Rank(req.headerOrder, req.headers[u][1])
                  = Rank(req.headerOrder, req.headers[v][1])
             /\ u < v
      BY <1>1, <1>2, <1>3, <3>5, TurnsRank
    <3>7. ByRank(req.headerOrder, g, p, q)
      <4>1. u < v => p < q
        BY <1>2, <3>1
      <4> QED BY <3>4, <3>6, <4>1, Zenon DEF ByRank
    <3>8. ~(p <= P) /\ ~(q <= P)
      BY <1>2, <2>4
    <3> QED BY <1>1, <3>7, <3>8 DEF Precedes
  <2> QED BY <2>2, <2>3, <2>4
<1>19. ASSUME NEW i \in 1..Len(M), NEW j \in 1..Len(M), i < j
       PROVE  \E p, q \in 1..(P + H) : /\ p # q /\ M[i] = g[p] /\ M[j] = g[q]
                                       /\ Precedes(req, p, q)
  <2>1. Before(turns, M[i], M[j])
    BY <1>13, <1>19 DEF Built
  <2>2. M[i] \in F /\ M[j] \in F
    BY <1>13
  <2>3. PICK p, q \in 1..(P + H) : M[i] = g[p] /\ M[j] = g[q]
    BY <1>2, <2>2
  <2>4. p # q
    BY <2>1, <2>3, <1>7 DEF Before
  <2>5. Precedes(req, p, q)
    BY <1>18, <2>1, <2>3
  <2> QED BY <2>3, <2>4, <2>5
<1>20. M \in Seq(ToSet(g)) /\ Len(g) = P + H
  BY <1>1, <1>2, <1>13
<1>21. Rearranged(req, g, M, P + H)
  BY <1>15, <1>19, <1>20 DEF Rearranged
<1> QED BY <1>20, <1>21, Zenon

\* A sequence that has every field given, and none twice, has as many.
LEMMA SameLength ==
  ASSUME NEW g \in Seq(Entries), \A p, q \in 1..Len(g) : g[p] = g[q] => p = q,
         NEW M \in Seq(ToSet(g)), \A p \in 1..Len(g) : \E i \in 1..Len(M) : M[i] = g[p],
         \A i, j \in 1..Len(M) : i < j => M[i] # M[j]
  PROVE  Len(M) = Len(g)
<1>1. PICK S, m, n : S = ToSet(g) /\ m = Len(M) /\ n = Len(g)
  OBVIOUS
<1>2. /\ m \in Nat /\ n \in Nat /\ DOMAIN g = 1..n /\ S = {g[p] : p \in 1..n}
      /\ g = [p \in 1..n |-> g[p]] /\ M = [i \in 1..m |-> M[i]]
      /\ \A i \in 1..m : M[i] \in S
  BY <1>1 DEF ToSet
<1>3. g \in Bijection(1..n, S)
  <2>1. g \in [1..n -> S] /\ DOMAIN g = 1..n
    BY <1>2
  <2>2. \A p, q \in 1..n : g[p] = g[q] => p = q
    BY <1>1
  <2>3. \A t \in S : \E p \in 1..n : g[p] = t
    BY <1>2
  <2> QED BY <2>1, <2>2, <2>3 DEF Bijection, Injection, Surjection, IsInjective
<1>4. M \in Bijection(1..m, S)
  <2>1. M \in [1..m -> S] /\ DOMAIN M = 1..m
    BY <1>2
  <2>2. ASSUME NEW i \in 1..m, NEW j \in 1..m, M[i] = M[j] PROVE i = j
    <3>1. ~(i < j) /\ ~(j < i)
      BY <1>1, <2>2
    <3> QED BY <1>2, <3>1
  <2>3. ASSUME NEW t \in S PROVE \E i \in 1..m : M[i] = t
    <3>1. PICK p \in 1..n : t = g[p]
      BY <1>2
    <3> QED BY <1>1, <3>1, Zenon
  <2> QED BY <2>1, <2>2, <2>3 DEF Bijection, Injection, Surjection, IsInjective
<1>5. ExistsBijection(1..n, S) /\ ExistsBijection(1..m, S)
  BY <1>3, <1>4 DEF ExistsBijection
<1>6. Cardinality(S) = n /\ Cardinality(S) = m
  BY <1>2, <1>5, FS_CountingElements
<1> QED BY <1>1, <1>6

-----------------------------------------------------------------------------
\* A field as the encoder writes it.
Lowered(f) == <<NormalizeName(f[1]), f[2]>>

LEMMA FirstInFacts ==
  ASSUME NEW S
  PROVE  FirstIn(S) = 0 \/ (FirstIn(S) \in 1..StaticTableLength /\ StaticTable[FirstIn(S)] \in S)
<1> DEFINE found == {i \in 1..StaticTableLength : StaticTable[i] \in S}
           Least(i) == \A j \in found : i <= j
<1>1. CASE found = {}
  BY <1>1, Zenon DEF FirstIn
<1>2. CASE found # {}
  <2>1. found \subseteq Nat
    BY StaticFacts
  <2>2. \E i \in found : Least(i)
    <3> HIDE DEF found
    <3> QED BY <1>2, <2>1, LeastElement
  <2>3. PICK n : n = CHOOSE i \in found : Least(i)
    OBVIOUS
  <2>4. n \in found
    <3> HIDE DEF found, Least
    <3> QED BY <2>2, <2>3
  <2>5. FirstIn(S) = n
    BY <1>2, <2>3, Zenon DEF FirstIn
  <2> QED BY <2>4, <2>5
<1> QED BY <1>1, <1>2

\* An index of the static table means the same whatever the table.
LEMMA StaticResolves ==
  ASSUME NEW table \in Tables, NEW index \in 1..StaticTableLength
  PROVE  Resolves(index, table, StaticTable[index]) /\ index \in Nat /\ index # 0
<1>1. PICK s, t : s = StaticTable /\ t = table.entries
  OBVIOUS
<1>2. s \in Seq(Entries) /\ t \in Seq(Entries) /\ index \in 1..Len(s)
  BY <1>1, StaticFacts DEF Tables
<1>3. /\ Len(s \o t) = Len(s) + Len(t) /\ Len(s) \in Nat /\ Len(t) \in Nat
      /\ (s \o t)[index] = s[index]
  BY <1>2, ConcatAt
<1>4. index \in 1..Len(s \o t)
  BY <1>2, <1>3
<1>5. ResolveIndex(index, table) = [ok |-> TRUE, entry |-> (s \o t)[index]]
  BY <1>1, <1>4, Zenon DEF ResolveIndex
<1> QED BY <1>1, <1>2, <1>3, <1>5 DEF Resolves

\* A field that can be encoded and read.
Readable(f, useHuffman) ==
  /\ Lowered(f) \in Entries
  /\ Sendable(NormalizeName(f[1]), useHuffman) /\ Sendable(f[2], useHuffman)

\* Options that the encoder takes.
Encoding(options) == options.indexing \in BOOLEAN /\ options.useHuffman \in BOOLEAN

\* A field takes an octet or more, and the decoder's loop reads it back in one turn.
FieldReads(octets, table, newTable, f) ==
  /\ octets \in Seq(Nat) /\ octets # <<>> /\ newTable \in Tables
  /\ \A buf \in Seq(Nat) : \A at \in Nat : \A done : Occurs(octets, buf, at) =>
       DecodeOne(buf, State(at, table, done))
         = State(at + Len(octets), newTable, Append(done, Lowered(f)))

LEMMA FieldRead ==
  ASSUME NEW options, Encoding(options), NEW f, Readable(f, options.useHuffman),
         NEW table \in Tables
  PROVE  \E newTable : FieldReads(EncodeField(f, options), table, newTable, f)
<1>1. PICK name, value, h, octets :
        /\ name = NormalizeName(f[1]) /\ value = f[2] /\ h = options.useHuffman
        /\ octets = EncodeField(f, options)
  OBVIOUS
<1>2. PICK exact, nameIndex :
        /\ exact = FirstIn({<<name, value>>})
        /\ nameIndex = FirstIn({e \in ToSet(StaticTable) : e[1] = name})
  OBVIOUS
<1>3. octets = IF exact # 0 THEN EmitIndexed(exact)
               ELSE EmitLiteral(IF options.indexing THEN "incremental" ELSE "no_indexing",
                                nameIndex, name, value, h)
  BY <1>1, <1>2, Zenon DEF EncodeField
<1>4. Lowered(f) = <<name, value>>
  BY <1>1, Zenon DEF Lowered
<1>5. /\ <<name, value>> \in Entries /\ Sendable(name, h) /\ Sendable(value, h)
      /\ h \in BOOLEAN
  BY <1>1, <1>4, Zenon DEF Readable, Encoding
<1>6. CASE exact # 0
  <2>1. exact \in 1..StaticTableLength /\ StaticTable[exact] = <<name, value>>
    <3>1. exact \in 1..StaticTableLength /\ StaticTable[exact] \in {<<name, value>>}
      BY <1>2, <1>6, FirstInFacts, Zenon
    <3> QED BY <3>1, Zenon
  <2>2. Resolves(exact, table, <<name, value>>) /\ exact \in Nat
    BY <2>1, StaticResolves, Zenon
  <2>3. octets = EmitIndexed(exact)
    BY <1>3, <1>6, Zenon
  <2>4. octets \in Seq(Nat) /\ octets # <<>>
    <3>1. 7 \in 4..7 /\ 128 \in Nat
      OBVIOUS
    <3> QED BY <2>2, <2>3, <3>1, FlaggedOctets, Zenon DEF EmitIndexed
  <2>5. ASSUME NEW buf \in Seq(Nat), NEW at \in Nat, NEW done, Occurs(octets, buf, at)
        PROVE  DecodeOne(buf, State(at, table, done))
                 = State(at + Len(octets), table, Append(done, Lowered(f)))
    <3>1. Occurs(EmitIndexed(exact), buf, at)
      BY <2>3, <2>5, Zenon
    <3>2. DecodeOne(buf, State(at, table, done))
            = State(at + Len(EmitIndexed(exact)), table, Append(done, <<name, value>>))
      BY <2>2, <3>1, IndexedRead
    <3> QED BY <1>4, <2>3, <3>2, Zenon
  <2>6. FieldReads(octets, table, table, f)
    BY <2>4, <2>5 DEF FieldReads
  <2> QED BY <1>1, <2>6
<1>7. CASE ~(exact # 0)
  <2>1. PICK kind : kind = IF options.indexing THEN "incremental" ELSE "no_indexing"
    OBVIOUS
  <2>2. kind \in Kinds
    BY <2>1 DEF Kinds
  <2>3. octets = EmitLiteral(kind, nameIndex, name, value, h)
    BY <1>3, <1>7, <2>1, Zenon
  <2>4. nameIndex \in Nat /\ NameKnown(nameIndex, name, h, table)
    <3>1. CASE nameIndex = 0
      BY <1>5, <3>1 DEF NameKnown
    <3>2. CASE nameIndex # 0
      <4>1. /\ nameIndex \in 1..StaticTableLength
            /\ StaticTable[nameIndex] \in {e \in ToSet(StaticTable) : e[1] = name}
        BY <1>2, <3>2, FirstInFacts, Zenon
      <4>2. StaticTable[nameIndex][1] = name
        BY <4>1, Zenon
      <4>3. Resolves(nameIndex, table, StaticTable[nameIndex]) /\ nameIndex \in Nat
        BY <4>1, StaticResolves, Zenon
      <4> QED BY <3>2, <4>2, <4>3, Zenon DEF NameKnown
    <3> QED BY <3>1, <3>2
  <2>5. octets \in Seq(Nat) /\ octets # <<>>
    BY <1>5, <2>2, <2>3, <2>4, LiteralOctets, Zenon
  <2>6. PICK newTable : newTable = Extend(kind, table, <<name, value>>)
    OBVIOUS
  <2>7. newTable \in Tables
    <3>1. Add(table, <<name, value>>) \in Tables
      BY <1>5, AddFacts, Zenon
    <3> QED BY <2>6, <3>1, Zenon DEF Extend
  <2>8. ASSUME NEW buf \in Seq(Nat), NEW at \in Nat, NEW done, Occurs(octets, buf, at)
        PROVE  DecodeOne(buf, State(at, table, done))
                 = State(at + Len(octets), newTable, Append(done, Lowered(f)))
    <3>1. LiteralAt(kind, nameIndex, name, value, h, buf, at, table, done)
      BY <1>5, <2>2, <2>3, <2>4, <2>8, LiteralRead, Zenon
    <3> QED BY <1>4, <2>3, <2>6, <3>1, Zenon DEF LiteralAt
  <2>9. FieldReads(octets, table, newTable, f)
    BY <2>5, <2>7, <2>8 DEF FieldReads
  <2> QED BY <1>1, <2>9
<1> QED BY <1>6, <1>7

-----------------------------------------------------------------------------
\* FlattenSeq is the last value of a recursive function.
LEMMA FlattenEquation ==
  ASSUME NEW s \in Seq(Seq(Nat))
  PROVE  \E u \in [0..Len(s) -> Seq(Nat)] :
           /\ u[0] = <<>> /\ \A k \in 1..Len(s) : u[k] = u[k - 1] \o s[k]
           /\ FlattenSeq(s) = u[Len(s)]
<1> DEFINE N == Len(s)
           V == Seq(Nat)
           Solution(f) == f = [i \in 1..N |-> IF i = 1 THEN s[i] ELSE f[i - 1] \o s[i]]
           flatten == CHOOSE f : Solution(f)
           step == [p \in (1..N) \X V |-> p[2] \o s[p[1]]]
<1>1. N \in Nat /\ <<>> \in V /\ \A k \in 1..N : s[k] \in V
  OBVIOUS
<1>2. step \in Steps(N, V) /\ \A k \in 1..N, c \in V : step[<<k, c>>] = c \o s[k]
  <2>1. \A k \in 1..N, c \in V : c \o s[k] \in V
    BY <1>1
  <2> HIDE DEF N, V
  <2>2. \A p \in (1..N) \X V : p[2] \o s[p[1]] \in V
    BY <2>1
  <2> QED BY <2>2 DEF Steps
<1>3. PICK h \in [0..N -> V] : h[0] = <<>> /\ \A k \in 1..N : h[k] = step[<<k, h[k - 1]>>]
  <2> HIDE DEF step, V, N, Solution, flatten
  <2>1. PICK c : c = <<>>
    OBVIOUS
  <2>2. c \in V
    BY <1>1, <2>1
  <2>3. N \in Nat /\ step \in Steps(N, V)
    BY <1>1, <1>2
  <2>4. Iterates(V, N, c, step)
    BY <2>2, <2>3, Iteration, Zenon
  <2> QED BY <2>1, <2>4, Zenon DEF Iterates
<1>4. ASSUME NEW k \in 1..N PROVE h[k] = h[k - 1] \o s[k]
  <2> HIDE DEF N, V, step
  <2>1. k - 1 \in 0..N
    BY <1>1
  <2>2. h[k - 1] \in V
    BY <2>1
  <2> QED BY <1>2, <1>3, <2>2
<1>5. CASE N = 0
  <2>1. FlattenSeq(s) = s /\ s = <<>>
    BY <1>5 DEF FlattenSeq
  <2> QED BY <1>3, <1>4, <1>5, <2>1
<1>6. CASE N # 0
  <2> DEFINE g == [i \in 1..N |-> h[i]]
  <2>1. ASSUME NEW i \in 1..N
        PROVE  g[i] = IF i = 1 THEN s[i] ELSE g[i - 1] \o s[i]
    <3>1. CASE i = 1
      <4>1. s[i] \in Seq(Nat) /\ <<>> \o s[i] = s[i]
        BY <1>1
      <4>2. h[i] = h[0] \o s[i]
        <5>1. i - 1 = 0
          BY <3>1
        <5> HIDE DEF g, N
        <5> QED BY <1>4, <5>1
      <4> QED BY <1>3, <3>1, <4>1, <4>2
    <3>2. CASE i # 1
      <4>1. i - 1 \in 1..N
        BY <3>2
      <4> QED BY <1>4, <3>2, <4>1
    <3> QED BY <3>1, <3>2
  <2>2. g = [i \in 1..N |-> g[i]]
    OBVIOUS
  <2>3. Solution(g)
    <3> HIDE DEF g, N
    <3> QED BY <2>1, <2>2
  <2>4. Solution(flatten)
    <3> HIDE DEF Solution, g
    <3> QED BY <2>3
  <2>5. FlattenSeq(s) = flatten[N]
    <3>1. ~(Len(s) = 0)
      BY <1>6
    <3> QED BY <3>1, Zenon DEF FlattenSeq
  <2> HIDE DEF flatten
  <2>6. ASSUME NEW i \in 1..N
        PROVE  flatten[i] = IF i = 1 THEN s[i] ELSE flatten[i - 1] \o s[i]
    <3> HIDE DEF N
    <3> QED BY <2>4
  <2>7. ASSUME NEW k \in 0..N PROVE k # 0 => flatten[k] = h[k]
    <3> DEFINE T == {i \in 0..N : i # 0 => flatten[i] = h[i]}
    <3>1. 0 \in T
      BY <1>1
    <3>2. ASSUME NEW i \in 1..N, i - 1 \in T PROVE i \in T
      <4>1. CASE i = 1
        <5>1. flatten[i] = s[i] /\ g[i] = s[i]
          BY <2>1, <2>6, <4>1
        <5> QED BY <5>1
      <4>2. CASE i # 1
        <5>1. flatten[i - 1] = h[i - 1]
          BY <3>2, <4>2
        <5>2. flatten[i] = flatten[i - 1] \o s[i] /\ h[i] = h[i - 1] \o s[i]
          <6> HIDE DEF g, N, T
          <6> QED BY <1>4, <2>6, <4>2, Zenon
        <5>3. flatten[i] = h[i] /\ i \in 0..N
          BY <5>1, <5>2
        <5> QED BY <5>3
      <4> QED BY <4>1, <4>2
    <3> HIDE DEF T, N
    <3>3. \A i \in 0..N : i \in T
      BY <1>1, <3>1, <3>2, UpTo
    <3> QED BY <3>3 DEF T
  <2>8. FlattenSeq(s) = h[N]
    BY <1>1, <1>6, <2>5, <2>7
  <2> QED BY <1>3, <1>4, <2>8
<1> QED BY <1>5, <1>6

-----------------------------------------------------------------------------
\* The first k fields of a list as the encoder writes them.
LoweredTo(list, k) == [i \in 1..k |-> Lowered(list[i])]

LEMMA LoweredNext ==
  ASSUME NEW list, NEW N \in Nat, NEW k \in 1..N
  PROVE  LoweredTo(list, k) = Append(LoweredTo(list, k - 1), Lowered(list[k]))
<1>1. PICK F : F = {Lowered(list[i]) : i \in 1..N}
  OBVIOUS
<1>2. PICK s : s = LoweredTo(list, k - 1)
  OBVIOUS
<1>3. s \in [1..(k - 1) -> F]
  <2>1. \A i \in 1..(k - 1) : i \in 1..N
    OBVIOUS
  <2> QED BY <1>1, <1>2, <2>1 DEF LoweredTo
<1>4. s \in Seq(F) /\ Len(s) = k - 1
  BY <1>3, FunctionIsSeq
<1>5. Append(s, Lowered(list[k])) = [i \in 1..k |-> IF i = k THEN Lowered(list[k]) ELSE s[i]]
  BY <1>4
<1>6. \A i \in 1..k : i = k \/ i \in 1..(k - 1)
  OBVIOUS
<1>7. \A i \in 1..k : Lowered(list[i]) = IF i = k THEN Lowered(list[k]) ELSE s[i]
  BY <1>2, <1>6 DEF LoweredTo
<1> QED BY <1>2, <1>5, <1>7 DEF LoweredTo

\* What is read, when a representation of one more field follows.
LEMMA ReadsField ==
  ASSUME NEW octets \in Seq(Nat), NEW table \in Tables, NEW done, Reads(octets, table, done),
         NEW more, NEW newTable, NEW f, FieldReads(more, table, newTable, f)
  PROVE  Reads(octets \o more, newTable, Append(done, Lowered(f))) /\ newTable \in Tables
<1>1. more \in Seq(Nat) /\ more # <<>> /\ newTable \in Tables
  BY DEF FieldReads
<1>2. PICK newDone : newDone = Append(done, Lowered(f))
  OBVIOUS
<1>3. PICK at : at = Len(octets) + 1 /\ at \in Nat
  OBVIOUS
<1>4. ASSUME NEW buf \in Seq(Nat), Occurs(more, buf, at)
      PROVE  DecodeOne(buf, State(at, table, done)) = State(at + Len(more), newTable, newDone)
  BY <1>2, <1>3, <1>4, Zenon DEF FieldReads
<1>5. Reads(octets \o more, newTable, newDone)
  BY <1>1, <1>3, <1>4, ReadsOneMore
<1> QED BY <1>1, <1>2, <1>5

\* The size update that a block may begin with.
LEMMA SizeUpdateReads ==
  ASSUME NEW size \in Nat
  PROVE  /\ EncodeSizeUpdate(size) \in Seq(Nat)
         /\ \E table \in Tables : Reads(EncodeSizeUpdate(size), table, <<>>)
<1>1. PICK pre, table : pre = EncodeSizeUpdate(size) /\ table = SetLimit(NewTable, size)
  OBVIOUS
<1>2. pre \in Seq(Nat) /\ pre # <<>>
  <2>1. 5 \in 4..7 /\ 32 \in Nat
    OBVIOUS
  <2> QED BY <1>1, <2>1, FlaggedOctets, Zenon DEF EncodeSizeUpdate
<1>3. table \in Tables
  BY <1>1, NewTableFacts, SetLimitFacts, Zenon
<1>4. PICK none : none = <<>> /\ none \in Seq(Nat) /\ Len(none) + 1 = 1 /\ none \o pre = pre
  <2>1. PICK none : none = <<>>
    OBVIOUS
  <2>2. none \in Seq(Nat) /\ Len(none) + 1 = 1 /\ none \o pre = pre
    BY <1>2, <2>1
  <2> QED BY <2>1, <2>2
<1>5. ASSUME NEW buf \in Seq(Nat), Occurs(pre, buf, 1)
      PROVE  DecodeOne(buf, State(1, NewTable, <<>>)) = State(1 + Len(pre), table, <<>>)
  <2>1. 1 \in Nat /\ Occurs(EncodeSizeUpdate(size), buf, 1)
    BY <1>1, <1>5
  <2>2. DecodeOne(buf, State(1, NewTable, <<>>))
          = State(1 + Len(EncodeSizeUpdate(size)), SetLimit(NewTable, size), <<>>)
    BY <2>1, SizeUpdateRead
  <2> QED BY <1>1, <2>2, Zenon
<1>6. Reads(none, NewTable, <<>>)
  BY <1>4, ReadsNothing, Zenon
<1>7. Reads(none \o pre, table, <<>>)
  <2>1. ASSUME NEW buf \in Seq(Nat), Occurs(pre, buf, Len(none) + 1)
        PROVE  DecodeOne(buf, State(Len(none) + 1, NewTable, <<>>))
                 = State(Len(none) + 1 + Len(pre), table, <<>>)
    BY <1>4, <1>5, <2>1, Zenon
  <2> QED BY <1>2, <1>4, <1>6, <2>1, ReadsOneMore, Zenon
<1> QED BY <1>1, <1>2, <1>3, <1>4, <1>7, Zenon

\* The fields of a list, one after another, after what has been read already.
LEMMA ListReads ==
  ASSUME NEW options, Encoding(options), NEW list, NEW L \in Nat,
         \A i \in 1..L : Readable(list[i], options.useHuffman),
         NEW pre \in Seq(Nat), NEW first \in Tables, Reads(pre, first, <<>>),
         NEW s, s = [i \in 1..L |-> EncodeField(list[i], options)]
  PROVE  /\ pre \o FlattenSeq(s) \in Seq(Nat)
         /\ \E table \in Tables : Reads(pre \o FlattenSeq(s), table, LoweredTo(list, L))
<1>1. ASSUME NEW i \in 1..L, NEW table \in Tables
      PROVE  \E newTable : FieldReads(s[i], table, newTable, list[i])
  <2>1. PICK f : f = list[i]
    OBVIOUS
  <2>2. s[i] = EncodeField(f, options) /\ Readable(f, options.useHuffman)
    BY <2>1
  <2> QED BY <2>1, <2>2, FieldRead, Zenon
<1>2. s \in Seq(Seq(Nat)) /\ Len(s) = L
  <2>1. PICK S : S = Seq(Nat)
    OBVIOUS
  <2>2. \A i \in 1..L : s[i] \in S
    BY <1>1, <2>1, NewTableFacts, Zenon DEF FieldReads
  <2>3. s \in [1..L -> S]
    BY <2>2
  <2>4. s \in Seq(S) /\ Len(s) = L
    BY <2>3, FunctionIsSeq
  <2> QED BY <2>1, <2>4
<1>3. PICK u \in [0..L -> Seq(Nat)] :
        /\ u[0] = <<>> /\ \A k \in 1..L : u[k] = u[k - 1] \o s[k]
        /\ FlattenSeq(s) = u[L]
  BY <1>2, FlattenEquation, Zenon
<1> DEFINE T == {k \in 0..L : \E table \in Tables :
                   Reads(pre \o u[k], table, LoweredTo(list, k))}
<1>4. 0 \in T
  <2>1. pre \o u[0] = pre
    BY <1>3
  <2>2. LoweredTo(list, 0) = <<>>
    BY DEF LoweredTo
  <2>3. Reads(pre \o u[0], first, LoweredTo(list, 0))
    BY <2>1, <2>2, Zenon
  <2>4. 0 \in 0..L
    OBVIOUS
  <2> QED BY <2>3, <2>4, Zenon
<1>5. ASSUME NEW k \in 1..L, k - 1 \in T PROVE k \in T
  <2>1. PICK a, b, done : a = u[k - 1] /\ b = s[k] /\ done = LoweredTo(list, k - 1)
    OBVIOUS
  <2>2. PICK table \in Tables : Reads(pre \o a, table, done)
    BY <1>5, <2>1
  <2>3. PICK newTable : FieldReads(b, table, newTable, list[k])
    BY <1>1, <2>1, Zenon
  <2>4. a \in Seq(Nat) /\ b \in Seq(Nat)
    <3>1. k - 1 \in 0..L
      OBVIOUS
    <3>2. u[k - 1] \in Seq(Nat)
      BY <1>3, <3>1, Zenon
    <3> QED BY <2>1, <2>3, <3>2, Zenon DEF FieldReads
  <2>5. (pre \o a) \o b = pre \o u[k]
    <3>1. (pre \o a) \o b = pre \o (a \o b)
      BY <2>4, ConcatOctets, Zenon
    <3> QED BY <1>3, <2>1, <3>1, Zenon
  <2>6. pre \o a \in Seq(Nat)
    BY <2>4
  <2>7. Append(done, Lowered(list[k])) = LoweredTo(list, k)
    BY <2>1, LoweredNext
  <2>8. Reads((pre \o a) \o b, newTable, Append(done, Lowered(list[k]))) /\ newTable \in Tables
    BY <2>2, <2>3, <2>6, ReadsField, Zenon
  <2>9. Reads(pre \o u[k], newTable, LoweredTo(list, k)) /\ newTable \in Tables
    BY <2>5, <2>7, <2>8, Zenon
  <2>10. k \in 0..L
    OBVIOUS
  <2> QED BY <2>9, <2>10
<1>6. L \in T
  <2> HIDE DEF T
  <2>1. \A k \in 0..L : k \in T
    BY <1>4, <1>5, UpTo
  <2>2. L \in 0..L
    OBVIOUS
  <2> QED BY <2>1, <2>2
<1>7. pre \o u[L] \in Seq(Nat)
  <2>1. PICK a : a = u[L] /\ a \in Seq(Nat)
    <3>1. L \in 0..L
      OBVIOUS
    <3> QED BY <1>3, <3>1, Zenon
  <2> QED BY <2>1
<1> QED BY <1>3, <1>6, <1>7

\* encodeHeaders, and a decoder of its own, for fields that can be encoded and read.
LEMMA HeadersRead ==
  ASSUME NEW options, Encoding(options), options.maxTableSize \in Nat,
         NEW list, NEW L \in Nat, list \in Seq(Entries), L = Len(list),
         EncodeHeaders(list, options).ok,
         \A i \in 1..L : IsLatin1(list[i][1]) /\ IsLatin1(list[i][2])
                           => Readable(list[i], options.useHuffman)
  PROVE  LET octets == EncodeHeaders(list, options).octets
         IN /\ octets \in Seq(Nat)
            /\ Decode(octets).ok /\ Decode(octets).fields = LoweredTo(list, L)
<1>1. PICK pre, s, size :
        /\ size = options.maxTableSize
        /\ pre = IF size # TableSizeLimit THEN EncodeSizeUpdate(size) ELSE <<>>
        /\ s = [i \in 1..L |-> EncodeField(list[i], options)]
  OBVIOUS
<1>2. PICK octets : octets = pre \o FlattenSeq(s)
  OBVIOUS
<1>3. ~\E i \in DOMAIN list : ~IsLatin1(list[i][1]) \/ ~IsLatin1(list[i][2])
  BY DEF EncodeHeaders, Thrown
<1>4. EncodeHeaders(list, options) = [ok |-> TRUE, octets |-> octets]
  <2>1. s = [i \in 1..Len(list) |-> EncodeField(list[i], options)]
    BY <1>1
  <2> QED BY <1>1, <1>2, <1>3, <2>1, Zenon DEF EncodeHeaders
<1>5. \A i \in 1..L : Readable(list[i], options.useHuffman)
  <2>1. DOMAIN list = 1..L
    OBVIOUS
  <2> QED BY <1>3, <2>1, Zenon
<1>6. pre \in Seq(Nat) /\ \E table \in Tables : Reads(pre, table, <<>>)
  <2>1. CASE size # TableSizeLimit
    <3>1. size \in Nat /\ pre = EncodeSizeUpdate(size)
      BY <1>1, <2>1, Zenon
    <3> QED BY <3>1, SizeUpdateReads, Zenon
  <2>2. CASE ~(size # TableSizeLimit)
    <3>1. pre = <<>>
      BY <1>1, <2>2, Zenon
    <3>2. pre \in Seq(Nat)
      BY <3>1
    <3> QED BY <3>1, <3>2, ReadsNothing, NewTableFacts, Zenon
  <2> QED BY <2>1, <2>2
<1>7. octets \in Seq(Nat) /\ \E table \in Tables : Reads(octets, table, LoweredTo(list, L))
  <2>1. PICK first \in Tables : Reads(pre, first, <<>>)
    BY <1>6, Zenon
  <2> QED BY <1>1, <1>2, <1>5, <1>6, <2>1, ListReads, Zenon
<1>8. PICK table \in Tables : Decode(octets) = State(Len(octets) + 1, table, LoweredTo(list, L))
  BY <1>7, ReadsAll, Zenon
<1>9. Decode(octets).ok /\ Decode(octets).fields = LoweredTo(list, L)
  <2>1. PICK done : done = LoweredTo(list, L)
    OBVIOUS
  <2>2. Decode(octets) = State(Len(octets) + 1, table, done)
    BY <1>8, <2>1, Zenon
  <2> QED BY <2>1, <2>2 DEF State
<1>10. EncodeHeaders(list, options).octets = octets
  BY <1>4
<1> QED BY <1>7, <1>9, <1>10, Zenon

-----------------------------------------------------------------------------
\* e is the m elements of a and, after them, the n of b.
Joined(e, a, m, b, n) ==
  /\ Len(e) = m + n
  /\ \A i \in 1..m : e[i] = a[i]
  /\ \A i \in 1..n : e[m + i] = b[i]

LEMMA JoinedTo ==
  ASSUME NEW U, NEW a \in Seq(U), NEW b \in Seq(U), NEW m, m = Len(a), NEW n, n = Len(b)
  PROVE  a \o b \in Seq(U) /\ Joined(a \o b, a, m, b, n)
<1>1. PICK e : e = a \o b
  OBVIOUS
<1>2. e \in Seq(U) /\ Joined(e, a, Len(a), b, Len(b))
  BY <1>1, ConcatAt DEF Joined
<1> QED BY <1>1, <1>2, Zenon

\* The first three elements of e are those of a.
Started(e, a) == e[1] = a[1] /\ e[2] = a[2] /\ e[3] = a[3]

LEMMA JoinedAfterThree ==
  ASSUME NEW e, NEW a, NEW b, Joined(e, a, 3, b, 1)
  PROVE  Started(e, a) /\ Len(e) = 4 /\ e[4] = b[1]
<1>1. e[1] = a[1] /\ e[2] = a[2] /\ e[3] = a[3] /\ Len(e) = 4
  BY DEF Joined
<1>2. e[3 + 1] = b[1] /\ 3 + 1 = 4
  BY DEF Joined
<1> QED BY <1>1, <1>2 DEF Started

\* The first four elements of e are those of a.
Begun(e, a) == e[1] = a[1] /\ e[2] = a[2] /\ e[3] = a[3] /\ e[4] = a[4]

LEMMA JoinedAfterFour ==
  ASSUME NEW e, NEW a, NEW b, Joined(e, a, 4, b, 1)
  PROVE  Begun(e, a) /\ Len(e) = 5 /\ e[5] = b[1]
<1>1. e[1] = a[1] /\ e[2] = a[2] /\ e[3] = a[3] /\ e[4] = a[4] /\ Len(e) = 5
  BY DEF Joined
<1>2. e[4 + 1] = b[1] /\ 4 + 1 = 5
  BY DEF Joined
<1> QED BY <1>1, <1>2 DEF Begun

LEMMA JoinedAfterFive ==
  ASSUME NEW e, NEW a, NEW b, Joined(e, a, 5, b, 4)
  PROVE  Begun(e, a) /\ Len(e) = 9 /\ e[5] = a[5]
<1>1. /\ e[1] = a[1] /\ e[2] = a[2] /\ e[3] = a[3] /\ e[4] = a[4]
      /\ e[5] = a[5] /\ Len(e) = 9
  BY DEF Joined
<1> QED BY <1>1 DEF Begun

\* p is the n octets of o that follow the first m.
Slice(p, o, m, n) == p \in Seq(Nat) /\ Len(p) = n /\ \A i \in 1..n : p[i] = o[m + i]

LEMMA CutOut ==
  ASSUME NEW o \in Seq(Nat), NEW m \in Nat, NEW n \in Nat, m + n <= Len(o),
         NEW a, a = m + 1, NEW b, b = m + n, NEW p, p = SubSeq(o, a, b)
  PROVE  Slice(p, o, m, n)
<1>1. a \in Int /\ b \in Int /\ b - a + 1 = n /\ \A k \in a..b : o[k] \in Nat
  OBVIOUS
<1>2. /\ p \in Seq(Nat) /\ Len(p) = IF a <= b THEN b - a + 1 ELSE 0
      /\ \A i \in 1..(b - a + 1) : p[i] = o[a + i - 1]
  BY <1>1, SubSeqProperties
<1>3. Len(p) = n
  BY <1>1, <1>2
<1>4. \A i \in 1..n : p[i] = o[m + i]
  <2>1. ASSUME NEW i \in 1..n PROVE p[i] = o[m + i]
    <3>1. a + i - 1 = m + i
      OBVIOUS
    <3>2. p[i] = o[a + i - 1]
      BY <1>1, <1>2
    <3> QED BY <3>1, <3>2
  <2> QED BY <2>1
<1> QED BY <1>2, <1>3, <1>4 DEF Slice

Alike(p, q, n) ==
  /\ p \in Seq(Nat) /\ q \in Seq(Nat) /\ Len(p) = n /\ Len(q) = n
  /\ \A i \in 1..n : p[i] = q[i]

LEMMA SameElements ==
  ASSUME NEW p, NEW q, NEW n, Alike(p, q, n)
  PROVE  p = q
BY DEF Alike

LEMMA ElementsOf ==
  ASSUME NEW U, NEW o \in Seq(U), NEW n, Len(o) = n
  PROVE  o \in [1..n -> U]
OBVIOUS

-----------------------------------------------------------------------------
\* Numbers of an octet, of three octets and of four, as the DataView writes them.
LEMMA OneOctet ==
  ASSUME NEW n \in 0..255
  PROVE  UInt(n, 1) = <<n>>
<1>1. UInt(n, 1) = [i \in 1..1 |-> (n \div 256 ^ (1 - i)) % 256]
  BY DEF UInt
<1>2. \A i \in 1..1 : (n \div 256 ^ (1 - i)) % 256 = n
  <2>1. \A i \in 1..1 : i = 1
    OBVIOUS
  <2>2. (n \div 256 ^ (1 - 1)) % 256 = n
    OBVIOUS
  <2> QED BY <2>1, <2>2, Zenon
<1>3. UInt(n, 1) = [i \in 1..1 |-> n]
  BY <1>1, <1>2
<1>4. PICK o : o = UInt(n, 1)
  OBVIOUS
<1>5. o \in [1..1 -> Nat] /\ o[1] = n
  BY <1>3, <1>4
<1>6. o \in Seq(Nat) /\ Len(o) = 1
  BY <1>5, FunctionIsSeq
<1>7. o = <<n>>
  BY <1>5, <1>6
<1> QED BY <1>4, <1>7

\* The greatest length that the header of a frame can hold.
MostLength == 16777215

\* The first octets of o are those of a length n.
Spelt(o, n) == o[1] = n \div 65536 /\ o[2] = (n \div 256) % 256 /\ o[3] = n % 256

LEMMA SpeltAlso ==
  ASSUME NEW n, NEW o, Spelt(o, n), NEW p, p[1] = o[1], p[2] = o[2], p[3] = o[3]
  PROVE  Spelt(p, n)
BY SMT DEF Spelt

LEMMA LengthOctet ==
  ASSUME NEW n \in Nat, n <= MostLength
  PROVE  n \div 65536 \in 0..255
BY SMT DEF MostLength

LEMMA LengthOctets ==
  ASSUME NEW n \in Nat
  PROVE  65536 * (n \div 65536) + 256 * ((n \div 256) % 256) + (n % 256) = n
BY SMT

LEMMA ThreeOctets ==
  ASSUME NEW n \in Nat, n <= MostLength, NEW o, o = UInt(n, 3)
  PROVE  o \in Seq(Nat) /\ Len(o) = 3 /\ Spelt(o, n)
<1>1. o = [i \in 1..3 |-> (n \div 256 ^ (3 - i)) % 256]
  BY DEF UInt
<1>2. o[1] = (n \div 65536) % 256 /\ o[2] = (n \div 256) % 256 /\ o[3] = (n \div 1) % 256
  BY <1>1
<1>3. o[1] = n \div 65536 /\ o[2] = (n \div 256) % 256 /\ o[3] = n % 256
  <2>1. PICK m : m = n \div 65536
    OBVIOUS
  <2>2. m \in 0..255 /\ n \in Nat
    BY <2>1, LengthOctet, SMT
  <2>3. m % 256 = m /\ n \div 1 = n
    BY <2>2, SMT
  <2> QED BY <1>2, <2>1, <2>3
<1>4. \A i \in 1..3 : o[i] \in Nat
  <2>1. \A i \in 1..3 : i = 1 \/ i = 2 \/ i = 3
    OBVIOUS
  <2>2. o[1] \in Nat /\ o[2] \in Nat /\ o[3] \in Nat
    BY <1>3
  <2> QED BY <2>1, <2>2
<1>5. o \in [1..3 -> Nat]
  <2>1. o = [i \in 1..3 |-> o[i]]
    BY <1>1
  <2> QED BY <1>4, <2>1
<1>6. o \in Seq(Nat) /\ Len(o) = 3
  BY <1>5, FunctionIsSeq
<1>7. Spelt(o, n)
  BY <1>3 DEF Spelt
<1> QED BY <1>6, <1>7

LEMMA FourOctets ==
  ASSUME NEW n \in Nat, NEW o, o = UInt(n, 4)
  PROVE  o \in Seq(Nat) /\ Len(o) = 4
<1>1. o = [i \in 1..4 |-> (n \div 256 ^ (4 - i)) % 256]
  BY DEF UInt
<1>2. /\ o[1] = (n \div 16777216) % 256 /\ o[2] = (n \div 65536) % 256
      /\ o[3] = (n \div 256) % 256 /\ o[4] = (n \div 1) % 256
  BY <1>1
<1>3. \A i \in 1..4 : o[i] \in Nat
  <2>1. \A i \in 1..4 : i = 1 \/ i = 2 \/ i = 3 \/ i = 4
    OBVIOUS
  <2>2. o[1] \in Nat /\ o[2] \in Nat /\ o[3] \in Nat /\ o[4] \in Nat
    BY <1>2
  <2> QED BY <2>1, <2>2
<1>4. o \in [1..4 -> Nat]
  <2>1. o = [i \in 1..4 |-> o[i]]
    BY <1>1
  <2> QED BY <1>3, <2>1
<1> QED BY <1>4, FunctionIsSeq

ValueOf(o) == 65536 * o[1] + 256 * o[2] + o[3]

Three(o) == o \in Seq(Nat) /\ Len(o) = 3

LEMMA NumberOfThree ==
  ASSUME NEW o, Three(o)
  PROVE  Number(o) = ValueOf(o)
<1>0. o \in Seq(Nat) /\ Len(o) = 3
  BY DEF Three
<1>1. PICK a, b, c : a = o[1] /\ b = o[2] /\ c = o[3] /\ a \in Nat /\ b \in Nat /\ c \in Nat
  <2>1. o \in [1..3 -> Nat]
    BY <1>0, ElementsOf
  <2>2. o[1] \in Nat /\ o[2] \in Nat /\ o[3] \in Nat
    BY <2>1
  <2> QED BY <2>2, Zenon
<1> DEFINE Solution(f) ==
             f = [i \in 0..Len(o) |-> IF i = 0 THEN 0 ELSE 256 * f[i - 1] + o[i]]
           g == [i \in 0..3 |-> CASE i = 0 -> 0 [] i = 1 -> a [] i = 2 -> 256 * a + b
                                  [] OTHER -> 65536 * a + 256 * b + c]
           upTo == CHOOSE f : Solution(f)
<1>2. g[0] = 0 /\ g[1] = a /\ g[2] = 256 * a + b /\ g[3] = 65536 * a + 256 * b + c
  OBVIOUS
<1>3. Solution(g)
  <2>1. ASSUME NEW i \in 0..3
        PROVE  g[i] = IF i = 0 THEN 0 ELSE 256 * g[i - 1] + o[i]
    <3> HIDE DEF g
    <3>1. CASE i = 0
      BY <1>2, <3>1
    <3>2. CASE i = 1
      <4>1. g[i] = a /\ g[i - 1] = 0 /\ o[i] = a
        BY <1>1, <1>2, <3>2
      <4> QED BY <1>1, <3>2, <4>1
    <3>3. CASE i = 2
      BY <1>1, <1>2, <3>3
    <3>4. CASE i = 3
      <4>1. g[i] = 65536 * a + 256 * b + c /\ g[i - 1] = 256 * a + b /\ o[i] = c
        <5>1. i - 1 = 2
          BY <3>4
        <5>2. g[i] = g[3] /\ g[i - 1] = g[2] /\ o[i] = o[3]
          BY <3>4, <5>1
        <5> QED BY <1>1, <1>2, <5>2
      <4> QED BY <1>1, <3>4, <4>1
    <3>5. i = 0 \/ i = 1 \/ i = 2 \/ i = 3
      OBVIOUS
    <3> QED BY <3>1, <3>2, <3>3, <3>4, <3>5
  <2>2. g = [i \in 0..3 |-> g[i]]
    OBVIOUS
  <2> HIDE DEF g
  <2>3. 0..Len(o) = 0..3
    BY <1>0
  <2> QED BY <2>1, <2>2, <2>3, Zenon
<1>4. Solution(upTo)
  <2> HIDE DEF Solution, g
  <2> QED BY <1>3
<1>5. Number(o) = upTo[3]
  BY <1>0 DEF Number
<1> HIDE DEF upTo
<1>6. \A i \in 0..3 : upTo[i] = IF i = 0 THEN 0 ELSE 256 * upTo[i - 1] + o[i]
  BY <1>0, <1>4
<1>7. upTo[0] = 0
  BY <1>6
<1>8. upTo[1] = a
  <2>1. upTo[1] = 256 * upTo[1 - 1] + o[1]
    BY <1>6
  <2> QED BY <1>1, <1>7, <2>1
<1>9. upTo[2] = 256 * a + b
  <2>1. upTo[2] = 256 * upTo[2 - 1] + o[2]
    BY <1>6
  <2> QED BY <1>1, <1>8, <2>1
<1>10. upTo[3] = 65536 * a + 256 * b + c
  <2>1. upTo[3] = 256 * upTo[3 - 1] + o[3]
    BY <1>6
  <2> QED BY <1>1, <1>9, <2>1
<1>11. ValueOf(o) = 65536 * a + 256 * b + c
  BY <1>1 DEF ValueOf
<1> QED BY <1>5, <1>10, <1>11

\* The header of a frame, and a frame behind it.
HeaderOf(h, n, type, flags) ==
  /\ h \in Seq(Nat) /\ Len(h) = 9 /\ Spelt(h, n)
  /\ h[4] = type /\ h[5] = flags

LEMMA HeaderFacts ==
  ASSUME NEW n \in Nat, n <= MostLength, NEW type \in 0..255, NEW flags \in 0..255, NEW streamId \in Nat
  PROVE  HeaderOf(HeaderOctets(n, type, flags, streamId), n, type, flags)
<1>1. PICK a, b, c, d : /\ a = UInt(n, 3) /\ b = UInt(type, 1) /\ c = UInt(flags, 1)
                        /\ d = UInt(streamId, 4)
  OBVIOUS
<1>2. a \in Seq(Nat) /\ Len(a) = 3 /\ Spelt(a, n)
  BY <1>1, ThreeOctets, Zenon
<1>3. b = <<type>> /\ c = <<flags>>
  BY <1>1, OneOctet, Zenon
<1>4. d \in Seq(Nat) /\ Len(d) = 4
  BY <1>1, FourOctets, Zenon
<1>5. PICK e : e = a \o b /\ e \in Seq(Nat) /\ Len(e) = 4 /\ Started(e, a) /\ e[4] = type
  <2>1. b \in Seq(Nat) /\ Len(b) = 1 /\ b[1] = type
    BY <1>3
  <2>2. PICK e : e = a \o b
    OBVIOUS
  <2>3. e \in Seq(Nat) /\ Joined(e, a, 3, b, 1)
    BY <1>2, <2>1, <2>2, JoinedTo, Zenon
  <2>4. e \in Seq(Nat) /\ Len(e) = 4 /\ Started(e, a) /\ e[4] = type
    BY <2>1, <2>3, JoinedAfterThree, Zenon
  <2> QED BY <2>2, <2>4, Zenon
<1>6. PICK f : f = e \o c /\ f \in Seq(Nat) /\ Len(f) = 5 /\ Begun(f, e) /\ f[5] = flags
  <2>1. c \in Seq(Nat) /\ Len(c) = 1 /\ c[1] = flags
    BY <1>3
  <2>2. PICK f : f = e \o c
    OBVIOUS
  <2>3. f \in Seq(Nat) /\ Joined(f, e, 4, c, 1)
    BY <1>5, <2>1, <2>2, JoinedTo, Zenon
  <2>4. f \in Seq(Nat) /\ Len(f) = 5 /\ Begun(f, e) /\ f[5] = flags
    BY <2>1, <2>3, JoinedAfterFour, Zenon
  <2> QED BY <2>2, <2>4, Zenon
<1>7. PICK h : h = f \o d /\ h \in Seq(Nat) /\ Len(h) = 9 /\ Begun(h, f) /\ h[5] = f[5]
  <2>2. PICK h : h = f \o d
    OBVIOUS
  <2>3. h \in Seq(Nat) /\ Joined(h, f, 5, d, 4)
    BY <1>4, <1>6, <2>2, JoinedTo, Zenon
  <2>4. h \in Seq(Nat) /\ Len(h) = 9 /\ Begun(h, f) /\ h[5] = f[5]
    BY <2>3, JoinedAfterFive, Zenon
  <2> QED BY <2>2, <2>4, Zenon
<1>8. HeaderOctets(n, type, flags, streamId) = h
  BY <1>1, <1>5, <1>6, <1>7, Zenon DEF HeaderOctets
<1>9. HeaderOf(h, n, type, flags)
  <2>1. h[1] = a[1] /\ h[2] = a[2] /\ h[3] = a[3] /\ h[4] = type
    BY <1>5, <1>6, <1>7, Zenon DEF Begun, Started
  <2>2. Spelt(h, n)
    BY <1>2, <2>1, SpeltAlso, Zenon
  <2> QED BY <1>6, <1>7, <2>1, <2>2, Zenon DEF HeaderOf
<1> QED BY <1>8, <1>9

\* The parts of a string of octets that begins with such a header.
FrameOf(o, n, type, flags, payload) ==
  /\ o \in Seq(Nat) /\ Len(o) = 9 + n
  /\ Number(From(o, 1, 3)) = n /\ o[4] = type /\ o[5] = flags
  /\ SubSeq(o, 10, 9 + n) = payload

LEMMA FrameCut ==
  ASSUME NEW n \in Nat, NEW h, NEW type, NEW flags, HeaderOf(h, n, type, flags),
         NEW payload \in Seq(Nat), Len(payload) = n, NEW o, o = h \o payload
  PROVE  FrameOf(o, n, type, flags, payload)
<1>1. /\ h \in Seq(Nat) /\ Len(h) = 9 /\ n \in Nat /\ Spelt(h, n)
      /\ h[4] = type /\ h[5] = flags
  BY DEF HeaderOf
<1>2. /\ o \in Seq(Nat) /\ Len(o) = 9 + n
      /\ \A i \in 1..9 : o[i] = h[i]
      /\ \A i \in 1..n : o[9 + i] = payload[i]
  <2>1. o \in Seq(Nat) /\ Joined(o, h, 9, payload, n)
    BY <1>1, JoinedTo, Zenon
  <2> QED BY <2>1, Zenon DEF Joined
<1>3. o[1] = h[1] /\ o[2] = h[2] /\ o[3] = h[3] /\ o[4] = type /\ o[5] = flags
  BY <1>1, <1>2
<1>4. Number(From(o, 1, 3)) = n
  <2>1. PICK p : p = SubSeq(o, 1, 3)
    OBVIOUS
  <2>2. p \in Seq(Nat) /\ Len(p) = 3 /\ p[1] = o[1] /\ p[2] = o[2] /\ p[3] = o[3]
    <3>1. 0 \in Nat /\ 3 \in Nat /\ 0 + 3 <= Len(o) /\ 1 = 0 + 1 /\ 3 = 0 + 3
      BY <1>1, <1>2, <2>1
    <3>4. Slice(p, o, 0, 3)
      BY <1>2, <2>1, <3>1, CutOut, Zenon
    <3>2. p \in Seq(Nat) /\ Len(p) = 3 /\ \A i \in 1..3 : p[i] = o[0 + i]
      BY <3>4, Zenon DEF Slice
    <3>3. 1 \in 1..3 /\ 2 \in 1..3 /\ 3 \in 1..3 /\ 0 + 1 = 1 /\ 0 + 2 = 2 /\ 0 + 3 = 3
      OBVIOUS
    <3> QED BY <3>2, <3>3, Zenon
  <2>3. Number(p) = ValueOf(p)
    BY <2>2, NumberOfThree, Zenon DEF Three
  <2>4. 65536 * (n \div 65536) + 256 * ((n \div 256) % 256) + (n % 256) = n
    BY LengthOctets
  <2>5. From(o, 1, 3) = p
    BY <2>1 DEF From
  <2>6. Number(p) = n
    <3>1. p[1] = n \div 65536 /\ p[2] = (n \div 256) % 256 /\ p[3] = n % 256
      BY <1>1, <1>3, <2>2, SMT DEF Spelt
    <3>2. ValueOf(p) = n
      BY <2>4, <3>1, SMT DEF ValueOf
    <3> QED BY <2>3, <3>2
  <2> QED BY <2>5, <2>6
<1>5. SubSeq(o, 10, 9 + n) = payload
  <2>1. PICK p : p = SubSeq(o, 10, 9 + n)
    OBVIOUS
  <2>2. p \in Seq(Nat) /\ Len(p) = n /\ \A i \in 1..n : p[i] = o[9 + i]
    <3>1. 9 \in Nat /\ 9 + n <= Len(o) /\ 10 = 9 + 1
      BY <1>1, <1>2
    <3>2. Slice(p, o, 9, n)
      BY <1>2, <2>1, <3>1, CutOut, Zenon
    <3> QED BY <3>2, Zenon DEF Slice
  <2>3. \A i \in 1..n : p[i] = payload[i]
    BY <1>2, <2>2, Zenon
  <2>4. Alike(p, payload, n)
    BY <2>2, <2>3, Zenon DEF Alike
  <2>5. p = payload
    BY <2>4, SameElements, Zenon
  <2> QED BY <2>1, <2>5, Zenon
<1> QED BY <1>2, <1>3, <1>4, <1>5, Zenon DEF FrameOf

\* validateFrameType, for HEADERS.
LEMMA HeadersType ==
  TypeOf(1) = "HEADERS" /\ FrameType["HEADERS"] = 1 /\ ShortestPayload["HEADERS"] = 0
<1>1. "HEADERS" \in DOMAIN FrameType /\ FrameType["HEADERS"] = 1
  BY DEF FrameType
<1>2. \A t \in DOMAIN FrameType : FrameType[t] = 1 => t = "HEADERS"
  BY DEF FrameType
<1>3. TypeOf(1) = "HEADERS"
  <2> HIDE DEF FrameType
  <2> QED BY <1>1, <1>2 DEF TypeOf
<1>4. ShortestPayload["HEADERS"] = 0
  BY <1>1 DEF ShortestPayload
<1> QED BY <1>1, <1>3, <1>4

\* A HEADERS frame with flags END_HEADERS (4), and END_STREAM (1) without a body.
LEMMA RequestFrameRead ==
  ASSUME NEW req, req.hasBody \in BOOLEAN, NEW payload \in Seq(Nat), Len(payload) <= MostLength,
         NEW frame, frame = ParseFrame(SerializeFrame(RequestFrame(req, payload), 0))
  PROVE  /\ frame.type = "HEADERS" /\ frame.endHeaders /\ (frame.endStream <=> ~req.hasBody)
         /\ frame.payload = payload
<1>1. PICK n, flags : n = Len(payload) /\ flags = IF req.hasBody THEN 4 ELSE 5
  OBVIOUS
<1>2. n \in Nat /\ n <= MostLength /\ flags \in 0..255 /\ 1 \in 0..255 /\ 1 \in Nat
  BY <1>1, SMT
<1>3. PICK h : h = HeaderOctets(n, 1, flags, 1) /\ HeaderOf(h, n, 1, flags)
  BY <1>2, HeaderFacts, Zenon
<1>4. PICK o : o = h \o payload
  OBVIOUS
<1>5. /\ o \in Seq(Nat) /\ Len(o) = 9 + n
      /\ Number(From(o, 1, 3)) = n /\ o[4] = 1 /\ o[5] = flags
      /\ SubSeq(o, 10, 9 + n) = payload
  <2>1. FrameOf(o, n, 1, flags, payload)
    BY <1>1, <1>2, <1>3, <1>4, FrameCut, Zenon
  <2> QED BY <2>1, Zenon DEF FrameOf
<1>6. SerializeFrame(RequestFrame(req, payload), 0) = o
  <2>1. PICK f : f = RequestFrame(req, payload)
    OBVIOUS
  <2>2. f.type = "HEADERS" /\ f.flags = flags /\ f.streamId = 1 /\ f.payload = payload
    BY <1>1, <2>1 DEF RequestFrame
  <2>3. SerializePayload(f, 0) = payload
    <3>1. f.type \in {"DATA", "HEADERS", "PUSH_PROMISE", "CONTINUATION"}
      BY <2>2
    <3>2. /\ f.type # "PRIORITY" /\ f.type # "RST_STREAM" /\ f.type # "SETTINGS"
          /\ f.type # "PING" /\ f.type # "GOAWAY" /\ f.type # "WINDOW_UPDATE"
      BY <2>2
    <3> QED BY <2>2, <3>1, <3>2 DEF SerializePayload
  <2>4. SerializeFrame(f, 0) = HeaderOctets(n, FrameType["HEADERS"], flags, 1) \o payload
    BY <1>1, <2>2, <2>3, Zenon DEF SerializeFrame
  <2> QED BY <1>3, <1>4, <2>1, <2>4, HeadersType, Zenon
<1>7. PICK header : header = ParseFrameHeader(o)
  OBVIOUS
<1>8. header.length = n /\ header.type = 1 /\ header.flags = flags
  <2>1. PICK id : id = Number31(From(o, 6, 4))
    OBVIOUS
  <2>2. header = [length |-> n, type |-> 1, flags |-> flags, streamId |-> id]
    BY <1>5, <1>7, <2>1, Zenon DEF ParseFrameHeader
  <2> QED BY <2>2
<1>9. frame = DecodeFrame(header, payload)
  <2>1. FrameLength(o) = 9 + n /\ FrameHeaderLength = 9
    BY <1>7, <1>8 DEF FrameLength, FrameHeaderLength
  <2>2. ~(Len(o) < FrameHeaderLength \/ Len(o) < FrameLength(o))
    BY <1>2, <1>5, <2>1
  <2>3. ParseFrame(o) = DecodeFrame(header, SubSeq(o, FrameHeaderLength + 1, FrameLength(o)))
    BY <1>7, <2>2, Zenon DEF ParseFrame
  <2>4. SubSeq(o, FrameHeaderLength + 1, FrameLength(o)) = payload
    BY <1>5, <2>1
  <2> QED BY <1>6, <2>3, <2>4, Zenon
<1>10. PICK x, y : /\ x = [type |-> "HEADERS", flags |-> flags, streamId |-> header.streamId]
                   /\ y = Fields("HEADERS", flags, payload)
  OBVIOUS
<1>11. frame = WithFields(x, y)
  <2>1. TypeOf(header.type) = "HEADERS"
    BY <1>8, HeadersType, Zenon
  <2>2. ~(Len(payload) < ShortestPayload["HEADERS"])
    BY HeadersType, <1>1, <1>2
  <2>3. "HEADERS" \notin {"SETTINGS", "PING", "GOAWAY"}
    OBVIOUS
  <2> QED BY <1>8, <1>9, <1>10, <2>1, <2>2, <2>3 DEF DecodeFrame
<1>12. y = [endHeaders |-> Bit(flags, 4), endStream |-> Bit(flags, 1), padded |-> Bit(flags, 8),
            payload |-> payload]
  BY <1>10 DEF Fields
<1>13. /\ frame.type = "HEADERS" /\ frame.endHeaders = Bit(flags, 4)
       /\ frame.endStream = Bit(flags, 1) /\ frame.payload = payload
  BY <1>10, <1>11, <1>12 DEF WithFields
<1>14. Bit(flags, 4) /\ (Bit(flags, 1) <=> ~req.hasBody)
  BY <1>1 DEF Bit
<1> QED BY <1>13, <1>14

-----------------------------------------------------------------------------
\* A request that can be made and sent: no two names that differ only in case, pseudo-headers
\* in lower case, options of their types, no character whose Huffman code is longer than 25
\* bits where the code is used, and a block whose length the frame header can hold.
WellFormed(req) ==
  /\ Orderly(req) /\ Encoding(req)
  /\ req.hasBody \in BOOLEAN /\ req.maxTableSize \in Nat
  /\ \A p, q \in 1..Len(Given(req)) :
       NormalizeName(Given(req)[p][1]) = NormalizeName(Given(req)[q][1]) => p = q
  /\ \A p \in 1..Len(req.pseudo) : NormalizeName(req.pseudo[p][1]) = req.pseudo[p][1]
  /\ \A f \in ToSet(Given(req)) : IsLatin1(f[1]) /\ IsLatin1(f[2]) =>
       Writable(NormalizeName(f[1]), req.useHuffman) /\ Writable(f[2], req.useHuffman)
  /\ LET encoded == EncodeHeaders(BuildRequestHeaders(req), req)
     IN encoded.ok => Len(encoded.octets) <= MostLength

\* What the fields given and the fields built have to do with each other.
Arranged(req, g, M, N) ==
  /\ N \in Nat /\ N = Len(g) /\ N = Len(M) /\ g \in Seq(Entries) /\ M \in Seq(Entries)
  /\ ToSet(g) = {g[p] : p \in 1..N}
  /\ \A i \in 1..N : \E p \in 1..N : M[i] = g[p]
  /\ \A p \in 1..N : \E i \in 1..N : M[i] = g[p]
  /\ \A i, j \in 1..N : i < j =>
       \E p, q \in 1..N : M[i] = g[p] /\ M[j] = g[q] /\ Precedes(req, p, q)

\* f and h are different fields of g, f the one that goes first.
ApartIn(req, g, N, f, h) ==
  \E p, q \in 1..N : p # q /\ f = g[p] /\ h = g[q] /\ Precedes(req, p, q)

LEMMA BuiltArranged ==
  ASSUME NEW req, Orderly(req)
  PROVE  Arranged(req, Given(req), BuildRequestHeaders(req), Len(Given(req)))
<1>1. PICK g, M, N : g = Given(req) /\ M = BuildRequestHeaders(req) /\ N = Len(g)
  OBVIOUS
<1>2. Rearranged(req, g, M, N)
  BY <1>1, HeadersBuilt, Zenon
<1>3. /\ g \in Seq(Entries) /\ N \in Nat /\ ToSet(g) = {g[p] : p \in 1..N}
      /\ \A p, q \in 1..N : g[p][1] = g[q][1] => p = q
  <2>1. PICK P, H : P = Len(req.pseudo) /\ H = Len(req.headers)
    OBVIOUS
  <2>2. Parted(req, P, H, g)
    BY <1>1, <2>1, GivenFacts, Zenon
  <2>3. N = P + H /\ P \in Nat /\ H \in Nat /\ g \in Seq(Entries)
    BY <1>1, <2>2, Zenon DEF Parted
  <2>4. ToSet(g) = {g[p] : p \in 1..N}
    BY <2>2, <2>3, Zenon DEF Parted
  <2>5. \A p, q \in 1..N : g[p][1] = g[q][1] => p = q
    BY <2>2, <2>3, Zenon DEF Parted
  <2> QED BY <2>3, <2>4, <2>5
<1>4. \A p, q \in 1..N : g[p] = g[q] => p = q
  BY <1>3, Zenon
<1>5. ASSUME NEW i \in 1..Len(M), NEW j \in 1..Len(M), i < j PROVE M[i] # M[j]
  <2>2. \A k, l \in 1..Len(M) : k < l => ApartIn(req, g, N, M[k], M[l])
    BY <1>2, Zenon DEF Rearranged, ApartIn
  <2>3. ApartIn(req, g, N, M[i], M[j])
    BY <1>5, <2>2, Zenon
  <2>1. PICK p, q \in 1..N : p # q /\ M[i] = g[p] /\ M[j] = g[q]
    BY <2>3, Zenon DEF ApartIn
  <2> QED BY <1>4, <2>1, Zenon
<1>6. Len(M) = N
  <2>1. \A p, q \in 1..Len(g) : g[p] = g[q] => p = q
    BY <1>1, <1>4, Zenon
  <2>2. \A p \in 1..Len(g) : \E i \in 1..Len(M) : M[i] = g[p]
    BY <1>1, <1>2, Zenon DEF Rearranged
  <2>3. \A i, j \in 1..Len(M) : i < j => M[i] # M[j]
    BY <1>5
  <2>4. M \in Seq(ToSet(g)) /\ g \in Seq(Entries)
    BY <1>2, <1>3, Zenon DEF Rearranged
  <2>5. Len(M) = Len(g)
    BY <2>1, <2>2, <2>3, <2>4, SameLength
  <2> QED BY <1>1, <2>5, Zenon
<1>7. M \in Seq(Entries) /\ \A i \in 1..N : \E p \in 1..N : M[i] = g[p]
  <2>1. \A p \in 1..N : g[p] \in Entries
    BY <1>1, <1>3
  <2>2. ToSet(g) \subseteq Entries
    BY <1>3, <2>1
  <2>3. PICK S : S = ToSet(g)
    OBVIOUS
  <2>4. M \in Seq(S) /\ S \subseteq Entries /\ \A i \in 1..N : M[i] \in S
    BY <1>2, <1>6, <2>2, <2>3 DEF Rearranged
  <2>5. \A i \in 1..N : \E p \in 1..N : M[i] = g[p]
    BY <1>3, <2>3, <2>4, Zenon
  <2> QED BY <2>4, <2>5
<1>8. Arranged(req, g, M, N)
  <2>3. \A k, l \in 1..Len(M) : k < l => ApartIn(req, g, N, M[k], M[l])
    BY <1>2, Zenon DEF Rearranged, ApartIn
  <2>1. ASSUME NEW i \in 1..N, NEW j \in 1..N, i < j
        PROVE  \E p, q \in 1..N : M[i] = g[p] /\ M[j] = g[q] /\ Precedes(req, p, q)
    <3>1. ApartIn(req, g, N, M[i], M[j])
      BY <1>6, <2>1, <2>3, Zenon
    <3> QED BY <3>1, Zenon DEF ApartIn
  <2>2. \A p \in 1..N : \E i \in 1..N : M[i] = g[p]
    BY <1>2, <1>6, Zenon DEF Rearranged
  <2> QED BY <1>1, <1>3, <1>6, <1>7, <2>1, <2>2, Zenon DEF Arranged
<1> QED BY <1>1, <1>8, Zenon

\* octets are a block that the peer decodes, and the fields of it are those of list.
BlockOf(octets, list, L) ==
  octets \in Seq(Nat) /\ Decode(octets).ok /\ Decode(octets).fields = LoweredTo(list, L)

LEMMA HeadersReadBack ==
  ASSUME NEW options, Encoding(options), options.maxTableSize \in Nat,
         NEW list, NEW L \in Nat, list \in Seq(Entries), L = Len(list),
         EncodeHeaders(list, options).ok,
         \A i \in 1..L : IsLatin1(list[i][1]) /\ IsLatin1(list[i][2])
                           => Readable(list[i], options.useHuffman)
  PROVE  BlockOf(EncodeHeaders(list, options).octets, list, L)
<1>1. LET octets == EncodeHeaders(list, options).octets
      IN /\ octets \in Seq(Nat)
         /\ Decode(octets).ok /\ Decode(octets).fields = LoweredTo(list, L)
  BY HeadersRead, Zenon
<1> QED BY <1>1, Zenon DEF BlockOf

\* The block that a well-formed request is sent in, and its fields.
LEMMA BlockOfRequest ==
  ASSUME NEW req, WellFormed(req), NEW M, M = BuildRequestHeaders(req), NEW N, N = Len(M),
         EncodeHeaders(M, req).ok, NEW octets, octets = EncodeHeaders(M, req).octets
  PROVE  Len(octets) <= MostLength /\ BlockOf(octets, M, N)
<1>1. PICK g : g = Given(req)
  OBVIOUS
<1>2. Orderly(req) /\ Encoding(req) /\ req.maxTableSize \in Nat
  BY Zenon DEF WellFormed
<1>3. \A f \in ToSet(g) : IsLatin1(f[1]) /\ IsLatin1(f[2]) =>
        Writable(NormalizeName(f[1]), req.useHuffman) /\ Writable(f[2], req.useHuffman)
  BY <1>1, Zenon DEF WellFormed
<1>4. Len(octets) <= MostLength
  BY Zenon DEF WellFormed
<1>5. PICK n : n = Len(g) /\ Arranged(req, g, M, n)
  BY <1>1, <1>2, BuiltArranged, Zenon
<1>6. /\ N \in Nat /\ M \in Seq(Entries) /\ ToSet(g) = {g[p] : p \in 1..N}
      /\ \A i \in 1..N : \E p \in 1..N : M[i] = g[p]
  <2>1. n = N
    BY <1>5, Zenon DEF Arranged
  <2>2. Arranged(req, g, M, N)
    BY <1>5, <2>1, Zenon
  <2> QED BY <2>2, Zenon DEF Arranged
<1>7. ASSUME NEW i \in 1..N, IsLatin1(M[i][1]) /\ IsLatin1(M[i][2])
      PROVE  Readable(M[i], req.useHuffman)
  <2>1. PICK f : f = M[i] /\ f \in ToSet(g)
    BY <1>6
  <2>2. PICK name, value, h : name = NormalizeName(f[1]) /\ value = f[2] /\ h = req.useHuffman
    OBVIOUS
  <2>3. Writable(name, h) /\ Writable(value, h)
    BY <1>3, <1>7, <2>1, <2>2, Zenon
  <2>4. h \in BOOLEAN
    BY <1>2, <2>2 DEF Encoding
  <2>5. Sendable(name, h) /\ Sendable(value, h)
    BY <2>3, <2>4, WritableIsSendable
  <2>6. name \in Texts /\ value \in Texts
    BY <2>3, Zenon DEF Writable
  <2>7. <<name, value>> \in Entries
    BY <2>6 DEF Entries
  <2>8. Lowered(f) \in Entries
    BY <2>2, <2>7, Zenon DEF Lowered
  <2> QED BY <2>1, <2>2, <2>5, <2>8, Zenon DEF Readable
<1>8. BlockOf(EncodeHeaders(M, req).octets, M, N)
  <2>1. \A i \in 1..N : IsLatin1(M[i][1]) /\ IsLatin1(M[i][2]) => Readable(M[i], req.useHuffman)
    BY <1>7
  <2> QED BY <1>2, <1>6, <2>1, HeadersReadBack, Zenon
<1> QED BY <1>4, <1>8, Zenon

-----------------------------------------------------------------------------
\* What is written of a request.
RequestInv ==
  sent.kind = "request" =>
    /\ sent.request \in HttpRequests
    /\ LET encoded == EncodeHeaders(BuildRequestHeaders(sent.request), sent.request)
       IN /\ encoded.ok
          /\ sent.octets = SerializeFrame(RequestFrame(sent.request, encoded.octets), 0)

LEMMA RequestInvariant == OutboundSpec => []RequestInv
<1>1. OutboundInit => RequestInv
  <2>1. Nothing.kind # "request"
    BY DEF Nothing
  <2> QED BY <2>1 DEF OutboundInit, RequestInv
<1>2. RequestInv /\ [OutboundNext]_sent => RequestInv'
  <2> SUFFICES ASSUME RequestInv, [OutboundNext]_sent PROVE RequestInv'
    OBVIOUS
  <2>1. ASSUME NEW options \in Connections, NEW nibble \in GreaseNibbles, Connect(options, nibble)
        PROVE  RequestInv'
    <3>1. sent'.kind = "preface"
      BY <2>1 DEF Connect
    <3> QED BY <3>1 DEF RequestInv
  <2>2. ASSUME NEW req \in HttpRequests, SendRequest(req) PROVE RequestInv'
    <3>1. PICK encoded : encoded = EncodeHeaders(BuildRequestHeaders(req), req)
      OBVIOUS
    <3>2. PICK octets : octets = SerializeFrame(RequestFrame(req, encoded.octets), 0)
      OBVIOUS
    <3>3. CASE encoded.ok
      <4>1. sent' = [kind |-> "request", request |-> req, octets |-> octets]
        BY <2>2, <3>1, <3>2, <3>3, Zenon DEF SendRequest
      <4>2. sent'.request = req /\ sent'.octets = octets
        BY <4>1
      <4> QED BY <3>1, <3>2, <3>3, <4>2, Zenon DEF RequestInv
    <3>4. CASE ~encoded.ok
      <4>1. sent' = [kind |-> "refused", request |-> req]
        BY <2>2, <3>1, <3>4, Zenon DEF SendRequest
      <4>2. sent'.kind # "request"
        BY <4>1
      <4> QED BY <4>2 DEF RequestInv
    <3> QED BY <3>3, <3>4
  <2>3. ASSUME PeerReads PROVE RequestInv'
    <3>1. sent'.kind # "request"
      BY <2>3 DEF PeerReads, Nothing
    <3> QED BY <3>1 DEF RequestInv
  <2>4. ASSUME UNCHANGED sent PROVE RequestInv'
    BY <2>4 DEF RequestInv
  <2> QED BY <2>1, <2>2, <2>3, <2>4 DEF OutboundNext
<1> QED BY <1>1, <1>2, PTL DEF OutboundSpec

\* The field given that a field decoded is.
PlaceIn(list, f) == CHOOSE i \in DOMAIN list : list[i] = f

Unrepeated(list, N) == DOMAIN list = 1..N /\ \A p, q \in 1..N : list[p] = list[q] => p = q

LEMMA PlaceOf ==
  ASSUME NEW list, NEW N, Unrepeated(list, N), NEW p \in 1..N
  PROVE  PlaceIn(list, list[p]) = p
<1>1. PICK k : k = PlaceIn(list, list[p])
  OBVIOUS
<1>2. p \in DOMAIN list
  BY Zenon DEF Unrepeated
<1>3. k \in DOMAIN list /\ list[k] = list[p]
  BY <1>1, <1>2, Zenon DEF PlaceIn
<1> QED BY <1>1, <1>3, Zenon DEF Unrepeated

\* Every one of the N elements of a is one of b.
Within(a, b, N) == \A i \in 1..N : \E p \in 1..N : a[i] = b[p]

LEMMA SameValues ==
  ASSUME NEW N, NEW a, NEW b, DOMAIN a = 1..N, DOMAIN b = 1..N, Within(a, b, N), Within(b, a, N)
  PROVE  ToSet(a) = ToSet(b)
<1>1. {a[i] : i \in 1..N} = {b[p] : p \in 1..N}
  BY DEF Within
<1> QED BY <1>1, Zenon DEF ToSet

LEMMA LoweredLength ==
  ASSUME NEW M, NEW N \in Nat
  PROVE  Len(LoweredTo(M, N)) = N
<1>1. PICK F, d : F = {Lowered(M[i]) : i \in 1..N} /\ d = LoweredTo(M, N)
  OBVIOUS
<1>2. d \in [1..N -> F]
  BY <1>1 DEF LoweredTo
<1>3. Len(d) = N
  BY <1>2, FunctionIsSeq, Zenon
<1> QED BY <1>1, <1>3, Zenon

RankOf(req, g, f, p) ==
  IF p <= Len(req.pseudo) THEN Rank(req.pseudoHeaderOrder, f[1])
  ELSE Rank(req.headerOrder, g[p][1])

\* f and h are what the peer reads of the fields given as the p-th and the q-th, that one first.
Pair(req, g, N, f, p, h, q) ==
  /\ g = Given(req) /\ N = Len(g) /\ p \in 1..N /\ q \in 1..N /\ Precedes(req, p, q)
  /\ f = Lowered(g[p]) /\ h = Lowered(g[q])

Sooner(req, g, f, p, h, q) ==
  \/ p <= Len(req.pseudo) /\ ~(q <= Len(req.pseudo))
  \/ /\ p <= Len(req.pseudo) <=> q <= Len(req.pseudo)
     /\ \/ RankOf(req, g, f, p) < RankOf(req, g, h, q)
        \/ RankOf(req, g, f, p) = RankOf(req, g, h, q) /\ p < q

\* Of two fields, the one goes first that the caller asked to.
LEMMA InOrder ==
  ASSUME NEW req, NEW g, NEW N, NEW f, NEW p, NEW h, NEW q,
         WellFormed(req), Pair(req, g, N, f, p, h, q)
  PROVE  Sooner(req, g, f, p, h, q)
<1>a. /\ g = Given(req) /\ N = Len(g) /\ p \in 1..N /\ q \in 1..N /\ Precedes(req, p, q)
      /\ f = Lowered(g[p]) /\ h = Lowered(g[q])
  BY Zenon DEF Pair
<1>b. PICK P, rf, rh : /\ P = Len(req.pseudo)
                       /\ rf = RankOf(req, g, f, p) /\ rh = RankOf(req, g, h, q)
  OBVIOUS
<1>1. \A i \in 1..N : i <= P => Lowered(g[i])[1] = g[i][1]
  <2>1. PICK H : H = Len(req.headers)
    OBVIOUS
  <2>2. Parted(req, P, H, g)
    BY <1>a, <1>b, <2>1, GivenFacts, Zenon DEF WellFormed
  <2>3. P \in Nat /\ H \in Nat /\ N = P + H /\ \A i \in 1..P : req.pseudo[i] = g[i]
    BY <1>a, <2>2, SMT DEF Parted
  <2>4. \A i \in 1..P : NormalizeName(req.pseudo[i][1]) = req.pseudo[i][1]
    BY <1>b, Zenon DEF WellFormed
  <2>5. \A i \in 1..N : i <= P => i \in 1..P
    BY <2>3
  <2>6. \A i \in 1..P : NormalizeName(g[i][1]) = g[i][1]
    BY <2>3, <2>4, Zenon
  <2> QED BY <2>5, <2>6 DEF Lowered
<1>2. p <= P => f[1] = g[p][1]
  BY <1>a, <1>1, Zenon
<1>3. q <= P => h[1] = g[q][1]
  BY <1>a, <1>1, Zenon
<1>4. CASE p <= P /\ ~(q <= P)
  BY <1>4, <1>b, Zenon DEF Sooner
<1>5. CASE p <= P /\ q <= P /\ ByRank(req.pseudoHeaderOrder, g, p, q)
  <2>1. rf = Rank(req.pseudoHeaderOrder, g[p][1])
    BY <1>2, <1>5, <1>b, Zenon DEF RankOf
  <2>2. rh = Rank(req.pseudoHeaderOrder, g[q][1])
    BY <1>3, <1>5, <1>b, Zenon DEF RankOf
  <2>3. rf < rh \/ (rf = rh /\ p < q)
    BY <1>5, <2>1, <2>2, <1>a, Zenon DEF ByRank
  <2> QED BY <1>5, <2>3, <1>b, Zenon DEF Sooner
<1>6. CASE ~(p <= P) /\ ~(q <= P) /\ ByRank(req.headerOrder, g, p, q)
  <2>1. rf = Rank(req.headerOrder, g[p][1])
    BY <1>6, <1>b, Zenon DEF RankOf
  <2>2. rh = Rank(req.headerOrder, g[q][1])
    BY <1>6, <1>b, Zenon DEF RankOf
  <2>3. rf < rh \/ (rf = rh /\ p < q)
    BY <1>6, <2>1, <2>2, <1>a, Zenon DEF ByRank
  <2> QED BY <1>6, <2>3, <1>b, Zenon DEF Sooner
<1> QED BY <1>a, <1>b, <1>4, <1>5, <1>6, Zenon DEF Precedes

\* What RequestUnderstood says of the order of the fields d that the peer decodes.
IsPseudo(req, lower, f) == PlaceIn(lower, f) <= Len(req.pseudo)

RankIn(req, g, lower, f) ==
  IF IsPseudo(req, lower, f) THEN Rank(req.pseudoHeaderOrder, f[1])
  ELSE Rank(req.headerOrder, g[PlaceIn(lower, f)][1])

Follows(req, g, lower, f, h) ==
  \/ IsPseudo(req, lower, f) /\ ~IsPseudo(req, lower, h)
  \/ /\ IsPseudo(req, lower, f) <=> IsPseudo(req, lower, h)
     /\ \/ RankIn(req, g, lower, f) < RankIn(req, g, lower, h)
        \/ /\ RankIn(req, g, lower, f) = RankIn(req, g, lower, h)
           /\ PlaceIn(lower, f) < PlaceIn(lower, h)

FieldsAre(req, g, lower, d) ==
  /\ Len(d) = Len(g) /\ ToSet(d) = ToSet(lower)
  /\ \A i, j \in DOMAIN d : i < j => Follows(req, g, lower, d[i], d[j])

LEMMA FieldsSent ==
  ASSUME NEW req, WellFormed(req), NEW g, g = Given(req), NEW M, NEW N, Arranged(req, g, M, N),
         NEW lower, lower = [i \in DOMAIN g |-> <<NormalizeName(g[i][1]), g[i][2]>>],
         NEW d, d = LoweredTo(M, N)
  PROVE  FieldsAre(req, g, lower, d)
<1>1. /\ N \in Nat /\ N = Len(g) /\ g \in Seq(Entries)
      /\ \A i \in 1..N : \E p \in 1..N : M[i] = g[p]
      /\ \A p \in 1..N : \E i \in 1..N : M[i] = g[p]
  BY Zenon DEF Arranged
<1>2. \A k, l \in 1..N : k < l =>
        \E p, q \in 1..N : M[k] = g[p] /\ M[l] = g[q] /\ Precedes(req, p, q)
  BY Zenon DEF Arranged
<1>3. DOMAIN g = 1..N
  BY <1>1
<1>4. DOMAIN lower = 1..N /\ \A p \in 1..N : lower[p] = Lowered(g[p])
  <2>1. lower = [p \in 1..N |-> <<NormalizeName(g[p][1]), g[p][2]>>]
    BY <1>3, Zenon
  <2>2. DOMAIN lower = 1..N /\ \A p \in 1..N : lower[p] = <<NormalizeName(g[p][1]), g[p][2]>>
    BY <2>1, Zenon
  <2> QED BY <2>2, Zenon DEF Lowered
<1>5. \A p, q \in 1..N : lower[p] = lower[q] => p = q
  <2>1. \A p, q \in 1..Len(Given(req)) :
          NormalizeName(Given(req)[p][1]) = NormalizeName(Given(req)[q][1]) => p = q
    BY Zenon DEF WellFormed
  <2>2. \A p, q \in 1..N : NormalizeName(g[p][1]) = NormalizeName(g[q][1]) => p = q
    BY <1>1, <2>1, Zenon
  <2>3. \A p \in 1..N : lower[p][1] = NormalizeName(g[p][1])
    BY <1>4 DEF Lowered
  <2>4. ASSUME NEW p \in 1..N, NEW q \in 1..N, lower[p] = lower[q] PROVE p = q
    <3>1. lower[p][1] = NormalizeName(g[p][1]) /\ lower[q][1] = NormalizeName(g[q][1])
      BY <2>3, Zenon
    <3>2. lower[p][1] = lower[q][1]
      BY <2>4, Zenon
    <3>3. NormalizeName(g[p][1]) = NormalizeName(g[q][1])
      BY <3>1, <3>2, Zenon
    <3> QED BY <2>2, <3>3, Zenon
  <2> QED BY <2>4, Zenon
<1>6. DOMAIN d = 1..N /\ \A i \in 1..N : d[i] = Lowered(M[i])
  BY Zenon DEF LoweredTo
<1>7. Len(d) = Len(g)
  <2>1. Len(LoweredTo(M, N)) = N
    BY <1>1, LoweredLength, Zenon
  <2> QED BY <1>1, <2>1, Zenon
<1>8. ToSet(d) = ToSet(lower)
  <2>1. ASSUME NEW i \in 1..N PROVE \E p \in 1..N : d[i] = lower[p]
    <3>1. PICK p \in 1..N : M[i] = g[p]
      BY <1>1, Zenon
    <3>2. d[i] = lower[p]
      BY <1>4, <1>6, <3>1, Zenon
    <3> QED BY <3>2
  <2>2. ASSUME NEW p \in 1..N PROVE \E i \in 1..N : lower[p] = d[i]
    <3>1. PICK i \in 1..N : M[i] = g[p]
      BY <1>1, Zenon
    <3>2. d[i] = lower[p]
      BY <1>4, <1>6, <3>1, Zenon
    <3> QED BY <3>2
  <2>3. Within(d, lower, N) /\ Within(lower, d, N)
    BY <2>1, <2>2 DEF Within
  <2> QED BY <1>4, <1>6, <2>3, SameValues, Zenon
<1>9. ASSUME NEW i \in 1..N, NEW j \in 1..N, i < j
      PROVE  Follows(req, g, lower, d[i], d[j])
  <2>1. PICK p, q \in 1..N : M[i] = g[p] /\ M[j] = g[q] /\ Precedes(req, p, q)
    BY <1>2, <1>9, Zenon
  <2>2. PICK f, h : f = d[i] /\ h = d[j]
    OBVIOUS
  <2>3. f = Lowered(g[p]) /\ h = Lowered(g[q]) /\ f = lower[p] /\ h = lower[q]
    BY <1>4, <1>6, <2>1, <2>2, Zenon
  <2>4. PlaceIn(lower, f) = p /\ PlaceIn(lower, h) = q
    <3>1. Unrepeated(lower, N)
      BY <1>4, <1>5, Zenon DEF Unrepeated
    <3>3. PlaceIn(lower, lower[p]) = p /\ PlaceIn(lower, lower[q]) = q
      BY <3>1, PlaceOf, Zenon
    <3> QED BY <2>3, <3>3, Zenon
  <2>5. /\ IsPseudo(req, lower, f) <=> p <= Len(req.pseudo)
        /\ IsPseudo(req, lower, h) <=> q <= Len(req.pseudo)
    BY <2>4, Zenon DEF IsPseudo
  <2>6. RankIn(req, g, lower, f) = RankOf(req, g, f, p)
    BY <2>4, <2>5, Zenon DEF RankIn, RankOf
  <2>7. RankIn(req, g, lower, h) = RankOf(req, g, h, q)
    BY <2>4, <2>5, Zenon DEF RankIn, RankOf
  <2>8. Pair(req, g, N, f, p, h, q)
    BY <1>1, <2>1, <2>3, Zenon DEF Pair
  <2>9. Sooner(req, g, f, p, h, q)
    BY <2>8, InOrder, Zenon
  <2>10. Follows(req, g, lower, f, h)
    BY <2>4, <2>5, <2>6, <2>7, <2>9, Zenon DEF Sooner, Follows
  <2> QED BY <2>2, <2>10, Zenon
<1> QED BY <1>6, <1>7, <1>8, <1>9, Zenon DEF FieldsAre

\* connection.ts:266-273: whatever the orders and the encoding that the caller chose, the peer
\* decodes the fields of the request and no others, in the order asked for.
THEOREM RequestsUnderstood ==
  (\A req \in HttpRequests : WellFormed(req)) => (OutboundSpec => []RequestUnderstood)
<1> SUFFICES ASSUME \A req \in HttpRequests : WellFormed(req)
             PROVE  OutboundSpec => []RequestUnderstood
  OBVIOUS
<1>1. RequestInv => RequestUnderstood
  <2> SUFFICES ASSUME RequestInv, sent.kind = "request" PROVE RequestUnderstood
    BY DEF RequestUnderstood
  <2> DEFINE frame == ParseFrame(sent.octets)
             given == sent.request.pseudo \o sent.request.headers
             lower == [i \in DOMAIN given |-> <<NormalizeName(given[i][1]), given[i][2]>>]
  <2>1. PICK req, M, N, octets : /\ req = sent.request /\ M = BuildRequestHeaders(req)
                                /\ N = Len(M) /\ octets = EncodeHeaders(M, req).octets
    OBVIOUS
  <2>2. /\ WellFormed(req) /\ EncodeHeaders(M, req).ok
        /\ sent.octets = SerializeFrame(RequestFrame(req, octets), 0)
    BY <2>1, Zenon DEF RequestInv
  <2>3. Len(octets) <= MostLength /\ BlockOf(octets, M, N)
    BY <2>1, <2>2, BlockOfRequest, Zenon
  <2>4. PICK x : x = frame
    OBVIOUS
  <2>5. /\ x.type = "HEADERS" /\ x.endHeaders /\ (x.endStream <=> ~req.hasBody)
        /\ x.payload = octets
    <3>1. req.hasBody \in BOOLEAN
      BY <2>2, Zenon DEF WellFormed
    <3>2. octets \in Seq(Nat) /\ Len(octets) <= MostLength
      BY <2>3, Zenon DEF BlockOf
    <3>3. x = ParseFrame(SerializeFrame(RequestFrame(req, octets), 0))
      BY <2>2, <2>4, Zenon
    <3> QED BY <3>1, <3>2, <3>3, RequestFrameRead
  <2>6. Decode(x.payload).ok /\ Decode(x.payload).fields = LoweredTo(M, N)
    BY <2>3, <2>5, Zenon DEF BlockOf
  <2>7. PICK g, low : g = given /\ low = lower
    OBVIOUS
  <2>8. g = Given(req) /\ low = [i \in DOMAIN g |-> <<NormalizeName(g[i][1]), g[i][2]>>]
    BY <2>1, <2>7, Zenon DEF Given
  <2>9. Arranged(req, g, M, N)
    <3>1. Orderly(req)
      BY <2>2, Zenon DEF WellFormed
    <3>2. PICK n : n = Len(g) /\ Arranged(req, g, M, n)
      BY <2>1, <2>8, <3>1, BuiltArranged, Zenon
    <3>3. n = N
      BY <2>1, <3>2, Zenon DEF Arranged
    <3> QED BY <3>2, <3>3, Zenon
  <2>10. FieldsAre(req, g, low, Decode(x.payload).fields)
    BY <2>2, <2>6, <2>8, <2>9, FieldsSent, Zenon
  <2> HIDE DEF frame, given, lower
  <2>11. FieldsAre(sent.request, given, lower, Decode(frame.payload).fields)
    BY <2>1, <2>4, <2>7, <2>10, Zenon
  <2>12. /\ frame.type = "HEADERS" /\ frame.endHeaders
         /\ (frame.endStream <=> ~sent.request.hasBody) /\ Decode(frame.payload).ok
    BY <2>1, <2>4, <2>5, <2>6, Zenon
  <2> QED BY <2>11, <2>12, Zenon
        DEF RequestUnderstood, FieldsAre, Follows, RankIn, IsPseudo, PlaceIn, frame, given, lower
<1> QED BY <1>1, RequestInvariant, PTL

-----------------------------------------------------------------------------
\* The three parts share no variable: each step of Wire is one of a part, and a stutter of
\* the two others.
LEMMA WireParts == WireSpec => ReaderSpec /\ OutboundSpec /\ BlocksSpec
<1>1. WireInit => ReaderInit /\ OutboundInit /\ BlocksInit
  BY DEF WireInit
<1>2. [WireNext]_wireVars =>
        [ReaderNext]_readerVars /\ [OutboundNext]_sent /\ [BlocksNext]_blockVars
  <2> SUFFICES ASSUME [WireNext]_wireVars
               PROVE  [ReaderNext]_readerVars /\ [OutboundNext]_sent /\ [BlocksNext]_blockVars
    OBVIOUS
  <2>1. CASE ReaderNext /\ UNCHANGED <<sent, blockVars>>
    BY <2>1
  <2>2. CASE OutboundNext /\ UNCHANGED <<readerVars, blockVars>>
    BY <2>2
  <2>3. CASE BlocksNext /\ UNCHANGED <<readerVars, sent>>
    BY <2>3
  <2>4. CASE UNCHANGED wireVars
    BY <2>4 DEF wireVars
  <2> QED BY <2>1, <2>2, <2>3, <2>4 DEF WireNext
<1> QED BY <1>1, <1>2, PTL DEF WireSpec, ReaderSpec, OutboundSpec, BlocksSpec

\* A connection as a whole, as the run of Wire explores it: no octet that arrives is lost,
\* every request is understood, and so is every block of representations that can be served.
THEOREM WireIsUnderstood ==
  Servable /\ (\A req \in HttpRequests : WellFormed(req)) =>
    (WireSpec => [](NothingLost /\ RequestUnderstood /\ HeadersUnderstood /\ IndicesAgree))
<1> SUFFICES ASSUME Servable, \A req \in HttpRequests : WellFormed(req)
             PROVE  WireSpec =>
                      [](NothingLost /\ RequestUnderstood /\ HeadersUnderstood /\ IndicesAgree)
  OBVIOUS
<1>1. OutboundSpec => []RequestUnderstood
  BY RequestsUnderstood
<1>2. BlocksSpec => []HeadersUnderstood
  BY BlocksUnderstood
<1>3. BlocksSpec => []IndicesAgree
  BY IndicesUnderstood
<1> QED BY <1>1, <1>2, <1>3, WireParts, ReaderLosesNothing, PTL
=============================================================================
