------------------------- MODULE FlowControlProofs -------------------------
(***************************************************************************)
(* The invariants of FlowControl and the safety part of the promise it     *)
(* keeps for request bodies, for any number of streams, any bodies, any    *)
(* number of frames in flight in both directions, and any WINDOW_UPDATE,   *)
(* SETTINGS and closures that cross on the way.                            *)
(*                                                                         *)
(* What a frame finds when it arrives depends on every frame before it in  *)
(* the queue.  So the invariant follows the peer's account through the     *)
(* queue: a Ledger is what the account is at one place in it.              *)
(***************************************************************************)
EXTENDS FlowControl, SendFlowProofs, SequenceTheorems

-----------------------------------------------------------------------------
\* The part of the peer's account that frames change as they arrive.
Ledger ==
  [initial : Nat, frameSize : Nat, unacknowledged : Seq(SettingsFrames),
   connection : Int, offset : [StreamIds -> Int], received : [StreamIds -> Nat]]

Books(a) ==
  [initial |-> a.initial, frameSize |-> a.frameSize,
   unacknowledged |-> a.unacknowledged, connection |-> a.connection,
   offset |-> a.offset, received |-> a.received]

\* Octets of m, and octets of m on stream s.
Weight(m) == IF m.type = "DATA" THEN m.length ELSE 0
Octets(m, s) == IF m.type = "DATA" /\ m.stream = s THEN m.length ELSE 0

\* Frame m turns ledger p into q.
Arrives(p, m, q) ==
  /\ q.connection = p.connection - Weight(m)
  /\ \A s \in StreamIds :
       /\ q.offset[s] = p.offset[s] - Octets(m, s)
       /\ q.received[s] = p.received[s] + Octets(m, s)
  /\ m.type = "SETTINGS_ACK" =>
       /\ p.unacknowledged # <<>>
       /\ q.unacknowledged = Tail(p.unacknowledged)
       /\ q.initial = Setting(Head(p.unacknowledged), "initialWindowSize", p.initial)
       /\ q.frameSize = Setting(Head(p.unacknowledged), "maxFrameSize", p.frameSize)
  /\ m.type # "SETTINGS_ACK" =>
       /\ q.unacknowledged = p.unacknowledged
       /\ q.initial = p.initial /\ q.frameSize = p.frameSize

\* w is an initial window the client may be using for a frame that finds ledger p.
Usable(p, w) ==
  \/ w = p.initial
  \/ /\ p.unacknowledged # <<>>
     /\ w = Setting(Head(p.unacknowledged), "initialWindowSize", p.initial)

\* Frame m may find ledger p when it arrives, the bodies being b.
Fits(p, m, b) ==
  /\ m.type = "HEADERS" => b[m.stream] > 0
  /\ m.type = "DATA" =>
       /\ m.length \in 1..p.frameSize
       /\ m.length <= p.connection
       /\ \E w \in Nat : Usable(p, w) /\ m.length <= w + p.offset[m.stream]
       /\ p.received[m.stream] + m.length <= b[m.stream]
       /\ m.endStream <=> p.received[m.stream] + m.length = b[m.stream]

\* seen is the ledger before the first frame of q, after it, after the second ...
Follows(q, b, seen) ==
  \A i \in 1..Len(q) : Fits(seen[i - 1], q[i], b) /\ Arrives(seen[i - 1], q[i], seen[i])

\* The frames of q may arrive one after the other, and turn ledger o into p.
Reaches(o, q, b, p) ==
  \E seen \in [0..Len(q) -> Ledger] :
    seen[0] = o /\ seen[Len(q)] = p /\ Follows(q, b, seen)

LEMMA LedgerFields ==
  ASSUME NEW p \in Ledger
  PROVE  /\ p.initial \in Nat /\ p.frameSize \in Nat
         /\ p.unacknowledged \in Seq(SettingsFrames)
         /\ p.connection \in Int
         /\ p.offset \in [StreamIds -> Int] /\ p.received \in [StreamIds -> Nat]
BY DEF Ledger

LEMMA FrameKinds ==
  ASSUME NEW m \in ClientFrames
  PROVE  /\ m.type \in {"HEADERS", "SETTINGS_ACK", "DATA"}
         /\ m.type = "HEADERS" => m.stream \in StreamIds
         /\ m.type = "DATA" => m.stream \in StreamIds /\ m.length \in Nat /\ m.endStream \in BOOLEAN
BY DEF ClientFrames

LEMMA FrameWeights ==
  ASSUME NEW m \in ClientFrames
  PROVE  /\ Weight(m) \in Nat /\ \A s \in StreamIds : Octets(m, s) \in Nat
BY FrameKinds DEF Weight, Octets

-----------------------------------------------------------------------------
\* No frames, no change.
LEMMA ReachesNothing ==
  ASSUME NEW o \in Ledger, NEW b
  PROVE  Reaches(o, <<>>, b, o)
<1> DEFINE seen == [i \in 0..0 |-> o]
<1>1. seen \in [0..0 -> Ledger] /\ seen[0] = o /\ Len(<<>>) = 0 /\ 1..0 = {}
  OBVIOUS
<1>2. Follows(<<>>, b, seen)
  BY <1>1 DEF Follows
<1> HIDE DEF seen
<1> QED BY <1>1, <1>2 DEF Reaches

LEMMA ReachesByOne ==
  ASSUME NEW o \in Ledger, NEW p \in Ledger, NEW b, NEW m,
         Fits(o, m, b), Arrives(o, m, p)
  PROVE  Reaches(o, <<m>>, b, p)
<1> DEFINE seen == [i \in 0..1 |-> IF i = 0 THEN o ELSE p]
<1>1. seen \in [0..1 -> Ledger] /\ seen[0] = o /\ seen[1] = p /\ Len(<<m>>) = 1 /\ <<m>>[1] = m
  OBVIOUS
<1>2. Follows(<<m>>, b, seen)
  <2>1. ASSUME NEW i \in 1..1 PROVE i = 1 /\ i - 1 = 0
    OBVIOUS
  <2> HIDE DEF seen
  <2> QED BY <1>1, <2>1 DEF Follows
<1> HIDE DEF seen
<1> QED BY <1>1, <1>2 DEF Reaches

\* One queue after another.
LEMMA ReachesJoin ==
  ASSUME NEW o \in Ledger, NEW p \in Ledger, NEW e \in Ledger, NEW b,
         NEW q \in Seq(ClientFrames), NEW r \in Seq(ClientFrames),
         Reaches(o, q, b, p), Reaches(p, r, b, e)
  PROVE  Reaches(o, q \o r, b, e)
<1>1. PICK x \in [0..Len(q) -> Ledger] : x[0] = o /\ x[Len(q)] = p /\ Follows(q, b, x)
  BY DEF Reaches
<1>2. PICK y \in [0..Len(r) -> Ledger] : y[0] = p /\ y[Len(r)] = e /\ Follows(r, b, y)
  BY DEF Reaches
<1> DEFINE n == Len(q)
           k == Len(r)
           z == [i \in 0..(n + k) |-> IF i <= n THEN x[i] ELSE y[i - n]]
<1>3. n \in Nat /\ k \in Nat /\ Len(q \o r) = n + k
  OBVIOUS
<1>4. z \in [0..(n + k) -> Ledger] /\ z[0] = o /\ z[n + k] = e
  <2>1. \A i \in 0..(n + k) : i > n => i - n \in 0..k
    BY <1>3
  <2>2. k = 0 => z[n + k] = x[n]
    BY <1>3
  <2> QED BY <1>1, <1>2, <1>3, <2>1, <2>2
<1>5. Follows(q \o r, b, z)
  <2>1. ASSUME NEW i \in 1..(n + k), i <= n
        PROVE  Fits(z[i - 1], (q \o r)[i], b) /\ Arrives(z[i - 1], (q \o r)[i], z[i])
    <3>1. i \in 1..n /\ z[i - 1] = x[i - 1] /\ z[i] = x[i] /\ (q \o r)[i] = q[i]
      BY <1>3, <2>1
    <3> HIDE DEF z
    <3> QED BY <1>1, <3>1 DEF Follows
  <2>2. ASSUME NEW i \in 1..(n + k), i > n
        PROVE  Fits(z[i - 1], (q \o r)[i], b) /\ Arrives(z[i - 1], (q \o r)[i], z[i])
    <3>1. i - n \in 1..k /\ (q \o r)[i] = r[i - n] /\ z[i] = y[i - n]
      BY <1>3, <2>2
    <3>2. z[i - 1] = y[(i - n) - 1]
      <4>1. CASE i - 1 = n
        BY <1>1, <1>2, <1>3, <4>1
      <4>2. CASE i - 1 # n
        <5>1. i - 1 \in 0..(n + k) /\ ~(i - 1 <= n) /\ (i - 1) - n = (i - n) - 1
          BY <1>3, <2>2, <4>2
        <5> HIDE DEF n, k
        <5>2. z[i - 1] = y[(i - 1) - n]
          BY <5>1
        <5> QED BY <5>1, <5>2
      <4> QED BY <4>1, <4>2
    <3> HIDE DEF z
    <3> QED BY <1>2, <3>1, <3>2 DEF Follows
  <2> HIDE DEF z, n, k
  <2>3. \A i \in 1..(n + k) : i <= n \/ i > n
    BY <1>3
  <2> QED BY <1>3, <2>1, <2>2, <2>3 DEF Follows
<1> HIDE DEF z
<1> QED BY <1>3, <1>4, <1>5 DEF Reaches

\* The first frame arrives.
LEMMA ReachesFirst ==
  ASSUME NEW o, NEW p, NEW b, NEW q \in Seq(ClientFrames), q # <<>>,
         Reaches(o, q, b, p)
  PROVE  \E n \in Ledger :
           Fits(o, Head(q), b) /\ Arrives(o, Head(q), n) /\ Reaches(n, Tail(q), b, p)
<1>1. PICK x \in [0..Len(q) -> Ledger] : x[0] = o /\ x[Len(q)] = p /\ Follows(q, b, x)
  BY DEF Reaches
<1> DEFINE k == Len(q) - 1
           y == [i \in 0..k |-> x[i + 1]]
<1>2. k \in Nat /\ Len(Tail(q)) = k /\ Len(q) = k + 1 /\ Head(q) = q[1] /\ 1 \in 1..Len(q)
  OBVIOUS
<1>3. y \in [0..k -> Ledger] /\ y[0] = x[1] /\ y[k] = p
  BY <1>1, <1>2
<1>4. Follows(Tail(q), b, y)
  <2>1. ASSUME NEW i \in 1..k
        PROVE  Fits(y[i - 1], Tail(q)[i], b) /\ Arrives(y[i - 1], Tail(q)[i], y[i])
    <3>1. i + 1 \in 1..Len(q) /\ (i + 1) - 1 = i /\ y[i - 1] = x[i] /\ y[i] = x[i + 1]
      BY <1>2
    <3>2. Tail(q)[i] = q[i + 1]
      BY <1>2
    <3> HIDE DEF y, k
    <3> QED BY <1>1, <3>1, <3>2 DEF Follows
  <2> QED BY <1>2, <2>1 DEF Follows
<1> HIDE DEF y, k
<1>5. Reaches(x[1], Tail(q), b, p)
  BY <1>2, <1>3, <1>4 DEF Reaches
<1>6. x[1] \in Ledger /\ 1 - 1 = 0
  BY <1>1, <1>2
<1> QED BY <1>1, <1>2, <1>5, <1>6 DEF Follows

\* A change of the account that suits every frame in flight.
LEMMA ReachesChanged ==
  ASSUME NEW o, NEW p, NEW b, NEW q \in Seq(ClientFrames), Reaches(o, q, b, p),
         NEW g \in [Ledger -> Ledger],
         \A x \in Ledger, m \in ClientFrames : Fits(x, m, b) => Fits(g[x], m, b),
         \A x \in Ledger, y \in Ledger, m \in ClientFrames :
           Arrives(x, m, y) => Arrives(g[x], m, g[y])
  PROVE  Reaches(g[o], q, b, g[p])
<1>1. PICK x \in [0..Len(q) -> Ledger] : x[0] = o /\ x[Len(q)] = p /\ Follows(q, b, x)
  BY DEF Reaches
<1> DEFINE y == [i \in 0..Len(q) |-> g[x[i]]]
<1>2. Len(q) \in Nat
  OBVIOUS
<1>3. y \in [0..Len(q) -> Ledger] /\ y[0] = g[o] /\ y[Len(q)] = g[p]
  BY <1>1, <1>2
<1>4. ASSUME NEW i \in 1..Len(q)
      PROVE  Fits(y[i - 1], q[i], b) /\ Arrives(y[i - 1], q[i], y[i])
  <2>1. y[i - 1] = g[x[i - 1]] /\ y[i] = g[x[i]] /\ x[i - 1] \in Ledger /\ x[i] \in Ledger
        /\ q[i] \in ClientFrames
    BY <1>2
  <2> HIDE DEF y
  <2> QED BY <1>1, <2>1 DEF Follows
<1> HIDE DEF y
<1> QED BY <1>3, <1>4 DEF Reaches, Follows

\* A new body changes nothing for the frames of other bodies.
LEMMA ReachesWithBody ==
  ASSUME NEW o, NEW p, NEW q \in Seq(ClientFrames),
         NEW b \in [StreamIds -> Nat], NEW c \in [StreamIds -> Nat], Reaches(o, q, b, p),
         \A s \in StreamIds : b[s] > 0 => c[s] = b[s]
  PROVE  Reaches(o, q, c, p)
<1>1. PICK x \in [0..Len(q) -> Ledger] : x[0] = o /\ x[Len(q)] = p /\ Follows(q, b, x)
  BY DEF Reaches
<1>2. ASSUME NEW i \in 1..Len(q) PROVE Fits(x[i - 1], q[i], c)
  <2>1. x[i - 1] \in Ledger /\ q[i] \in ClientFrames /\ Fits(x[i - 1], q[i], b)
    <3>1. Len(q) \in Nat /\ i - 1 \in 0..Len(q) /\ q[i] \in ClientFrames
      OBVIOUS
    <3> QED BY <1>1, <3>1 DEF Follows
  <2>2. ASSUME NEW l \in Ledger, NEW m \in ClientFrames, Fits(l, m, b) PROVE Fits(l, m, c)
    <3>1. CASE m.type = "DATA"
      <4>1. m.stream \in StreamIds /\ m.length \in Nat
        BY <3>1, FrameKinds
      <4>2. l.received[m.stream] \in Nat
        BY <4>1, LedgerFields
      <4>3. b[m.stream] > 0
        BY <2>2, <3>1, <4>1, <4>2 DEF Fits
      <4> QED BY <2>2, <3>1, <4>1, <4>3 DEF Fits
    <3>2. CASE m.type # "DATA"
      BY <2>2, <3>2, FrameKinds DEF Fits
    <3> QED BY <3>1, <3>2
  <2> QED BY <2>1, <2>2
<1> QED BY <1>1, <1>2 DEF Reaches, Follows

-----------------------------------------------------------------------------
\* Sums satisfies its defining equation.
LEMMA SumsEquation ==
  ASSUME NEW F, NEW q \in Seq(F), NEW w \in [F -> Nat]
  PROVE  LET sums == Sums(q, w) IN
         /\ sums[0] = 0
         /\ \A k \in 1..Len(q) : sums[k] = sums[k - 1] + w[q[k]]
         /\ \A k \in 0..Len(q) : sums[k] \in Nat
<1> DEFINE N == Len(q)
           V == Nat
           step == [p \in (1..N) \X V |-> p[2] + w[q[p[1]]]]
           solves(g) == g = [k \in 0..N |-> IF k = 0 THEN 0 ELSE g[k - 1] + w[q[k]]]
           sums == CHOOSE g : solves(g)
<1>1. N \in Nat /\ \A k \in 1..N : w[q[k]] \in Nat
  OBVIOUS
<1>2. step \in Steps(N, V) /\ \A k \in 1..N, c \in V : step[<<k, c>>] = c + w[q[k]]
  BY <1>1, SMTT(30) DEF Steps
<1>3. 0 \in V
  OBVIOUS
<1>4. PICK h \in [0..N -> V] : h[0] = 0 /\ \A k \in 1..N : h[k] = step[<<k, h[k - 1]>>]
  <2> HIDE DEF step, V, N
  <2>1. N \in Nat /\ step \in Steps(N, V)
    BY <1>1, <1>2
  <2> QED BY <1>3, <2>1, RecursionExists
<1>5. ASSUME NEW k \in 1..N PROVE h[k] = h[k - 1] + w[q[k]]
  <2> HIDE DEF N, V, step
  <2>1. k - 1 \in 0..N
    BY <1>1
  <2>2. h[k - 1] \in V
    BY <2>1
  <2> QED BY <1>2, <1>4, <2>2
<1>6. solves(h)
  <2>1. \A k \in 0..N : k # 0 => k \in 1..N
    BY <1>1
  <2>2. h = [k \in 0..N |-> h[k]]
    BY <1>4
  <2>3. \A k \in 0..N : h[k] = IF k = 0 THEN 0 ELSE h[k - 1] + w[q[k]]
    <3> HIDE DEF N, V, step
    <3> QED BY <1>4, <1>5, <2>1
  <2> HIDE DEF N, V, step
  <2> QED BY <2>2, <2>3
<1>7. solves(sums)
  <2> HIDE DEF solves
  <2> QED BY <1>6
<1>8. sums = Sums(q, w)
  BY DEF Sums
<1> HIDE DEF sums
<1>9. sums[0] = 0 /\ \A k \in 1..N : sums[k] = sums[k - 1] + w[q[k]]
  <2> HIDE DEF N
  <2> QED BY <1>1, <1>7
<1>10. \A k \in 0..N : sums[k] \in Nat
  <2> DEFINE T == {k \in 0..N : sums[k] \in Nat}
  <2>1. 0 \in T
    BY <1>1, <1>9
  <2>2. ASSUME NEW k \in 1..N, k - 1 \in T PROVE k \in T
    <3>1. k \in 0..N /\ k - 1 \in 0..N
      BY <1>1
    <3>2. sums[k - 1] \in Nat /\ w[q[k]] \in Nat
      BY <1>1, <2>2
    <3>3. sums[k] = sums[k - 1] + w[q[k]]
      BY <1>9
    <3> HIDE DEF N, sums
    <3> QED BY <3>1, <3>2, <3>3
  <2> HIDE DEF T, N
  <2>3. \A k \in 0..N : k \in T
    BY <1>1, <2>1, <2>2, UpTo
  <2> QED BY <2>3 DEF T
<1> QED BY <1>8, <1>9, <1>10

LEMMA WeightFunctions ==
  /\ \A S \in SUBSET StreamIds : LengthOn(S) \in [ClientFrames -> Nat]
  /\ \A s \in StreamIds \cup {0} : IncrementOn(s) \in [PeerFrames -> Nat]
<1>1. \A m \in PeerFrames : m.type = "WINDOW_UPDATE" => m.increment \in Nat
  BY PeerAssumption DEF PeerFrames
<1> QED BY <1>1, FrameKinds DEF LengthOn, IncrementOn

\* What the frames of a queue take from the account.
LEMMA ReachesTakes ==
  ASSUME NEW o \in Ledger, NEW p \in Ledger, NEW b, NEW q \in Seq(ClientFrames),
         Reaches(o, q, b, p)
  PROVE  /\ p.connection = o.connection - SumOf(q, LengthOn(StreamIds))
         /\ \A s \in StreamIds : p.offset[s] = o.offset[s] - SumOf(q, LengthOn({s}))
<1>1. PICK x \in [0..Len(q) -> Ledger] : x[0] = o /\ x[Len(q)] = p /\ Follows(q, b, x)
  BY DEF Reaches
<1> DEFINE N == Len(q)
<1>2. N \in Nat /\ \A i \in 1..N : i - 1 \in 0..N /\ q[i] \in ClientFrames
  OBVIOUS
<1> HIDE DEF N
<1>3. p.connection = o.connection - SumOf(q, LengthOn(StreamIds))
  <2> DEFINE w == LengthOn(StreamIds)
             z == Sums(q, w)
             T == {i \in 0..N : x[i].connection = o.connection - z[i]}
  <2>1. w \in [ClientFrames -> Nat]
    BY WeightFunctions
  <2>2. ASSUME NEW m \in ClientFrames PROVE w[m] = Weight(m)
    BY FrameKinds DEF LengthOn, Weight
  <2> HIDE DEF w
  <2>3. /\ z[0] = 0 /\ \A k \in 1..N : z[k] = z[k - 1] + w[q[k]]
        /\ \A k \in 0..N : z[k] \in Nat
    BY <2>1, SumsEquation DEF N
  <2> HIDE DEF z
  <2>4. 0 \in T
    BY <1>1, <1>2, <2>3, LedgerFields
  <2>5. ASSUME NEW i \in 1..N, i - 1 \in T PROVE i \in T
    <3>1. x[i - 1] \in Ledger /\ x[i] \in Ledger /\ q[i] \in ClientFrames
      BY <1>1, <1>2 DEF N
    <3>2. x[i].connection = x[i - 1].connection - Weight(q[i])
      BY <1>1 DEF Follows, Arrives, N
    <3>3. z[i] = z[i - 1] + Weight(q[i])
      BY <2>2, <2>3, <3>1
    <3>4. Weight(q[i]) \in Nat /\ z[i] \in Nat /\ z[i - 1] \in Nat /\ o.connection \in Int
      BY <1>2, <2>3, <3>1, FrameWeights, LedgerFields
    <3>5. x[i - 1].connection = o.connection - z[i - 1]
      BY <2>5
    <3>6. x[i].connection = o.connection - z[i]
      BY <3>2, <3>3, <3>4, <3>5
    <3> QED BY <1>2, <3>6
  <2> HIDE DEF T
  <2>6. \A i \in 0..N : i \in T
    BY <1>2, <2>4, <2>5, UpTo
  <2>7. x[N].connection = o.connection - z[N]
    BY <1>2, <2>6 DEF T
  <2> QED BY <1>1, <2>7 DEF SumOf, N, w, z
<1>4. ASSUME NEW s \in StreamIds
      PROVE  p.offset[s] = o.offset[s] - SumOf(q, LengthOn({s}))
  <2> DEFINE w == LengthOn({s})
             z == Sums(q, w)
             T == {i \in 0..N : x[i].offset[s] = o.offset[s] - z[i]}
  <2>1. w \in [ClientFrames -> Nat]
    BY WeightFunctions
  <2>2. ASSUME NEW m \in ClientFrames PROVE w[m] = Octets(m, s)
    BY FrameKinds DEF LengthOn, Octets
  <2> HIDE DEF w
  <2>3. /\ z[0] = 0 /\ \A k \in 1..N : z[k] = z[k - 1] + w[q[k]]
        /\ \A k \in 0..N : z[k] \in Nat
    BY <2>1, SumsEquation DEF N
  <2> HIDE DEF z
  <2>4. 0 \in T
    BY <1>1, <1>2, <2>3, LedgerFields
  <2>5. ASSUME NEW i \in 1..N, i - 1 \in T PROVE i \in T
    <3>1. x[i - 1] \in Ledger /\ x[i] \in Ledger /\ q[i] \in ClientFrames
      BY <1>1, <1>2 DEF N
    <3>2. x[i].offset[s] = x[i - 1].offset[s] - Octets(q[i], s)
      BY <1>1 DEF Follows, Arrives, N
    <3>3. z[i] = z[i - 1] + Octets(q[i], s)
      BY <2>2, <2>3, <3>1
    <3>4. Octets(q[i], s) \in Nat /\ z[i] \in Nat /\ z[i - 1] \in Nat /\ o.offset[s] \in Int
      BY <1>2, <2>3, <3>1, FrameWeights, LedgerFields
    <3>5. x[i - 1].offset[s] = o.offset[s] - z[i - 1]
      BY <2>5
    <3>6. x[i].offset[s] = o.offset[s] - z[i]
      BY <3>2, <3>3, <3>4, <3>5
    <3> QED BY <1>2, <3>6
  <2> HIDE DEF T
  <2>6. \A i \in 0..N : i \in T
    BY <1>2, <2>4, <2>5, UpTo
  <2>7. x[N].offset[s] = o.offset[s] - z[N]
    BY <1>2, <2>6 DEF T
  <2> QED BY <1>1, <2>7 DEF SumOf, N, w, z
<1> QED BY <1>3, <1>4

\* No data of a body follows the last of it.
LEMMA ReachesNoMore ==
  ASSUME NEW o \in Ledger, NEW p \in Ledger, NEW b \in [StreamIds -> Nat],
         NEW q \in Seq(ClientFrames), Reaches(o, q, b, p),
         NEW s \in StreamIds, o.received[s] = b[s], NEW i \in 1..Len(q)
  PROVE  ~(q[i].type = "DATA" /\ q[i].stream = s)
<1>1. PICK x \in [0..Len(q) -> Ledger] : x[0] = o /\ x[Len(q)] = p /\ Follows(q, b, x)
  BY DEF Reaches
<1> DEFINE N == Len(q)
           T == {k \in 0..N : x[k].received[s] >= b[s]}
<1>2. N \in Nat /\ \A k \in 1..N : k - 1 \in 0..N /\ q[k] \in ClientFrames
  OBVIOUS
<1>0. \A k \in 1..N : k \in 0..N
  BY <1>2
<1> HIDE DEF N
<1>3. 0 \in T
  BY <1>1, <1>2
<1>4. ASSUME NEW k \in 1..N, k - 1 \in T PROVE k \in T
  <2>1. x[k - 1] \in Ledger /\ x[k] \in Ledger /\ q[k] \in ClientFrames
    BY <1>0, <1>1, <1>2 DEF N
  <2>2. x[k].received[s] = x[k - 1].received[s] + Octets(q[k], s)
    BY <1>1 DEF Follows, Arrives, N
  <2>3. Octets(q[k], s) \in Nat /\ x[k - 1].received[s] \in Nat /\ b[s] \in Nat
    BY <2>1, FrameWeights, LedgerFields
  <2>4. x[k].received[s] >= b[s]
    BY <1>4, <2>2, <2>3
  <2> QED BY <1>0, <2>4
<1> HIDE DEF T
<1>5. \A k \in 0..N : k \in T
  BY <1>2, <1>3, <1>4, UpTo
<1>6. SUFFICES ASSUME q[i].type = "DATA" /\ q[i].stream = s PROVE FALSE
  OBVIOUS
<1>7. x[i - 1].received[s] >= b[s] /\ i - 1 \in 0..N
  BY <1>2, <1>5 DEF T, N
<1>8. x[i - 1] \in Ledger /\ q[i] \in ClientFrames
  BY <1>1, <1>2, <1>7 DEF N
<1>9. q[i].length >= 1 /\ q[i].length \in Nat /\ x[i - 1].received[s] + q[i].length <= b[s]
  <2>1. Fits(x[i - 1], q[i], b)
    BY <1>1 DEF Follows
  <2>2. x[i - 1].frameSize \in Nat
    BY <1>8, LedgerFields
  <2> QED BY <1>6, <2>1, <2>2 DEF Fits
<1>10. x[i - 1].received[s] \in Nat /\ b[s] \in Nat
  BY <1>8, LedgerFields
<1> QED BY <1>7, <1>9, <1>10

-----------------------------------------------------------------------------
(***************************************************************************)
(* The other direction: what the frames of a queue still bring the client, *)
(* the SETTINGS in order and the credit for each window.                   *)
(***************************************************************************)
Dues == [settings : Seq(SettingsFrames), credit : [StreamIds \cup {0} -> Nat]]

NoDues == [settings |-> <<>>, credit |-> [s \in StreamIds \cup {0} |-> 0]]

\* Frame m leaves e of d still to come.
Delivers(d, m, e) ==
  /\ \A s \in StreamIds \cup {0} : d.credit[s] = e.credit[s] + IncrementOn(s)[m]
  /\ m.type = "SETTINGS" =>
       d.settings # <<>> /\ Head(d.settings) = m.settings /\ e.settings = Tail(d.settings)
  /\ m.type # "SETTINGS" => e.settings = d.settings

Brings(q, d) ==
  \E due \in [0..Len(q) -> Dues] :
    /\ due[0] = d /\ due[Len(q)] = NoDues
    /\ \A i \in 1..Len(q) : Delivers(due[i - 1], q[i], due[i])

\* d with frame m behind it.
With(d, m) ==
  [settings |-> IF m.type = "SETTINGS" THEN Append(d.settings, m.settings) ELSE d.settings,
   credit |-> [s \in StreamIds \cup {0} |-> d.credit[s] + IncrementOn(s)[m]]]

LEMMA DuesFields ==
  ASSUME NEW d \in Dues
  PROVE  /\ d.settings \in Seq(SettingsFrames)
         /\ d.credit \in [StreamIds \cup {0} -> Nat]
BY DEF Dues

LEMMA PeerFrameKinds ==
  ASSUME NEW m \in PeerFrames
  PROVE  /\ m.type \in {"WINDOW_UPDATE", "SETTINGS", "CLOSE"}
         /\ m.type = "WINDOW_UPDATE" => m.stream \in StreamIds \cup {0} /\ m.increment \in Nat
         /\ m.type = "SETTINGS" => m.settings \in SettingsFrames
         /\ m.type = "CLOSE" => m.stream \in StreamIds
         /\ \A s \in StreamIds \cup {0} : IncrementOn(s)[m] \in Nat
         /\ \A s \in StreamIds \cup {0} : IncrementOn(s)[m] =
              IF m.type = "WINDOW_UPDATE" /\ m.stream = s THEN m.increment ELSE 0
<1>1. \A s \in StreamIds \cup {0} : IncrementOn(s)[m] =
              IF m.type = "WINDOW_UPDATE" /\ m.stream = s THEN m.increment ELSE 0
  BY DEF IncrementOn
<1>2. /\ m.type \in {"WINDOW_UPDATE", "SETTINGS", "CLOSE"}
      /\ m.type = "WINDOW_UPDATE" => m.stream \in StreamIds \cup {0} /\ m.increment \in Nat
      /\ m.type = "SETTINGS" => m.settings \in SettingsFrames
      /\ m.type = "CLOSE" => m.stream \in StreamIds
  BY PeerAssumption DEF PeerFrames
<1>3. \A s \in StreamIds \cup {0} : IncrementOn(s)[m] \in Nat
  BY WeightFunctions
<1> QED BY <1>1, <1>2, <1>3

LEMMA NoDuesIn == NoDues \in Dues
<1>1. <<>> \in Seq(SettingsFrames)
  OBVIOUS
<1> QED BY <1>1 DEF NoDues, Dues

LEMMA WithFields ==
  ASSUME NEW d \in Dues, NEW m \in PeerFrames
  PROVE  /\ With(d, m) \in Dues
         /\ With(d, m).settings =
              IF m.type = "SETTINGS" THEN Append(d.settings, m.settings) ELSE d.settings
         /\ \A s \in StreamIds \cup {0} :
              With(d, m).credit[s] = d.credit[s] + IncrementOn(s)[m]
BY DuesFields, PeerFrameKinds DEF With, Dues

LEMMA BringsNothing == Brings(<<>>, NoDues)
<1> DEFINE due == [i \in 0..0 |-> NoDues]
<1>1. due \in [0..0 -> Dues] /\ due[0] = NoDues /\ Len(<<>>) = 0 /\ 1..0 = {}
  BY NoDuesIn
<1> HIDE DEF due
<1> QED BY <1>1 DEF Brings

\* The first frame arrives.
LEMMA BringsFirst ==
  ASSUME NEW d, NEW q \in Seq(PeerFrames), q # <<>>, Brings(q, d)
  PROVE  \E e \in Dues : Delivers(d, Head(q), e) /\ Brings(Tail(q), e)
<1>1. PICK x \in [0..Len(q) -> Dues] :
        /\ x[0] = d /\ x[Len(q)] = NoDues
        /\ \A i \in 1..Len(q) : Delivers(x[i - 1], q[i], x[i])
  BY DEF Brings
<1> DEFINE k == Len(q) - 1
           y == [i \in 0..k |-> x[i + 1]]
<1>2. k \in Nat /\ Len(Tail(q)) = k /\ Len(q) = k + 1 /\ Head(q) = q[1] /\ 1 \in 1..Len(q)
  OBVIOUS
<1>3. y \in [0..k -> Dues] /\ y[0] = x[1] /\ y[k] = NoDues
  BY <1>1, <1>2
<1>4. ASSUME NEW i \in 1..k PROVE Delivers(y[i - 1], Tail(q)[i], y[i])
  <2>1. i + 1 \in 1..Len(q) /\ (i + 1) - 1 = i /\ y[i - 1] = x[i] /\ y[i] = x[i + 1]
    BY <1>2
  <2>2. Tail(q)[i] = q[i + 1]
    BY <1>2
  <2> HIDE DEF y, k
  <2> QED BY <1>1, <2>1, <2>2
<1> HIDE DEF y, k
<1>5. Brings(Tail(q), x[1])
  BY <1>2, <1>3, <1>4 DEF Brings
<1>6. x[1] \in Dues /\ 1 - 1 = 0
  BY <1>1, <1>2
<1> QED BY <1>1, <1>2, <1>5, <1>6

\* One more frame at the end.
LEMMA DeliversWith ==
  ASSUME NEW d \in Dues, NEW e \in Dues, NEW m \in PeerFrames, NEW f \in PeerFrames,
         Delivers(d, m, e)
  PROVE  Delivers(With(d, f), m, With(e, f))
<1>1. ASSUME NEW s \in StreamIds \cup {0}
      PROVE  With(d, f).credit[s] = With(e, f).credit[s] + IncrementOn(s)[m]
  <2>1. d.credit[s] = e.credit[s] + IncrementOn(s)[m]
    BY DEF Delivers
  <2>2. {d.credit[s], e.credit[s], IncrementOn(s)[m], IncrementOn(s)[f]} \subseteq Nat
    BY DuesFields, PeerFrameKinds
  <2> QED BY <2>1, <2>2, WithFields
<1>2. CASE m.type = "SETTINGS"
  <2>1. d.settings # <<>> /\ Head(d.settings) = m.settings /\ e.settings = Tail(d.settings)
    BY <1>2 DEF Delivers
  <2>2. CASE f.type = "SETTINGS"
    <3>1. f.settings \in SettingsFrames /\ d.settings \in Seq(SettingsFrames)
      BY <2>2, PeerFrameKinds, DuesFields
    <3>2. /\ Append(d.settings, f.settings) # <<>>
          /\ Head(Append(d.settings, f.settings)) = Head(d.settings)
          /\ Tail(Append(d.settings, f.settings)) = Append(Tail(d.settings), f.settings)
      BY <2>1, <3>1
    <3>3. With(d, f).settings = Append(d.settings, f.settings)
          /\ With(e, f).settings = Append(e.settings, f.settings)
      BY <2>2, WithFields
    <3> QED BY <1>1, <1>2, <2>1, <3>2, <3>3 DEF Delivers
  <2>3. CASE f.type # "SETTINGS"
    <3>1. With(d, f).settings = d.settings /\ With(e, f).settings = e.settings
      BY <2>3, WithFields
    <3> QED BY <1>1, <1>2, <2>1, <3>1 DEF Delivers
  <2> QED BY <2>2, <2>3
<1>3. CASE m.type # "SETTINGS"
  <2>1. e.settings = d.settings
    BY <1>3 DEF Delivers
  <2>2. With(d, f).settings = With(e, f).settings
    BY <2>1, WithFields
  <2> QED BY <1>1, <1>3, <2>2 DEF Delivers
<1> QED BY <1>2, <1>3

LEMMA DeliversLast ==
  ASSUME NEW m \in PeerFrames
  PROVE  Delivers(With(NoDues, m), m, NoDues)
<1>1. NoDues \in Dues /\ NoDues.settings = <<>> /\ \A s \in StreamIds \cup {0} : NoDues.credit[s] = 0
  BY NoDuesIn DEF NoDues
<1>2. \A s \in StreamIds \cup {0} : With(NoDues, m).credit[s] = NoDues.credit[s] + IncrementOn(s)[m]
  BY <1>1, WithFields
<1>3. CASE m.type = "SETTINGS"
  <2>1. m.settings \in SettingsFrames
    BY <1>3, PeerFrameKinds
  <2>2. Append(<<>>, m.settings) # <<>> /\ Head(Append(<<>>, m.settings)) = m.settings
        /\ Tail(Append(<<>>, m.settings)) = <<>>
    BY <2>1
  <2>3. With(NoDues, m).settings = Append(<<>>, m.settings)
    BY <1>1, <1>3, WithFields
  <2> QED BY <1>1, <1>2, <1>3, <2>2, <2>3 DEF Delivers
<1>4. CASE m.type # "SETTINGS"
  BY <1>1, <1>2, <1>4, WithFields DEF Delivers
<1> QED BY <1>3, <1>4

LEMMA BringsMore ==
  ASSUME NEW d, NEW q \in Seq(PeerFrames), Brings(q, d), NEW m \in PeerFrames
  PROVE  Brings(Append(q, m), With(d, m))
<1>1. PICK x \in [0..Len(q) -> Dues] :
        /\ x[0] = d /\ x[Len(q)] = NoDues
        /\ \A i \in 1..Len(q) : Delivers(x[i - 1], q[i], x[i])
  BY DEF Brings
<1> DEFINE k == Len(q)
           y == [i \in 0..(k + 1) |-> IF i <= k THEN With(x[i], m) ELSE NoDues]
<1>2. k \in Nat /\ Len(Append(q, m)) = k + 1
  OBVIOUS
<1>3. y \in [0..(k + 1) -> Dues] /\ y[0] = With(d, m) /\ y[k + 1] = NoDues
  BY <1>1, <1>2, WithFields, NoDuesIn
<1>4. ASSUME NEW i \in 1..(k + 1) PROVE Delivers(y[i - 1], Append(q, m)[i], y[i])
  <2>1. CASE i <= k
    <3>1. i \in 1..k /\ i - 1 \in 0..k /\ Append(q, m)[i] = q[i] /\ q[i] \in PeerFrames
      BY <1>2, <2>1
    <3>2. y[i - 1] = With(x[i - 1], m) /\ y[i] = With(x[i], m)
      BY <1>2, <2>1
    <3>3. x[i - 1] \in Dues /\ x[i] \in Dues
      BY <1>1, <3>1
    <3> HIDE DEF y
    <3> QED BY <1>1, <3>1, <3>2, <3>3, DeliversWith
  <2>2. CASE ~(i <= k)
    <3>1. i = k + 1 /\ i - 1 = k /\ Append(q, m)[i] = m
      BY <1>2, <2>2
    <3>2. y[i - 1] = With(NoDues, m) /\ y[i] = NoDues
      BY <1>1, <1>2, <3>1
    <3> HIDE DEF y
    <3> QED BY <3>1, <3>2, DeliversLast
  <2> QED BY <2>1, <2>2
<1> HIDE DEF y
<1> QED BY <1>2, <1>3, <1>4 DEF Brings

\* The credit that is to come is what the frames carry.
LEMMA BringsCredit ==
  ASSUME NEW d \in Dues, NEW q \in Seq(PeerFrames), Brings(q, d),
         NEW s \in StreamIds \cup {0}
  PROVE  d.credit[s] = SumOf(q, IncrementOn(s))
<1>1. PICK x \in [0..Len(q) -> Dues] :
        /\ x[0] = d /\ x[Len(q)] = NoDues
        /\ \A i \in 1..Len(q) : Delivers(x[i - 1], q[i], x[i])
  BY DEF Brings
<1> DEFINE N == Len(q)
           w == IncrementOn(s)
           z == Sums(q, w)
           T == {i \in 0..N : d.credit[s] = x[i].credit[s] + z[i]}
<1>2. N \in Nat /\ \A i \in 1..N : i \in 0..N /\ i - 1 \in 0..N /\ q[i] \in PeerFrames
  OBVIOUS
<1>3. w \in [PeerFrames -> Nat]
  BY WeightFunctions
<1>4. \A i \in 1..N : x[i - 1].credit[s] = x[i].credit[s] + w[q[i]]
  BY <1>1 DEF Delivers
<1> HIDE DEF w
<1>5. /\ z[0] = 0 /\ \A i \in 1..N : z[i] = z[i - 1] + w[q[i]]
      /\ \A i \in 0..N : z[i] \in Nat
  BY <1>3, SumsEquation
<1> HIDE DEF z, N
<1>6. \A i \in 0..N : x[i].credit[s] \in Nat
  BY <1>1, DuesFields DEF N
<1>7. 0 \in T
  <2>1. 0 \in 0..N
    BY <1>2
  <2> QED BY <1>1, <1>5, <1>6, <2>1
<1>8. ASSUME NEW i \in 1..N, i - 1 \in T PROVE i \in T
  <2>1. i \in 0..N /\ i - 1 \in 0..N /\ w[q[i]] \in Nat
    BY <1>2, <1>3
  <2>2. d.credit[s] = x[i - 1].credit[s] + z[i - 1]
    BY <1>8
  <2>3. {x[i].credit[s], x[i - 1].credit[s], z[i], z[i - 1]} \subseteq Nat
    BY <1>5, <1>6, <2>1
  <2>4. z[i] = z[i - 1] + w[q[i]] /\ x[i - 1].credit[s] = x[i].credit[s] + w[q[i]]
    BY <1>4, <1>5
  <2>5. d.credit[s] = x[i].credit[s] + z[i]
    BY <2>1, <2>2, <2>3, <2>4
  <2> QED BY <2>1, <2>5
<1> HIDE DEF T
<1>9. \A i \in 0..N : i \in T
  BY <1>2, <1>7, <1>8, UpTo
<1>10. d.credit[s] = x[N].credit[s] + z[N]
  BY <1>2, <1>9 DEF T
<1>11. x[N].credit[s] = 0
  BY <1>1 DEF N, NoDues
<1>12. z[N] \in Nat
  BY <1>2, <1>5
<1>13. d.credit[s] = z[N]
  BY <1>10, <1>11, <1>12
<1> QED BY <1>13 DEF SumOf, N, w, z

-----------------------------------------------------------------------------
\* q cuts n octets of stream s into chunks of at most max octets, cut[i] of them in the
\* first i; only the last chunk reaches the end, and carries END_STREAM if e.
CutsInto(q, s, n, e, max, count, cut) ==
  /\ q = [i \in 1..count |-> Data(s, cut[i] - cut[i - 1], e /\ i = count)]
  /\ cut[0] = 0 /\ cut[count] = n
  /\ \A i \in 1..count :
       cut[i] - cut[i - 1] \in 1..max /\ cut[i] <= n /\ (cut[i] = n <=> i = count)

LEMMA ChunksCut ==
  ASSUME maxFrameSize \in Nat \ {0}, NEW s, NEW n \in Nat, NEW e \in BOOLEAN
  PROVE  \E count \in Nat : \E cut \in [0..count -> Nat] :
           CutsInto(Chunks(s, n, e), s, n, e, maxFrameSize, count, cut)
<1> DEFINE c == maxFrameSize
           count == (n + c - 1) \div c
           cut == [i \in 0..count |-> IF i = count THEN n ELSE i * c]
<1>1. c \in Nat \ {0}
  OBVIOUS
<1> HIDE DEF c
<1>2. /\ count \in Nat
      /\ n <= count * c /\ count * c <= n + c - 1
  BY <1>1
<1> HIDE DEF count
<1>3. n = 0 <=> count = 0
  BY <1>1, <1>2
<1>4. ASSUME NEW i \in 0..count
      PROVE  i * c \in Nat /\ (i # 0 => (i - 1) * c = i * c - c) /\ (i # count => i * c < n)
  BY <1>1, <1>2
<1>5. cut \in [0..count -> Nat]
  BY <1>4
<1>6. cut[0] = 0 /\ cut[count] = n
  BY <1>1, <1>2, <1>3
<1>7. ASSUME NEW i \in 1..count
      PROVE  /\ cut[i] - cut[i - 1] = (IF i < count THEN c ELSE n - (count - 1) * c)
             /\ cut[i] - cut[i - 1] \in 1..c
             /\ cut[i] <= n
             /\ cut[i] = n <=> i = count
  <2>1. i \in 0..count /\ i - 1 \in 0..count /\ i - 1 # count /\ i # 0
    BY <1>2
  <2>2. cut[i - 1] = (i - 1) * c
    BY <2>1
  <2>3. CASE i = count
    <3>1. cut[i] = n
      BY <2>1, <2>3
    <3>2. (i - 1) * c < n /\ (i - 1) * c \in Nat /\ i * c \in Nat /\ (i - 1) * c = i * c - c
      BY <1>4, <2>1
    <3>3. n <= i * c
      BY <1>2, <2>3
    <3> HIDE DEF cut
    <3>4. n - (i - 1) * c \in 1..c
      BY <1>1, <3>2, <3>3
    <3> QED BY <2>2, <2>3, <3>1, <3>4
  <2>4. CASE i # count
    <3>1. cut[i] = i * c
      BY <2>1, <2>4
    <3>2. i * c < n /\ i * c \in Nat /\ (i - 1) * c = i * c - c
      BY <1>4, <2>1, <2>4
    <3>3. i < count
      BY <1>2, <2>4
    <3> HIDE DEF cut
    <3> QED BY <1>1, <2>2, <2>4, <3>1, <3>2, <3>3
  <2> QED BY <2>3, <2>4
<1> HIDE DEF cut
<1>8. Chunks(s, n, e) = [i \in 1..count |-> Data(s, cut[i] - cut[i - 1], e /\ i = count)]
  BY <1>7 DEF Chunks, c, count
<1>9. CutsInto(Chunks(s, n, e), s, n, e, maxFrameSize, count, cut)
  BY <1>6, <1>7, <1>8 DEF c, CutsInto
<1> QED BY <1>2, <1>5, <1>9

\* Ledger p with n more octets of stream s received.
Taken(p, s, n) ==
  [initial |-> p.initial, frameSize |-> p.frameSize, unacknowledged |-> p.unacknowledged,
   connection |-> p.connection - n,
   offset |-> [t \in StreamIds |-> p.offset[t] - (IF t = s THEN n ELSE 0)],
   received |-> [t \in StreamIds |-> p.received[t] + (IF t = s THEN n ELSE 0)]]

LEMMA TakenIsLedger ==
  ASSUME NEW p \in Ledger, NEW s \in StreamIds, NEW n \in Nat
  PROVE  Taken(p, s, n) \in Ledger
BY LedgerFields DEF Taken, Ledger

LEMMA TakenNothing ==
  ASSUME NEW p \in Ledger, NEW s \in StreamIds
  PROVE  Taken(p, s, 0) = p
<1>1. [t \in StreamIds |-> p.offset[t] - (IF t = s THEN 0 ELSE 0)] = p.offset
  BY LedgerFields
<1>2. [t \in StreamIds |-> p.received[t] + (IF t = s THEN 0 ELSE 0)] = p.received
  BY LedgerFields
<1>3. p.connection - 0 = p.connection
  BY LedgerFields
<1> QED BY <1>1, <1>2, <1>3 DEF Taken, Ledger

\* The chunk with octets k + 1 to l of n, if all n suit.
LEMMA ChunkArrives ==
  ASSUME NEW p \in Ledger, NEW b \in [StreamIds -> Nat], NEW w \in Nat, Usable(p, w),
         NEW s \in StreamIds, NEW n \in Nat, NEW k \in Nat, NEW l \in Nat,
         l <= n, n <= p.connection, n <= w + p.offset[s], p.received[s] + n <= b[s],
         l - k \in 1..p.frameSize,
         NEW m, m.type = "DATA", m.stream = s, m.length = l - k,
         m.endStream <=> l = n /\ p.received[s] + n = b[s]
  PROVE  /\ Fits(Taken(p, s, k), m, b)
         /\ Arrives(Taken(p, s, k), m, Taken(p, s, l))
<1> DEFINE x == Taken(p, s, k)
           y == Taken(p, s, l)
<1>1. /\ x.initial = p.initial /\ x.frameSize = p.frameSize
      /\ x.unacknowledged = p.unacknowledged
      /\ x.connection = p.connection - k
      /\ \A t \in StreamIds :
            /\ x.offset[t] = p.offset[t] - (IF t = s THEN k ELSE 0)
            /\ x.received[t] = p.received[t] + (IF t = s THEN k ELSE 0)
  BY DEF Taken
<1>2. /\ y.initial = p.initial /\ y.frameSize = p.frameSize
      /\ y.unacknowledged = p.unacknowledged
      /\ y.connection = p.connection - l
      /\ \A t \in StreamIds :
            /\ y.offset[t] = p.offset[t] - (IF t = s THEN l ELSE 0)
            /\ y.received[t] = p.received[t] + (IF t = s THEN l ELSE 0)
  BY DEF Taken
<1> HIDE DEF x, y
<1>3. /\ p.connection \in Int /\ p.frameSize \in Nat /\ b[s] \in Nat
      /\ \A t \in StreamIds : p.offset[t] \in Int /\ p.received[t] \in Nat
  BY LedgerFields
<1>4. Arrives(x, m, y)
  <2>1. Weight(m) = l - k /\ \A t \in StreamIds : Octets(m, t) = IF t = s THEN l - k ELSE 0
    BY DEF Weight, Octets
  <2>2. y.connection = x.connection - Weight(m)
    BY <1>1, <1>2, <1>3, <2>1
  <2>3. ASSUME NEW t \in StreamIds
        PROVE  /\ y.offset[t] = x.offset[t] - Octets(m, t)
               /\ y.received[t] = x.received[t] + Octets(m, t)
    BY <1>1, <1>2, <1>3, <2>1
  <2> QED BY <1>1, <1>2, <2>2, <2>3 DEF Arrives
<1>5. Fits(x, m, b)
  <2> DEFINE c == p.connection
             o == p.offset[s]
             r == p.received[s]
             z == b[s]
  <2>1. c \in Int /\ o \in Int /\ r \in Nat /\ z \in Nat
        /\ x.connection = c - k /\ x.offset[s] = o - k /\ x.received[s] = r + k
    BY <1>1, <1>3
  <2>2. n <= c /\ n <= w + o /\ r + n <= z
    OBVIOUS
  <2>3. m.endStream <=> l = n /\ r + n = z
    OBVIOUS
  <2>4. Usable(x, w)
    BY <1>1 DEF Usable
  <2>5. m.length \in 1..x.frameSize
    BY <1>1
  <2> HIDE DEF c, o, r, z
  <2>6. m.length <= x.connection /\ m.length <= w + x.offset[s]
    BY <2>1, <2>2
  <2>7. x.received[s] + m.length = r + l /\ r + l <= z
    BY <2>1, <2>2
  <2>8. m.endStream <=> r + l = z
    BY <2>1, <2>2, <2>3
  <2> QED BY <2>4, <2>5, <2>6, <2>7, <2>8 DEF Fits, z
<1> QED BY <1>4, <1>5 DEF x, y

\* DATA frames that stay within both windows, the frame size and the body.
LEMMA ReachesChunks ==
  ASSUME maxFrameSize \in Nat \ {0}, NEW p \in Ledger, maxFrameSize <= p.frameSize,
         NEW b \in [StreamIds -> Nat], NEW w \in Nat, Usable(p, w),
         NEW s \in StreamIds, NEW n \in Nat, NEW e \in BOOLEAN,
         n <= p.connection,
         n > 0 => n <= w + p.offset[s] /\ p.received[s] + n <= b[s],
         n > 0 => (e <=> p.received[s] + n = b[s])
  PROVE  /\ Chunks(s, n, e) \in Seq(ClientFrames)
         /\ Reaches(p, Chunks(s, n, e), b, Taken(p, s, n))
<1>1. PICK count \in Nat : \E cut \in [0..count -> Nat] :
        CutsInto(Chunks(s, n, e), s, n, e, maxFrameSize, count, cut)
  BY ChunksCut
<1>2. PICK cut \in [0..count -> Nat] :
        CutsInto(Chunks(s, n, e), s, n, e, maxFrameSize, count, cut)
  BY <1>1
<1> DEFINE q == Chunks(s, n, e)
           seen == [i \in 0..count |-> Taken(p, s, cut[i])]
<1>3. ASSUME NEW i \in 1..count
      PROVE  /\ i \in 0..count /\ i - 1 \in 0..count
             /\ cut[i] \in Nat /\ cut[i - 1] \in Nat
             /\ q[i] = Data(s, cut[i] - cut[i - 1], e /\ i = count)
             /\ q[i] \in ClientFrames
             /\ q[i].type = "DATA" /\ q[i].stream = s /\ q[i].length = cut[i] - cut[i - 1]
             /\ q[i].endStream = (e /\ i = count)
  <2>1. i \in 0..count /\ i - 1 \in 0..count
    OBVIOUS
  <2>2. cut[i] \in Nat /\ cut[i - 1] \in Nat
    BY <2>1
  <2>3. q[i] = Data(s, cut[i] - cut[i - 1], e /\ i = count)
    BY <1>2 DEF CutsInto
  <2>4. cut[i] - cut[i - 1] \in Nat
    BY <1>2 DEF CutsInto
  <2> DEFINE l == cut[i] - cut[i - 1]
             last == e /\ i = count
  <2>5. last \in BOOLEAN /\ l \in Nat
    BY <2>4
  <2> HIDE DEF q, l, last
  <2>6. LET m == Data(s, l, last) IN
        m \in ClientFrames /\ m.type = "DATA" /\ m.stream = s /\ m.length = l
        /\ m.endStream = last
    BY <2>5 DEF Data, ClientFrames
  <2>7. q[i] = Data(s, l, last)
    BY <2>3 DEF l, last
  <2>8. /\ q[i] \in ClientFrames /\ q[i].type = "DATA" /\ q[i].stream = s
        /\ q[i].length = l /\ q[i].endStream = last
    BY <2>6, <2>7, Zenon
  <2> QED BY <2>1, <2>2, <2>3, <2>8 DEF l, last
<1>4. q \in Seq(ClientFrames) /\ Len(q) = count
  <2>1. q = [i \in 1..count |-> Data(s, cut[i] - cut[i - 1], e /\ i = count)]
    BY <1>2 DEF CutsInto
  <2> HIDE DEF q
  <2>2. \A i \in 1..count : Data(s, cut[i] - cut[i - 1], e /\ i = count) \in ClientFrames
    BY <1>3
  <2> QED BY <2>1, <2>2
<1> HIDE DEF q
<1>5. seen \in [0..count -> Ledger] /\ seen[0] = p /\ seen[count] = Taken(p, s, n)
  <2>1. 0 \in 0..count /\ count \in 0..count
    OBVIOUS
  <2>2. \A i \in 0..count : Taken(p, s, cut[i]) \in Ledger
    BY TakenIsLedger
  <2>3. Taken(p, s, 0) = p
    BY TakenNothing
  <2>4. cut[0] = 0 /\ cut[count] = n
    BY <1>2 DEF CutsInto
  <2> QED BY <2>1, <2>2, <2>3, <2>4
<1>6. ASSUME NEW i \in 1..count
      PROVE  Fits(seen[i - 1], q[i], b) /\ Arrives(seen[i - 1], q[i], seen[i])
  <2>1. seen[i - 1] = Taken(p, s, cut[i - 1]) /\ seen[i] = Taken(p, s, cut[i])
    BY <1>3
  <2>2. PICK k \in Nat : k = cut[i - 1]
    BY <1>3
  <2>3. PICK l \in Nat : l = cut[i]
    BY <1>3
  <2>4. l - k \in 1..maxFrameSize /\ l <= n /\ (l = n <=> i = count)
    BY <1>2, <2>2, <2>3 DEF CutsInto
  <2>5. n > 0 /\ l - k \in 1..p.frameSize
    <3>1. p.frameSize \in Nat
      BY LedgerFields
    <3> QED BY <2>4, <3>1
  <2>6. q[i].type = "DATA" /\ q[i].stream = s /\ q[i].length = l - k
    BY <1>3, <2>2, <2>3
  <2>7. q[i].endStream <=> l = n /\ p.received[s] + n = b[s]
    BY <1>3, <2>4, <2>5
  <2>8. n <= w + p.offset[s] /\ p.received[s] + n <= b[s]
    BY <2>5
  <2> HIDE DEF seen
  <2>9. /\ Fits(Taken(p, s, k), q[i], b)
        /\ Arrives(Taken(p, s, k), q[i], Taken(p, s, l))
    BY <2>4, <2>5, <2>6, <2>7, <2>8, ChunkArrives, ZenonT(60)
  <2> QED BY <2>1, <2>2, <2>3, <2>9
<1> HIDE DEF seen
<1>7. Follows(q, b, seen)
  BY <1>4, <1>6 DEF Follows
<1>8. Reaches(p, q, b, Taken(p, s, n))
  BY <1>4, <1>5, <1>7 DEF Reaches
<1> QED BY <1>4, <1>8 DEF q

-----------------------------------------------------------------------------
\* What the current step writes on stream s: octets, and whether it ends the body.
Spent(s) == sent'[s] - sent[s]
Ends(s) == s \in ended' \ ended

LEMMA EndsIsBoolean == \A s : Ends(s) \in BOOLEAN
BY DEF Ends

\* Written satisfies its defining equation.
LEMMA WrittenEquation ==
  ASSUME maxFrameSize \in Nat \ {0}, \A s \in StreamIds : Spent(s) \in Nat
  PROVE  \E upTo \in [0..MaxStreams -> Seq(ClientFrames)] :
           /\ upTo[0] = <<>>
           /\ \A k \in StreamIds : upTo[k] = upTo[k - 1] \o Chunks(k, Spent(k), Ends(k))
           /\ Written = upTo[MaxStreams]
<1> DEFINE N == MaxStreams
           V == Seq(ClientFrames)
           cut(k) == Chunks(k, Spent(k), Ends(k))
           step == [p \in (1..N) \X V |-> p[2] \o cut(p[1])]
           solves(g) == g = [k \in 0..N |-> IF k = 0 THEN <<>> ELSE g[k - 1] \o cut(k)]
           upTo == CHOOSE g : solves(g)
<1>1. N \in Nat /\ StreamIds = 1..N
  BY BoundAssumption DEF StreamIds
<1>2. ASSUME NEW k \in 1..N PROVE cut(k) \in V
  <2>1. PICK n \in Nat : n = Spent(k)
    BY <1>1
  <2>2. PICK e \in BOOLEAN : e = Ends(k)
    BY EndsIsBoolean
  <2>3. Chunks(k, n, e) \in Seq(ClientFrames)
    <3>1. PICK count \in Nat : \E x \in [0..count -> Nat] :
            CutsInto(Chunks(k, n, e), k, n, e, maxFrameSize, count, x)
      BY ChunksCut, ZenonT(60)
    <3>2. PICK x \in [0..count -> Nat] :
            CutsInto(Chunks(k, n, e), k, n, e, maxFrameSize, count, x)
      BY <3>1
    <3>3. Chunks(k, n, e) = [i \in 1..count |-> Data(k, x[i] - x[i - 1], e /\ i = count)]
      BY <3>2 DEF CutsInto
    <3>4. ASSUME NEW i \in 1..count
          PROVE  Data(k, x[i] - x[i - 1], e /\ i = count) \in ClientFrames
      <4>1. x[i] - x[i - 1] \in Nat
        BY <3>2 DEF CutsInto
      <4>2. (e /\ i = count) \in BOOLEAN /\ k \in StreamIds
        BY <1>1
      <4> QED BY <4>1, <4>2 DEF Data, ClientFrames
    <3> QED BY <3>3, <3>4
  <2> QED BY <2>1, <2>2, <2>3
<1> HIDE DEF cut
<1>3. ASSUME NEW k \in 1..N, NEW c \in V PROVE step[<<k, c>>] = c \o cut(k) /\ c \o cut(k) \in V
  <2>1. c \o cut(k) \in V
    BY <1>2
  <2>2. <<k, c>> \in (1..N) \X V /\ <<k, c>>[1] = k /\ <<k, c>>[2] = c
    OBVIOUS
  <2>3. step[<<k, c>>] = <<k, c>>[2] \o cut(<<k, c>>[1])
    <3> HIDE DEF V, N
    <3> QED BY <2>2
  <2> HIDE DEF step
  <2> QED BY <2>1, <2>2, <2>3
<1>4. step \in Steps(N, V)
  <2>1. \A p \in (1..N) \X V : p[1] \in 1..N /\ p[2] \in V /\ p = <<p[1], p[2]>>
    OBVIOUS
  <2>2. \A p \in (1..N) \X V : p[2] \o cut(p[1]) \in V
    <3> HIDE DEF step, V
    <3> QED BY <1>3, <2>1
  <2> HIDE DEF V
  <2> QED BY <2>2 DEF Steps
<1>5. <<>> \in V
  OBVIOUS
<1>6. PICK h \in [0..N -> V] : h[0] = <<>> /\ \A k \in 1..N : h[k] = step[<<k, h[k - 1]>>]
  <2> HIDE DEF step, V, N
  <2> QED BY <1>1, <1>4, <1>5, RecursionExists
<1>7. ASSUME NEW k \in 1..N PROVE h[k] = h[k - 1] \o cut(k)
  <2> HIDE DEF N, V, step
  <2>1. k - 1 \in 0..N
    BY <1>1
  <2>2. h[k - 1] \in V
    BY <2>1
  <2> QED BY <1>3, <1>6, <2>2
<1>8. solves(h)
  <2>1. \A k \in 0..N : k # 0 => k \in 1..N
    BY <1>1
  <2> HIDE DEF N, V, step
  <2>2. h = [k \in 0..N |-> h[k]]
    BY <1>6
  <2>3. \A k \in 0..N : h[k] = IF k = 0 THEN <<>> ELSE h[k - 1] \o cut(k)
    BY <1>6, <1>7, <2>1
  <2> QED BY <2>2, <2>3
<1>9. solves(upTo)
  <2> HIDE DEF solves
  <2> QED BY <1>8
<1>10. Written = upTo[N]
  BY DEF Written, cut, Spent, Ends
<1> HIDE DEF upTo
<1>11. /\ upTo = [k \in 0..N |-> upTo[k]]
       /\ upTo[0] = <<>> /\ \A k \in 1..N : upTo[k] = upTo[k - 1] \o cut(k)
  <2> HIDE DEF N
  <2> QED BY <1>1, <1>9, SMTT(30)
<1>12. \A k \in 0..N : upTo[k] \in V
  <2> DEFINE T == {k \in 0..N : upTo[k] \in V}
  <2>1. 0 \in T
    <3>1. 0 \in 0..N
      BY <1>1
    <3> HIDE DEF V
    <3> QED BY <1>5, <1>11, <3>1
  <2>2. ASSUME NEW k \in 1..N, k - 1 \in T PROVE k \in T
    <3>1. k \in 0..N /\ upTo[k - 1] \in V
      BY <1>1, <2>2
    <3> HIDE DEF V
    <3>2. upTo[k] \in V
      BY <1>3, <1>11, <3>1
    <3> QED BY <3>1, <3>2
  <2> HIDE DEF T
  <2>3. \A k \in 0..N : k \in T
    BY <1>1, <2>1, <2>2, UpTo
  <2> QED BY <2>3 DEF T
<1>13. upTo \in [0..N -> V]
  <2> HIDE DEF V, N
  <2> QED BY <1>11, <1>12
<1> QED BY <1>1, <1>10, <1>11, <1>13 DEF cut

\* left is what remains of the connection window after each stream.
Leaves(left) ==
  \A s \in StreamIds : Spent(s) = left[s - 1] - left[s] /\ left[s] <= left[s - 1]

\* Every stream's part is within its credit and its body, w being the initial window
\* in use, and ends the body exactly if it completes it.
Affordable(p, b, w) ==
  \A s \in StreamIds : Spent(s) > 0 =>
    /\ Spent(s) <= w + p.offset[s]
    /\ p.received[s] + Spent(s) <= b[s]
    /\ Ends(s) <=> p.received[s] + Spent(s) = b[s]

\* Ledger r is what p becomes when the frames of the step, n octets in all, arrive.
AfterDrain(p, b, n, r) ==
  /\ Reaches(p, Written, b, r)
  /\ r.initial = p.initial /\ r.frameSize = p.frameSize
  /\ r.unacknowledged = p.unacknowledged
  /\ r.connection = p.connection - n
  /\ \A s \in StreamIds :
       r.offset[s] = p.offset[s] - Spent(s) /\ r.received[s] = p.received[s] + Spent(s)

\* A pass over the streams, from ledger p.
LEMMA WrittenReaches ==
  ASSUME maxFrameSize \in Nat \ {0}, NEW p \in Ledger, maxFrameSize <= p.frameSize,
         NEW b \in [StreamIds -> Nat], NEW w \in Nat, Usable(p, w),
         NEW left \in [0..MaxStreams -> Nat], left[0] <= p.connection,
         Leaves(left), Affordable(p, b, w)
  PROVE  /\ Written \in Seq(ClientFrames)
         /\ \E r \in Ledger : AfterDrain(p, b, left[0] - left[MaxStreams], r)
<1> DEFINE N == MaxStreams
<1>1. N \in Nat /\ StreamIds = 1..N
  BY BoundAssumption DEF StreamIds
<1>2. ASSUME NEW s \in StreamIds
      PROVE  /\ s \in 0..N /\ s - 1 \in 0..N /\ s \in 1..N
             /\ left[s] \in Nat /\ left[s - 1] \in Nat /\ Spent(s) \in Nat
             /\ s \in Int
  <2>1. s \in 0..N /\ s - 1 \in 0..N /\ s \in 1..N /\ s \in Int
    BY <1>1
  <2>2. left[s] \in Nat /\ left[s - 1] \in Nat
    BY <2>1
  <2> QED BY <2>1, <2>2 DEF Leaves
<1>3. PICK upTo \in [0..N -> Seq(ClientFrames)] :
           /\ upTo[0] = <<>>
           /\ \A k \in StreamIds : upTo[k] = upTo[k - 1] \o Chunks(k, Spent(k), Ends(k))
           /\ Written = upTo[N]
  <2>1. \A s \in StreamIds : Spent(s) \in Nat
    BY <1>2
  <2> QED BY <2>1, WrittenEquation
<1> DEFINE After(k, r) ==
             /\ Reaches(p, upTo[k], b, r)
             /\ r.initial = p.initial /\ r.frameSize = p.frameSize
             /\ r.unacknowledged = p.unacknowledged
             /\ r.connection = p.connection - (left[0] - left[k])
             /\ \A s \in StreamIds :
                  /\ r.offset[s] = p.offset[s] - (IF s <= k THEN Spent(s) ELSE 0)
                  /\ r.received[s] = p.received[s] + (IF s <= k THEN Spent(s) ELSE 0)
           T == {k \in 0..N : \E r \in Ledger : After(k, r)}
<1>p. p.connection \in Int /\ left[0] \in Nat
      /\ \A s \in StreamIds : p.offset[s] \in Int /\ p.received[s] \in Nat
  <2>1. 0 \in 0..N
    BY <1>1
  <2>2. p.connection \in Int /\ \A s \in StreamIds : p.offset[s] \in Int /\ p.received[s] \in Nat
    BY LedgerFields
  <2> QED BY <2>1, <2>2
<1>4. 0 \in T
  <2>1. Reaches(p, upTo[0], b, p)
    BY <1>3, ReachesNothing
  <2>2. \A s \in StreamIds : ~(s <= 0)
    BY <1>1
  <2>3. After(0, p)
    BY <1>p, <2>1, <2>2
  <2>4. 0 \in 0..N
    BY <1>1
  <2> HIDE DEF After
  <2> QED BY <2>3, <2>4
<1>5. ASSUME NEW k \in 1..N, k - 1 \in T PROVE k \in T
  <2>1. PICK r \in Ledger : After(k - 1, r)
    BY <1>5
  <2>2. k \in StreamIds /\ ~(k <= k - 1)
    BY <1>1
  <2>3. PICK n \in Nat : n = Spent(k)
    BY <1>2, <2>2
  <2>4. PICK e \in BOOLEAN : e = Ends(k)
    BY EndsIsBoolean
  <2>5. r.offset[k] = p.offset[k] /\ r.received[k] = p.received[k] /\ b[k] \in Nat
    BY <1>p, <2>1, <2>2
  <2>6. n <= r.connection
    <3>1. r.connection = p.connection - (left[0] - left[k - 1])
      BY <2>1
    <3>2. n = left[k - 1] - left[k] /\ left[k] \in Nat /\ left[k - 1] \in Nat
      BY <1>2, <2>2, <2>3 DEF Leaves
    <3> QED BY <1>p, <3>1, <3>2
  <2>7. n > 0 => n <= w + r.offset[k] /\ r.received[k] + n <= b[k]
    BY <2>2, <2>3, <2>5 DEF Affordable
  <2>8. n > 0 => (e <=> r.received[k] + n = b[k])
    BY <2>2, <2>3, <2>4, <2>5 DEF Affordable
  <2>9. maxFrameSize <= r.frameSize /\ Usable(r, w)
    BY <2>1 DEF Usable
  <2> DEFINE x == Taken(r, k, n)
  <2>10. /\ Chunks(k, n, e) \in Seq(ClientFrames)
         /\ Reaches(r, Chunks(k, n, e), b, x)
    <3> HIDE DEF x, After
    <3> QED BY <2>2, <2>6, <2>7, <2>8, <2>9, ReachesChunks DEF x
  <2>0. x \in Ledger
    BY <2>2, TakenIsLedger
  <2>11. /\ x.initial = r.initial /\ x.frameSize = r.frameSize
         /\ x.unacknowledged = r.unacknowledged
         /\ x.connection = r.connection - n
         /\ \A t \in StreamIds :
              /\ x.offset[t] = r.offset[t] - (IF t = k THEN n ELSE 0)
              /\ x.received[t] = r.received[t] + (IF t = k THEN n ELSE 0)
    BY DEF Taken
  <2> HIDE DEF x
  <2>12. Reaches(p, upTo[k], b, x)
    <3>1. upTo[k] = upTo[k - 1] \o Chunks(k, n, e) /\ upTo[k - 1] \in Seq(ClientFrames)
      BY <1>2, <1>3, <2>2, <2>3, <2>4
    <3>2. Reaches(p, upTo[k - 1], b, r)
      BY <2>1
    <3> QED BY <2>0, <2>10, <3>1, <3>2, ReachesJoin
  <2>13. x.connection = p.connection - (left[0] - left[k])
    <3>1. r.connection = p.connection - (left[0] - left[k - 1])
      BY <2>1
    <3>2. n = left[k - 1] - left[k] /\ left[k] \in Nat /\ left[k - 1] \in Nat
      BY <1>2, <2>2, <2>3 DEF Leaves
    <3> QED BY <1>p, <2>11, <3>1, <3>2
  <2>14. ASSUME NEW t \in StreamIds
         PROVE  /\ x.offset[t] = p.offset[t] - (IF t <= k THEN Spent(t) ELSE 0)
                /\ x.received[t] = p.received[t] + (IF t <= k THEN Spent(t) ELSE 0)
    <3>1. /\ r.offset[t] = p.offset[t] - (IF t <= k - 1 THEN Spent(t) ELSE 0)
          /\ r.received[t] = p.received[t] + (IF t <= k - 1 THEN Spent(t) ELSE 0)
      BY <2>1
    <3>2. t \in Int /\ k \in Int /\ Spent(t) \in Nat
      BY <1>2
    <3>3. CASE t = k
      BY <1>p, <2>3, <2>5, <2>11, <3>2, <3>3
    <3>4. CASE t # k
      <4>1. t <= k <=> t <= k - 1
        BY <3>2, <3>4
      <4> QED BY <1>p, <2>11, <3>1, <3>2, <3>4, <4>1
    <3> QED BY <3>3, <3>4
  <2>15. After(k, x)
    BY <2>1, <2>11, <2>12, <2>13, <2>14
  <2>16. k \in 0..N
    BY <1>1
  <2> HIDE DEF After
  <2> QED BY <2>0, <2>15, <2>16
<1> HIDE DEF T
<1>6. \A k \in 0..N : k \in T
  BY <1>1, <1>4, <1>5, UpTo
<1>7. PICK r \in Ledger : After(N, r)
  <2>1. N \in T
    BY <1>1, <1>6
  <2> HIDE DEF After
  <2> QED BY <2>1 DEF T
<1>8. \A s \in StreamIds : s <= N
  BY <1>1
<1>9. Written = upTo[N] /\ Written \in Seq(ClientFrames)
  BY <1>1, <1>3
<1> QED BY <1>7, <1>8, <1>9 DEF AfterDrain

-----------------------------------------------------------------------------
\* What a drain spends on one stream.
LEMMA DrainSpends ==
  ASSUME NEW S, NEW tab, NEW conn \in Nat,
         S \subseteq DOMAIN tab, DOMAIN tab \subseteq StreamIds,
         tab \in [DOMAIN tab -> SendState],
         sent \in [StreamIds -> Nat],
         Drain(S, tab, conn)
  PROVE  /\ connectionSendWindow' \in Nat
         /\ streams' = [s \in DOMAIN tab |-> Drained(tab[s], Spent(s))]
         /\ sent' \in [StreamIds -> Nat]
         /\ \A s \in StreamIds : Spent(s) \in Nat /\ sent'[s] = sent[s] + Spent(s)
         /\ ended' = ended \cup {s \in S : CarriesEnd(tab[s], Spent(s))}
         /\ \A s \in StreamIds \ S : Spent(s) = 0
         /\ \A s \in S : Spent(s) <= tab[s].sendQueue
         /\ \E left \in [0..MaxStreams -> Nat] :
              /\ left[0] = conn /\ left[MaxStreams] = connectionSendWindow'
              /\ Leaves(left)
              /\ \A s \in S : Spent(s) > 0 => Spent(s) <= tab[s].localWindow
<1> DEFINE left == Left(S, tab, conn)
<1>1. MaxStreams \in Nat /\ StreamIds = 1..MaxStreams
  BY BoundAssumption DEF StreamIds
<1>2. S \in SUBSET StreamIds /\ \A s \in S : tab[s] \in SendState
  OBVIOUS
<1>3. left \in [0..MaxStreams -> Int]
  <2>1. conn \in Int
    OBVIOUS
  <2> QED BY <1>2, <2>1, LeftEquation
<1>4. \A k \in StreamIds :
        left[k] = left[k - 1] - (IF k \in S THEN Sendable(tab[k], left[k - 1]) ELSE 0)
  <2>1. conn \in Int
    OBVIOUS
  <2> QED BY <1>2, <2>1, LeftEquation
<1>5. PICK amount \in [StreamIds -> Nat] :
           /\ streams' = [s \in DOMAIN tab |-> Drained(tab[s], amount[s])]
           /\ sent' = [s \in StreamIds |-> sent[s] + amount[s]]
           /\ ended' = ended \cup {s \in S : CarriesEnd(tab[s], amount[s])}
           /\ connectionSendWindow' \in 0..conn
           /\ \A s \in StreamIds \ S : amount[s] = 0
           /\ \A s \in S : amount[s] <= tab[s].sendQueue
  <2>1. \E amount \in [StreamIds -> Nat] :
           /\ streams' = [s \in DOMAIN tab |-> Drained(tab[s], amount[s])]
           /\ sent' = [s \in StreamIds |-> sent[s] + amount[s]]
           /\ ended' = ended \cup {s \in S : CarriesEnd(tab[s], amount[s])}
           /\ connectionSendWindow' \in 0..conn
           /\ Total(sent') = Total(sent) + conn - connectionSendWindow'
           /\ \A s \in StreamIds \ S : amount[s] = 0
           /\ \A s \in S :
                /\ amount[s] <= tab[s].sendQueue
                /\ amount[s] < tab[s].sendQueue =>
                     connectionSendWindow' = 0 \/ tab[s].localWindow - amount[s] <= 0
    BY DrainEffect
  <2> QED BY <2>1
<1>6. ASSUME NEW s \in StreamIds PROVE Spent(s) = amount[s] /\ sent'[s] = sent[s] + Spent(s)
  BY <1>5 DEF Spent
<1>7. left[0] = conn /\ \A k \in 0..MaxStreams : left[k] \in Nat
  BY <1>2, LeftBounds
<1>8. /\ connectionSendWindow' = left[MaxStreams]
      /\ sent' = [s \in StreamIds |-> sent[s] + (left[s - 1] - left[s])]
  BY DEF Drain
<1> HIDE DEF left
<1>9. left \in [0..MaxStreams -> Nat]
  BY <1>3, <1>7
<1>10. ASSUME NEW s \in StreamIds
       PROVE  Spent(s) = left[s - 1] - left[s] /\ left[s] <= left[s - 1]
  <2>1. s - 1 \in 0..MaxStreams /\ s \in 0..MaxStreams
    BY <1>1
  <2>2. left[s - 1] \in Nat /\ left[s] \in Nat /\ sent[s] \in Nat /\ amount[s] \in Nat
    BY <1>7, <2>1
  <2>3. sent'[s] = sent[s] + (left[s - 1] - left[s])
    BY <1>8
  <2>4. Spent(s) = left[s - 1] - left[s]
    BY <2>2, <2>3 DEF Spent
  <2> QED BY <1>6, <2>2, <2>4
<1>11. ASSUME NEW s \in S, Spent(s) > 0 PROVE Spent(s) <= tab[s].localWindow
  <2>1. s \in StreamIds /\ tab[s] \in SendState
    BY <1>2
  <2>2. s - 1 \in 0..MaxStreams /\ s \in 0..MaxStreams
    BY <1>1, <2>1
  <2>3. left[s - 1] \in Nat /\ left[s] \in Nat
    BY <1>7, <2>2
  <2>4. left[s] = left[s - 1] - Sendable(tab[s], left[s - 1])
    BY <1>4, <2>1
  <2>5. Spent(s) = left[s - 1] - left[s]
    BY <1>10, <2>1
  <2>6. Sendable(tab[s], left[s - 1]) \in Int
    BY <2>1, <2>3, SendableBounds
  <2>7. Spent(s) = Sendable(tab[s], left[s - 1])
    BY <2>3, <2>4, <2>5, <2>6
  <2> QED BY <1>11, <2>1, <2>3, <2>7 DEF Sendable, SendState, Lesser
<1>12. /\ streams' = [s \in DOMAIN tab |-> Drained(tab[s], Spent(s))]
       /\ ended' = ended \cup {s \in S : CarriesEnd(tab[s], Spent(s))}
  BY <1>2, <1>5, <1>6
<1>13. /\ sent' \in [StreamIds -> Nat] /\ connectionSendWindow' \in Nat
       /\ \A s \in StreamIds : Spent(s) \in Nat /\ sent'[s] = sent[s] + Spent(s)
       /\ \A s \in StreamIds \ S : Spent(s) = 0
       /\ \A s \in S : Spent(s) <= tab[s].sendQueue
  BY <1>2, <1>5, <1>6
<1>14. \E l \in [0..MaxStreams -> Nat] :
              /\ l[0] = conn /\ l[MaxStreams] = connectionSendWindow'
              /\ Leaves(l)
              /\ \A s \in S : Spent(s) > 0 => Spent(s) <= tab[s].localWindow
  BY <1>7, <1>8, <1>9, <1>10, <1>11 DEF Leaves
<1> QED BY <1>12, <1>13, <1>14

\* The bodies b, as far as they have been written: live streams have the rest queued.
Writing(b, tab, s, n, done) ==
  /\ n <= b[s]
  /\ done <=> b[s] > 0 /\ n = b[s]
  /\ s \in DOMAIN tab => tab[s].sendQueueEndStream /\ n + tab[s].sendQueue = b[s]

\* A drain writes what the peer has the credit, the frame size and the body for.
LEMMA DrainWrites ==
  ASSUME NEW S, NEW tab, NEW conn \in Nat,
         S \subseteq DOMAIN tab, DOMAIN tab \subseteq StreamIds,
         tab \in [DOMAIN tab -> SendState],
         sent \in [StreamIds -> Nat],
         Drain(S, tab, conn),
         maxFrameSize \in Nat \ {0}, NEW p \in Ledger, maxFrameSize <= p.frameSize,
         NEW b \in [StreamIds -> Nat], NEW w \in Nat, Usable(p, w),
         conn <= p.connection,
         \A s \in StreamIds : p.received[s] = sent[s],
         \A s \in StreamIds : Writing(b, tab, s, sent[s], s \in ended),
         \A s \in DOMAIN tab : tab[s].localWindow <= w + p.offset[s]
  PROVE  /\ Written \in Seq(ClientFrames)
         /\ \E r \in Ledger : AfterDrain(p, b, conn - connectionSendWindow', r)
         /\ DOMAIN streams' = DOMAIN tab
         /\ \A s \in DOMAIN tab : streams'[s].localWindow = tab[s].localWindow - Spent(s)
         /\ \A s \in StreamIds \ DOMAIN tab : Spent(s) = 0
         /\ \A s \in StreamIds : Spent(s) \in Nat /\ sent'[s] = sent[s] + Spent(s)
         /\ \A s \in StreamIds : Writing(b, streams', s, sent'[s], s \in ended')
<1>1. MaxStreams \in Nat /\ StreamIds = 1..MaxStreams
  BY BoundAssumption DEF StreamIds
<1>2. /\ connectionSendWindow' \in Nat
      /\ streams' = [s \in DOMAIN tab |-> Drained(tab[s], Spent(s))]
      /\ \A s \in StreamIds : Spent(s) \in Nat /\ sent'[s] = sent[s] + Spent(s)
      /\ ended' = ended \cup {s \in S : CarriesEnd(tab[s], Spent(s))}
      /\ \A s \in StreamIds \ S : Spent(s) = 0
      /\ \A s \in S : Spent(s) <= tab[s].sendQueue
  BY DrainSpends
<1>3. PICK left \in [0..MaxStreams -> Nat] :
        /\ left[0] = conn /\ left[MaxStreams] = connectionSendWindow'
        /\ Leaves(left)
        /\ \A s \in S : Spent(s) > 0 => Spent(s) <= tab[s].localWindow
  BY DrainSpends
<1>4. /\ p.connection \in Int
      /\ \A s \in StreamIds :
           p.offset[s] \in Int /\ p.received[s] \in Nat /\ sent[s] \in Nat /\ b[s] \in Nat
      /\ \A s \in DOMAIN tab :
           /\ tab[s] \in SendState
           /\ tab[s].localWindow \in Int /\ tab[s].sendQueue \in Nat
  BY LedgerFields DEF SendState
<1>5. ASSUME NEW s \in S, Spent(s) > 0
      PROVE  /\ sent[s] + tab[s].sendQueue = b[s] /\ tab[s].sendQueueEndStream
             /\ s \notin ended
             /\ s \in ended' <=> sent[s] + Spent(s) = b[s]
  <2>1. s \in StreamIds /\ s \in DOMAIN tab /\ Spent(s) \in Nat /\ Spent(s) <= tab[s].sendQueue
    BY <1>2
  <2>2. sent[s] + tab[s].sendQueue = b[s] /\ tab[s].sendQueueEndStream
        /\ (s \in ended => sent[s] = b[s])
    BY <2>1 DEF Writing
  <2>3. s \notin ended
    BY <1>4, <1>5, <2>1, <2>2
  <2>4. s \in ended' <=> CarriesEnd(tab[s], Spent(s))
    BY <1>2, <2>3
  <2>5. CarriesEnd(tab[s], Spent(s)) <=> Spent(s) = tab[s].sendQueue
    BY <1>5, <2>2 DEF CarriesEnd
  <2>6. Spent(s) = tab[s].sendQueue <=> sent[s] + Spent(s) = b[s]
    BY <1>4, <2>1, <2>2
  <2> QED BY <2>2, <2>3, <2>4, <2>5, <2>6
<1>6. Affordable(p, b, w)
  <2> SUFFICES ASSUME NEW s \in StreamIds, Spent(s) > 0
               PROVE  /\ Spent(s) <= w + p.offset[s]
                      /\ p.received[s] + Spent(s) <= b[s]
                      /\ Ends(s) <=> p.received[s] + Spent(s) = b[s]
    BY DEF Affordable
  <2>1. s \in S /\ s \in DOMAIN tab
    BY <1>2
  <2>2. Spent(s) <= tab[s].localWindow /\ tab[s].localWindow <= w + p.offset[s]
        /\ Spent(s) <= tab[s].sendQueue /\ Spent(s) \in Nat
    BY <1>2, <1>3, <2>1
  <2>3. p.received[s] = sent[s]
    OBVIOUS
  <2>4. Spent(s) <= w + p.offset[s]
    BY <1>4, <2>1, <2>2
  <2>5. p.received[s] + Spent(s) <= b[s]
    BY <1>4, <1>5, <2>1, <2>2, <2>3
  <2>6. Ends(s) <=> p.received[s] + Spent(s) = b[s]
    BY <1>5, <2>1, <2>3 DEF Ends
  <2> QED BY <2>4, <2>5, <2>6
<1>7. /\ Written \in Seq(ClientFrames)
      /\ \E r \in Ledger : AfterDrain(p, b, left[0] - left[MaxStreams], r)
  <2>1. left[0] <= p.connection /\ Leaves(left)
    BY <1>3
  <2> QED BY <1>6, <2>1, WrittenReaches
<1>8. \E r \in Ledger : AfterDrain(p, b, conn - connectionSendWindow', r)
  BY <1>3, <1>7
<1>9. ASSUME NEW s \in DOMAIN tab
      PROVE  /\ streams'[s].localWindow = tab[s].localWindow - Spent(s)
             /\ streams'[s].sendQueue = tab[s].sendQueue - Spent(s)
             /\ streams'[s].sendQueueEndStream = tab[s].sendQueueEndStream
  <2>1. Spent(s) \in Nat /\ s \in StreamIds
    BY <1>2
  <2>2. Spent(s) <= tab[s].sendQueue
    BY <1>2, <1>4, <2>1
  <2>3. LET d == Drained(tab[s], Spent(s)) IN
         /\ d \in SendState
         /\ d.localWindow = tab[s].localWindow - Spent(s)
         /\ d.sendQueue = tab[s].sendQueue - Spent(s)
         /\ d.sendQueueEndStream = tab[s].sendQueueEndStream
    BY <1>4, <2>1, <2>2, DrainedFields
  <2>4. streams'[s] = Drained(tab[s], Spent(s))
    BY <1>2
  <2> QED BY <2>3, <2>4, Zenon
<1>10. ASSUME NEW s \in StreamIds PROVE Writing(b, streams', s, sent'[s], s \in ended')
  <2>1. sent'[s] = sent[s] + Spent(s) /\ Spent(s) \in Nat
    BY <1>2
  <2>2. Writing(b, tab, s, sent[s], s \in ended)
    OBVIOUS
  <2>3. CASE Spent(s) = 0
    <3>1. sent'[s] = sent[s]
      BY <1>4, <2>1, <2>3
    <3>2. s \in ended' <=> s \in ended
      BY <1>2, <2>3 DEF CarriesEnd
    <3>3. s \in DOMAIN tab => streams'[s].sendQueue = tab[s].sendQueue
                              /\ streams'[s].sendQueueEndStream = tab[s].sendQueueEndStream
      BY <1>4, <1>9, <2>3
    <3>4. DOMAIN streams' = DOMAIN tab
      BY <1>2
    <3> QED BY <2>2, <3>1, <3>2, <3>3, <3>4 DEF Writing
  <2>4. CASE Spent(s) # 0
    <3>1. s \in S /\ s \in DOMAIN tab /\ Spent(s) > 0
      BY <1>2, <2>1, <2>4
    <3>2. /\ sent[s] + tab[s].sendQueue = b[s] /\ tab[s].sendQueueEndStream
          /\ s \in ended' <=> sent[s] + Spent(s) = b[s]
      BY <1>5, <3>1
    <3>3. streams'[s].sendQueue = tab[s].sendQueue - Spent(s) /\ Spent(s) <= tab[s].sendQueue
          /\ streams'[s].sendQueueEndStream = tab[s].sendQueueEndStream
      BY <1>2, <1>9, <3>1
    <3>4. sent'[s] <= b[s] /\ b[s] > 0 /\ sent'[s] + streams'[s].sendQueue = b[s]
      BY <1>4, <2>1, <3>1, <3>2, <3>3
    <3> QED BY <2>1, <3>2, <3>3, <3>4 DEF Writing
  <2> QED BY <2>3, <2>4
<1>11. DOMAIN streams' = DOMAIN tab /\ \A s \in StreamIds \ DOMAIN tab : Spent(s) = 0
  BY <1>2
<1>12. /\ \A s \in DOMAIN tab : streams'[s].localWindow = tab[s].localWindow - Spent(s)
       /\ \A s \in StreamIds : Spent(s) \in Nat /\ sent'[s] = sent[s] + Spent(s)
  BY <1>2, <1>9
<1> QED BY <1>7, <1>8, <1>10, <1>11, <1>12

-----------------------------------------------------------------------------
LEMMA BooksFields ==
  ASSUME NEW a \in PeerState
  PROVE  /\ Books(a) \in Ledger
         /\ Books(a).initial = a.initial /\ Books(a).frameSize = a.frameSize
         /\ Books(a).unacknowledged = a.unacknowledged
         /\ Books(a).connection = a.connection
         /\ Books(a).offset = a.offset /\ Books(a).received = a.received
BY DEF Books, Ledger, PeerState

LEMMA PeerFields ==
  ASSUME NEW a \in PeerState
  PROVE  /\ a.initial \in Nat /\ a.frameSize \in Nat
         /\ a.unacknowledged \in Seq(SettingsFrames)
         /\ a.connection \in Int
         /\ a.offset \in [StreamIds -> Int] /\ a.received \in [StreamIds -> Nat]
         /\ a.open \in SUBSET StreamIds /\ a.finished \in SUBSET StreamIds
         /\ a.settingsSent \in Nat
BY DEF PeerState

LEMMA LedgerEquality ==
  ASSUME NEW p \in Ledger, NEW q \in Ledger,
         p.initial = q.initial, p.frameSize = q.frameSize,
         p.unacknowledged = q.unacknowledged, p.connection = q.connection,
         \A s \in StreamIds : p.offset[s] = q.offset[s] /\ p.received[s] = q.received[s]
  PROVE  p = q
<1>1. p.offset = q.offset
  BY LedgerFields
<1>2. p.received = q.received
  BY LedgerFields
<1>3. \A x \in Ledger :
        x = [initial |-> x.initial, frameSize |-> x.frameSize,
             unacknowledged |-> x.unacknowledged, connection |-> x.connection,
             offset |-> x.offset, received |-> x.received]
  BY DEF Ledger
<1>4. /\ p = [initial |-> p.initial, frameSize |-> p.frameSize,
              unacknowledged |-> p.unacknowledged, connection |-> p.connection,
              offset |-> p.offset, received |-> p.received]
      /\ q = [initial |-> q.initial, frameSize |-> q.frameSize,
              unacknowledged |-> q.unacknowledged, connection |-> q.connection,
              offset |-> q.offset, received |-> q.received]
  BY <1>3
<1> QED BY <1>1, <1>2, <1>4

\* A frame turns a ledger into one other.
LEMMA ArrivesOnce ==
  ASSUME NEW p \in Ledger, NEW q \in Ledger, NEW r \in Ledger, NEW m,
         Arrives(p, m, q), Arrives(p, m, r)
  PROVE  q = r
<1>1. /\ q.connection = r.connection
      /\ \A s \in StreamIds : q.offset[s] = r.offset[s] /\ q.received[s] = r.received[s]
  BY DEF Arrives
<1>2. q.initial = r.initial /\ q.frameSize = r.frameSize /\ q.unacknowledged = r.unacknowledged
  BY DEF Arrives
<1> QED BY <1>1, <1>2, LedgerEquality

\* The values of a SETTINGS payload.
LEMMA SettingIsNat ==
  ASSUME NEW f \in SettingsFrames, NEW key, NEW n \in Nat
  PROVE  Setting(f, key, n) \in Nat
<1>1. \A k \in DOMAIN f : f[k] \in Nat
  BY PeerAssumption DEF SettingsPayload
<1> QED BY <1>1 DEF Setting

\* What arrives changes the peer's account as it changes its ledger.
LEMMA AccountFields ==
  ASSUME peer \in PeerState, NEW m \in ClientFrames,
         m.type = "SETTINGS_ACK" => peer.unacknowledged # <<>>
  PROVE  /\ Account(m) \in PeerState
         /\ Arrives(Books(peer), m, Books(Account(m)))
         /\ Account(m).open = peer.open \cup (IF m.type = "HEADERS" THEN {m.stream} ELSE {})
         /\ Account(m).finished =
              peer.finished \cup (IF m.type = "DATA" /\ m.endStream THEN {m.stream} ELSE {})
<1> DEFINE a == Account(m)
<1>1. CASE m.type = "HEADERS"
  <2>1. a = [peer EXCEPT !.open = @ \cup {m.stream}] /\ m.stream \in StreamIds
    BY <1>1, FrameKinds DEF Account
  <2> DEFINE open == peer.open \cup {m.stream}
  <2>0. open \in SUBSET StreamIds /\ a = [peer EXCEPT !.open = open]
    BY <2>1, PeerFields
  <2>2. a \in PeerState /\ a.open = peer.open \cup {m.stream} /\ a.finished = peer.finished
        /\ Books(a) = Books(peer)
    <3> HIDE DEF open, a
    <3>1. /\ a \in PeerState /\ a.open = open /\ a.finished = peer.finished
          /\ a.initial = peer.initial /\ a.frameSize = peer.frameSize
          /\ a.unacknowledged = peer.unacknowledged /\ a.connection = peer.connection
          /\ a.offset = peer.offset /\ a.received = peer.received
      BY <2>0 DEF PeerState
    <3>2. Books(a) = Books(peer)
      BY <3>1 DEF Books
    <3> QED BY <3>1, <3>2 DEF open
  <2>3. Arrives(Books(peer), m, Books(peer))
    <3>1. Weight(m) = 0 /\ \A s \in StreamIds : Octets(m, s) = 0
      BY <1>1 DEF Weight, Octets
    <3>2. Books(peer) \in Ledger
      BY BooksFields
    <3> QED BY <1>1, <3>1, <3>2, LedgerFields DEF Arrives
  <2> HIDE DEF a
  <2> QED BY <1>1, <2>2, <2>3 DEF a
<1>2. CASE m.type = "DATA"
  <2> DEFINE s == m.stream
             n == m.length
             offset == [peer.offset EXCEPT ![s] = @ - n]
             received == [peer.received EXCEPT ![s] = @ + n]
             x == [peer EXCEPT !.connection = @ - n]
             y == [x EXCEPT !.offset = offset]
             z == [y EXCEPT !.received = received]
             end == IF m.endStream THEN peer.finished \cup {s} ELSE peer.finished
  <2>1. s \in StreamIds /\ n \in Nat
    BY <1>2, FrameKinds
  <2>0. /\ end \in SUBSET StreamIds /\ peer.connection - n \in Int
        /\ offset \in [StreamIds -> Int] /\ received \in [StreamIds -> Nat]
    BY <2>1, PeerFields
  <2> HIDE DEF offset, received, end, a, n, s
  <2>2. /\ x \in PeerState
        /\ x.initial = peer.initial /\ x.frameSize = peer.frameSize
        /\ x.unacknowledged = peer.unacknowledged
        /\ x.connection = peer.connection - n
        /\ x.offset = peer.offset /\ x.received = peer.received
        /\ x.open = peer.open /\ x.finished = peer.finished
    BY <2>0 DEF PeerState
  <2> HIDE DEF x
  <2>3. /\ y \in PeerState
        /\ y.initial = x.initial /\ y.frameSize = x.frameSize
        /\ y.unacknowledged = x.unacknowledged
        /\ y.connection = x.connection
        /\ y.offset = offset /\ y.received = x.received
        /\ y.open = x.open /\ y.finished = x.finished
    BY <2>0, <2>2 DEF PeerState
  <2> HIDE DEF y
  <2>4. /\ z \in PeerState
        /\ z.initial = y.initial /\ z.frameSize = y.frameSize
        /\ z.unacknowledged = y.unacknowledged
        /\ z.connection = y.connection
        /\ z.offset = y.offset /\ z.received = received
        /\ z.open = y.open /\ z.finished = y.finished
    BY <2>0, <2>3 DEF PeerState
  <2>5. a = [z EXCEPT !.finished = end]
    BY <1>2, <2>2, <2>3, <2>4 DEF Account, x, y, offset, received, n, s, end, a
  <2> HIDE DEF z
  <2>6. /\ a \in PeerState
        /\ a.initial = z.initial /\ a.frameSize = z.frameSize
        /\ a.unacknowledged = z.unacknowledged
        /\ a.connection = z.connection
        /\ a.offset = z.offset /\ a.received = z.received
        /\ a.open = z.open /\ a.finished = end
    <3> HIDE DEF end, a
    <3> QED BY <2>0, <2>4, <2>5 DEF PeerState
  <2> HIDE DEF a
  <2>7. /\ Books(a) \in Ledger /\ Books(peer) \in Ledger
        /\ Books(a).initial = peer.initial /\ Books(a).frameSize = peer.frameSize
        /\ Books(a).unacknowledged = peer.unacknowledged
        /\ Books(a).connection = peer.connection - n
        /\ Books(a).offset = [peer.offset EXCEPT ![s] = @ - n]
        /\ Books(a).received = [peer.received EXCEPT ![s] = @ + n]
    BY <2>2, <2>3, <2>4, <2>6, BooksFields DEF offset, received
  <2>8. Weight(m) = n /\ \A t \in StreamIds : Octets(m, t) = IF t = s THEN n ELSE 0
    BY <1>2 DEF Weight, Octets, n, s
  <2>9. Arrives(Books(peer), m, Books(a))
    <3>1. /\ peer.offset \in [StreamIds -> Int] /\ peer.received \in [StreamIds -> Nat]
      BY PeerFields
    <3>2. ASSUME NEW t \in StreamIds
          PROVE  /\ Books(a).offset[t] = peer.offset[t] - Octets(m, t)
                 /\ Books(a).received[t] = peer.received[t] + Octets(m, t)
      BY <2>1, <2>7, <2>8, <3>1
    <3>3. Books(a).connection = peer.connection - Weight(m)
      BY <2>7, <2>8
    <3> QED BY <1>2, <2>7, <3>2, <3>3, BooksFields DEF Arrives
  <2>10. a.finished = peer.finished \cup (IF m.endStream THEN {s} ELSE {})
    BY <2>6 DEF end
  <2> QED BY <1>2, <2>2, <2>3, <2>4, <2>6, <2>9, <2>10 DEF a, s
<1>3. CASE m.type = "SETTINGS_ACK"
  <2> DEFINE f == Head(peer.unacknowledged)
             x == [peer EXCEPT !.initial = Setting(f, "initialWindowSize", @)]
             y == [x EXCEPT !.frameSize = Setting(f, "maxFrameSize", @)]
  <2>1. /\ f \in SettingsFrames /\ Tail(peer.unacknowledged) \in Seq(SettingsFrames)
        /\ peer.unacknowledged # <<>>
        /\ peer.initial \in Nat /\ peer.frameSize \in Nat
    BY <1>3, PeerFields
  <2> HIDE DEF f
  <2>2. /\ x \in PeerState
        /\ x.initial = Setting(f, "initialWindowSize", peer.initial)
        /\ x.frameSize = peer.frameSize
        /\ x.unacknowledged = peer.unacknowledged
        /\ x.connection = peer.connection
        /\ x.offset = peer.offset /\ x.received = peer.received
        /\ x.open = peer.open /\ x.finished = peer.finished
    <3>1. Setting(f, "initialWindowSize", peer.initial) \in Nat
      BY <2>1, SettingIsNat
    <3> QED BY <3>1 DEF PeerState
  <2> HIDE DEF x
  <2>3. /\ y \in PeerState
        /\ y.initial = x.initial
        /\ y.frameSize = Setting(f, "maxFrameSize", x.frameSize)
        /\ y.unacknowledged = x.unacknowledged
        /\ y.connection = x.connection
        /\ y.offset = x.offset /\ y.received = x.received
        /\ y.open = x.open /\ y.finished = x.finished
    <3>1. Setting(f, "maxFrameSize", x.frameSize) \in Nat
      BY <2>1, <2>2, SettingIsNat
    <3> QED BY <2>2, <3>1 DEF PeerState
  <2>4. a = [y EXCEPT !.unacknowledged = Tail(peer.unacknowledged)]
    BY <1>3, <2>2, <2>3 DEF Account, x, f
  <2> HIDE DEF y
  <2>5. /\ a \in PeerState
        /\ a.initial = y.initial /\ a.frameSize = y.frameSize
        /\ a.unacknowledged = Tail(peer.unacknowledged)
        /\ a.connection = y.connection
        /\ a.offset = y.offset /\ a.received = y.received
        /\ a.open = y.open /\ a.finished = y.finished
    <3> HIDE DEF a
    <3> QED BY <2>1, <2>3, <2>4 DEF PeerState
  <2> HIDE DEF a
  <2>6. /\ Books(a).initial = Setting(f, "initialWindowSize", peer.initial)
        /\ Books(a).frameSize = Setting(f, "maxFrameSize", peer.frameSize)
        /\ Books(a).unacknowledged = Tail(peer.unacknowledged)
        /\ Books(a).connection = peer.connection
        /\ Books(a).offset = peer.offset /\ Books(a).received = peer.received
    BY <2>2, <2>3, <2>5, BooksFields
  <2>7. Arrives(Books(peer), m, Books(a))
    <3>1. Weight(m) = 0 /\ \A s \in StreamIds : Octets(m, s) = 0
      BY <1>3 DEF Weight, Octets
    <3>2. /\ peer.offset \in [StreamIds -> Int] /\ peer.received \in [StreamIds -> Nat]
          /\ peer.connection \in Int
      BY PeerFields
    <3> QED BY <1>3, <2>1, <2>6, <3>1, <3>2, BooksFields DEF Arrives, f
  <2> QED BY <1>3, <2>2, <2>3, <2>5, <2>7 DEF a
<1> HIDE DEF a
<1> QED BY <1>1, <1>2, <1>3, FrameKinds

-----------------------------------------------------------------------------
\* Ledger x once the peer has written frame m.
Offered(x, m) ==
  [initial |-> x.initial, frameSize |-> x.frameSize,
   unacknowledged |-> IF m.type = "SETTINGS" THEN Append(x.unacknowledged, m.settings)
                      ELSE x.unacknowledged,
   connection |-> x.connection + IncrementOn(0)[m],
   offset |-> [s \in StreamIds |-> x.offset[s] + IncrementOn(s)[m]],
   received |-> x.received]

LEMMA OfferedFields ==
  ASSUME NEW x \in Ledger, NEW m \in PeerFrames
  PROVE  /\ Offered(x, m) \in Ledger
         /\ Offered(x, m).initial = x.initial /\ Offered(x, m).frameSize = x.frameSize
         /\ Offered(x, m).unacknowledged =
              IF m.type = "SETTINGS" THEN Append(x.unacknowledged, m.settings)
              ELSE x.unacknowledged
         /\ Offered(x, m).connection = x.connection + IncrementOn(0)[m]
         /\ \A s \in StreamIds : Offered(x, m).offset[s] = x.offset[s] + IncrementOn(s)[m]
         /\ Offered(x, m).received = x.received
<1> DEFINE u == IF m.type = "SETTINGS" THEN Append(x.unacknowledged, m.settings)
                ELSE x.unacknowledged
           o == [s \in StreamIds |-> x.offset[s] + IncrementOn(s)[m]]
           c == x.connection + IncrementOn(0)[m]
<1>1. u \in Seq(SettingsFrames)
  BY LedgerFields, PeerFrameKinds
<1>2. c \in Int
  <2>1. IncrementOn(0)[m] \in Nat
    BY PeerFrameKinds
  <2> QED BY <2>1, LedgerFields
<1>3. o \in [StreamIds -> Int]
  <2>1. \A s \in StreamIds : IncrementOn(s)[m] \in Nat
    BY PeerFrameKinds
  <2> QED BY <2>1, LedgerFields
<1>4. \A s \in StreamIds : o[s] = x.offset[s] + IncrementOn(s)[m]
  OBVIOUS
<1>5. Offered(x, m) = [initial |-> x.initial, frameSize |-> x.frameSize, unacknowledged |-> u,
                       connection |-> c, offset |-> o, received |-> x.received]
  BY DEF Offered
<1> HIDE DEF u, o, c
<1>6. /\ Offered(x, m) \in Ledger
      /\ Offered(x, m).initial = x.initial /\ Offered(x, m).frameSize = x.frameSize
      /\ Offered(x, m).unacknowledged = u
      /\ Offered(x, m).connection = c /\ Offered(x, m).offset = o
      /\ Offered(x, m).received = x.received
  BY <1>1, <1>2, <1>3, <1>5, LedgerFields DEF Ledger
<1> QED BY <1>4, <1>6 DEF u, c

\* Credit and SETTINGS that the peer adds leave room for whatever was in flight.
LEMMA OfferedFits ==
  ASSUME NEW x \in Ledger, NEW f \in PeerFrames, NEW m \in ClientFrames, NEW b, Fits(x, m, b)
  PROVE  Fits(Offered(x, f), m, b)
<1> DEFINE y == Offered(x, f)
<1>1. /\ y.initial = x.initial /\ y.frameSize = x.frameSize /\ y.received = x.received
      /\ y.unacknowledged =
              IF f.type = "SETTINGS" THEN Append(x.unacknowledged, f.settings)
              ELSE x.unacknowledged
      /\ y.connection = x.connection + IncrementOn(0)[f]
      /\ \A s \in StreamIds : y.offset[s] = x.offset[s] + IncrementOn(s)[f]
  BY OfferedFields
<1> HIDE DEF y
<1>2. CASE m.type = "DATA"
  <2>1. m.stream \in StreamIds /\ m.length \in Nat
    BY <1>2, FrameKinds
  <2>2. PICK w \in Nat : Usable(x, w) /\ m.length <= w + x.offset[m.stream]
    BY <1>2 DEF Fits
  <2>3. Usable(y, w)
    <3>1. x.unacknowledged \in Seq(SettingsFrames) /\ (f.type = "SETTINGS" => f.settings \in SettingsFrames)
      BY LedgerFields, PeerFrameKinds
    <3>2. x.unacknowledged # <<>> =>
            y.unacknowledged # <<>> /\ Head(y.unacknowledged) = Head(x.unacknowledged)
      BY <1>1, <3>1
    <3> QED BY <1>1, <2>2, <3>2 DEF Usable
  <2>4. x.offset[m.stream] \in Int /\ x.connection \in Int
        /\ IncrementOn(m.stream)[f] \in Nat /\ IncrementOn(0)[f] \in Nat
    BY <2>1, LedgerFields, PeerFrameKinds
  <2>5. m.length <= w + y.offset[m.stream] /\ m.length <= y.connection
    <3>1. m.length <= x.connection
      BY <1>2 DEF Fits
    <3>2. y.offset[m.stream] = x.offset[m.stream] + IncrementOn(m.stream)[f]
      BY <1>1, <2>1
    <3> QED BY <1>1, <2>1, <2>2, <2>4, <3>1, <3>2
  <2>6. /\ m.length \in 1..y.frameSize
        /\ y.received[m.stream] + m.length <= b[m.stream]
        /\ m.endStream <=> y.received[m.stream] + m.length = b[m.stream]
    BY <1>1, <1>2 DEF Fits
  <2> QED BY <1>2, <2>3, <2>5, <2>6 DEF Fits, y
<1>3. CASE m.type # "DATA"
  BY <1>3 DEF Fits
<1> QED BY <1>2, <1>3

LEMMA OfferedArrives ==
  ASSUME NEW x \in Ledger, NEW y \in Ledger, NEW f \in PeerFrames, NEW m \in ClientFrames,
         Arrives(x, m, y)
  PROVE  Arrives(Offered(x, f), m, Offered(y, f))
<1> DEFINE v == Offered(x, f)
           z == Offered(y, f)
<1>1. /\ v.initial = x.initial /\ v.frameSize = x.frameSize /\ v.received = x.received
      /\ v.unacknowledged =
              IF f.type = "SETTINGS" THEN Append(x.unacknowledged, f.settings)
              ELSE x.unacknowledged
      /\ v.connection = x.connection + IncrementOn(0)[f]
      /\ \A s \in StreamIds : v.offset[s] = x.offset[s] + IncrementOn(s)[f]
  BY OfferedFields
<1>2. /\ z.initial = y.initial /\ z.frameSize = y.frameSize /\ z.received = y.received
      /\ z.unacknowledged =
              IF f.type = "SETTINGS" THEN Append(y.unacknowledged, f.settings)
              ELSE y.unacknowledged
      /\ z.connection = y.connection + IncrementOn(0)[f]
      /\ \A s \in StreamIds : z.offset[s] = y.offset[s] + IncrementOn(s)[f]
  BY OfferedFields
<1> HIDE DEF v, z
<1>3. z.connection = v.connection - Weight(m)
  <2>1. y.connection = x.connection - Weight(m)
    BY DEF Arrives
  <2>2. x.connection \in Int /\ Weight(m) \in Nat /\ IncrementOn(0)[f] \in Nat
    BY LedgerFields, FrameWeights, PeerFrameKinds
  <2> QED BY <1>1, <1>2, <2>1, <2>2
<1>4. ASSUME NEW s \in StreamIds
      PROVE  /\ z.offset[s] = v.offset[s] - Octets(m, s)
             /\ z.received[s] = v.received[s] + Octets(m, s)
  <2>1. y.offset[s] = x.offset[s] - Octets(m, s) /\ y.received[s] = x.received[s] + Octets(m, s)
    BY DEF Arrives
  <2>2. x.offset[s] \in Int /\ Octets(m, s) \in Nat /\ IncrementOn(s)[f] \in Nat
    BY LedgerFields, FrameWeights, PeerFrameKinds
  <2> QED BY <1>1, <1>2, <2>1, <2>2
<1>5. CASE m.type = "SETTINGS_ACK"
  <2>1. /\ x.unacknowledged # <<>>
        /\ y.unacknowledged = Tail(x.unacknowledged)
        /\ y.initial = Setting(Head(x.unacknowledged), "initialWindowSize", x.initial)
        /\ y.frameSize = Setting(Head(x.unacknowledged), "maxFrameSize", x.frameSize)
    BY <1>5 DEF Arrives
  <2>2. x.unacknowledged \in Seq(SettingsFrames) /\ (f.type = "SETTINGS" => f.settings \in SettingsFrames)
    BY LedgerFields, PeerFrameKinds
  <2>3. /\ v.unacknowledged # <<>> /\ Head(v.unacknowledged) = Head(x.unacknowledged)
        /\ Tail(v.unacknowledged) = z.unacknowledged
    <3>1. CASE f.type = "SETTINGS"
      <4>1. f.settings \in SettingsFrames
        BY <2>2, <3>1
      <4>2. /\ Append(x.unacknowledged, f.settings) # <<>>
            /\ Head(Append(x.unacknowledged, f.settings)) = Head(x.unacknowledged)
            /\ Tail(Append(x.unacknowledged, f.settings)) =
                 Append(Tail(x.unacknowledged), f.settings)
        BY <2>1, <2>2, <4>1
      <4> QED BY <1>1, <1>2, <2>1, <3>1, <4>2
    <3>2. CASE f.type # "SETTINGS"
      BY <1>1, <1>2, <2>1, <3>2
    <3> QED BY <3>1, <3>2
  <2> QED BY <1>1, <1>2, <1>3, <1>4, <1>5, <2>1, <2>3 DEF Arrives, v, z
<1>6. CASE m.type # "SETTINGS_ACK"
  <2>1. y.unacknowledged = x.unacknowledged /\ y.initial = x.initial /\ y.frameSize = x.frameSize
    BY <1>6 DEF Arrives
  <2>2. z.unacknowledged = v.unacknowledged
    BY <1>1, <1>2, <2>1
  <2> QED BY <1>1, <1>2, <1>3, <1>4, <1>6, <2>1, <2>2 DEF Arrives, v, z
<1> QED BY <1>5, <1>6

LEMMA ReachesOffered ==
  ASSUME NEW o \in Ledger, NEW p \in Ledger, NEW b, NEW q \in Seq(ClientFrames),
         Reaches(o, q, b, p), NEW f \in PeerFrames
  PROVE  Reaches(Offered(o, f), q, b, Offered(p, f))
<1> DEFINE g == [x \in Ledger |-> Offered(x, f)]
<1>1. g \in [Ledger -> Ledger]
  BY OfferedFields
<1>2. \A x \in Ledger : g[x] = Offered(x, f)
  OBVIOUS
<1> HIDE DEF g
<1>3. \A x \in Ledger, m \in ClientFrames : Fits(x, m, b) => Fits(g[x], m, b)
  BY <1>2, OfferedFits
<1>4. \A x \in Ledger, y \in Ledger, m \in ClientFrames :
        Arrives(x, m, y) => Arrives(g[x], m, g[y])
  BY <1>2, OfferedArrives
<1>5. Reaches(g[o], q, b, g[p])
  BY <1>1, <1>3, <1>4, ReachesChanged
<1> QED BY <1>2, <1>5

-----------------------------------------------------------------------------
(***************************************************************************)
(* The inductive invariant.  p is the peer's account after everything in   *)
(* flight to it has arrived, and d what is in flight to the client.  Once  *)
(* both have arrived the two ends agree.                                   *)
(***************************************************************************)
Credit(p, d, tab, conn, initial) ==
  /\ p.connection = conn + d.credit[0]
  /\ \A s \in DOMAIN tab : p.offset[s] = tab[s].localWindow - initial + d.credit[s]

Agree(p, d) ==
  /\ \A s \in StreamIds : p.received[s] = sent[s]
  /\ p.initial = remoteInitialWindowSize
  /\ maxFrameSize <= p.frameSize
  /\ p.unacknowledged = d.settings
  /\ Credit(p, d, streams, connectionSendWindow, remoteInitialWindowSize)
  /\ \A s \in StreamIds : s >= nextStreamId => p.offset[s] = 0 /\ d.credit[s] = 0

InStep(p, d) ==
  Reaches(Books(peer), toPeer, body, p) /\ Brings(toClient, d) /\ Agree(p, d)

\* The bodies requested, as far as the peer has them.
Arriving(s) ==
  /\ body[s] > 0 <=> s < nextStreamId
  /\ peer.received[s] <= body[s]
  /\ s \in peer.finished <=> body[s] > 0 /\ peer.received[s] = body[s]
  /\ s \in peer.open => body[s] > 0

Bodies ==
  \A s \in StreamIds : Writing(body, streams, s, sent[s], s \in ended) /\ Arriving(s)

FlowInv ==
  /\ FlowTypeOK /\ IInv
  /\ Bodies
  /\ \E p \in Ledger, d \in Dues : InStep(p, d)

\* Nothing has been requested when the connection opens, and the two ends agree.
LEMMA FlowInitInv == FlowInit => FlowInv
<1> SUFFICES ASSUME FlowInit PROVE FlowInv
  OBVIOUS
<1>1. /\ Init /\ toPeer = <<>> /\ toClient = <<>>
      /\ peer = [initial |-> DefaultInitialWindowSize, frameSize |-> DefaultMaxFrameSize,
             unacknowledged |-> <<>>, connection |-> DefaultInitialWindowSize,
             offset |-> [s \in StreamIds |-> 0], open |-> {}, finished |-> {},
             received |-> [s \in StreamIds |-> 0], settingsSent |-> 0]
      /\ body = [s \in StreamIds |-> 0]
  BY DEF FlowInit
<1>2. IInv /\ TypeOK
  BY <1>1, InitIInv DEF IInv
<1>3. MaxStreams \in Nat /\ StreamIds = 1..MaxStreams /\ MaxBody \in Nat
      /\ DefaultInitialWindowSize \in Nat /\ DefaultMaxFrameSize \in Nat
  BY BoundAssumption, WindowAssumption, FrameSizeAssumption DEF StreamIds
<1>4. peer \in PeerState
  <2>1. <<>> \in Seq(SettingsFrames)
    OBVIOUS
  <2> QED BY <1>1, <1>3, <2>1 DEF PeerState
<1>5. FlowTypeOK
  <2>1. toPeer \in Seq(ClientFrames) /\ toClient \in Seq(PeerFrames)
    BY <1>1
  <2>2. body \in [StreamIds -> 0..MaxBody]
    BY <1>1, <1>3
  <2> QED BY <1>2, <1>4, <2>1, <2>2 DEF FlowTypeOK
<1>6. /\ \A s \in StreamIds : sent[s] = 0 /\ s \notin ended /\ s \notin DOMAIN streams
      /\ nextStreamId = 1 /\ DOMAIN streams = {}
      /\ connectionSendWindow = DefaultInitialWindowSize
      /\ remoteInitialWindowSize = DefaultInitialWindowSize
      /\ maxFrameSize = DefaultMaxFrameSize
  BY <1>1 DEF Init
<1>7. Bodies
  <2> SUFFICES ASSUME NEW s \in StreamIds
               PROVE  Writing(body, streams, s, sent[s], s \in ended) /\ Arriving(s)
    BY DEF Bodies
  <2>1. body[s] = 0 /\ s >= 1 /\ s \in Nat
    BY <1>1, <1>3
  <2>2. peer.received[s] = 0 /\ peer.finished = {} /\ peer.open = {}
    BY <1>1
  <2> QED BY <1>6, <2>1, <2>2 DEF Writing, Arriving
<1>8. InStep(Books(peer), NoDues)
  <2>1. Books(peer) \in Ledger
    BY <1>4, BooksFields
  <2>2. Reaches(Books(peer), toPeer, body, Books(peer)) /\ Brings(toClient, NoDues)
    BY <1>1, <2>1, ReachesNothing, BringsNothing
  <2>3. /\ Books(peer).initial = DefaultInitialWindowSize
        /\ Books(peer).frameSize = DefaultMaxFrameSize
        /\ Books(peer).unacknowledged = <<>>
        /\ Books(peer).connection = DefaultInitialWindowSize
        /\ \A s \in StreamIds : Books(peer).offset[s] = 0 /\ Books(peer).received[s] = 0
    BY <1>1 DEF Books
  <2>4. NoDues.settings = <<>> /\ \A s \in StreamIds \cup {0} : NoDues.credit[s] = 0
    BY DEF NoDues
  <2>5. Agree(Books(peer), NoDues)
    BY <1>3, <1>6, <2>3, <2>4 DEF Agree, Credit
  <2> QED BY <2>2, <2>5 DEF InStep
<1>9. Books(peer) \in Ledger /\ NoDues \in Dues
  BY <1>4, BooksFields, NoDuesIn
<1> QED BY <1>2, <1>5, <1>7, <1>8, <1>9 DEF FlowInv

-----------------------------------------------------------------------------
\* The client's part is as it was.
LEMMA ClientUnchanged ==
  ASSUME IInv, TypeOK, UNCHANGED vars
  PROVE  /\ IInv' /\ TypeOK'
         /\ UNCHANGED <<nextStreamId, streams, connectionSendWindow,
                        remoteInitialWindowSize, maxFrameSize, sent, ended>>
<1>1. IInv'
  BY Unchanged
<1>2. IInv' => TypeOK'
  BY DEF IInv
<1> QED BY <1>1, <1>2 DEF vars, manager, history

\* The peer's account after it has written frame m.
Granting(a, m) ==
  /\ a \in PeerState
  /\ Books(a) = Offered(Books(peer), m)
  /\ a.finished = peer.finished /\ a.open \subseteq peer.open

LEMMA PeerSendKeeps ==
  ASSUME FlowInv, NEW m \in PeerFrames, NEW a, PeerSend(m, a), Granting(a, m),
         \A s \in StreamIds : s >= nextStreamId => IncrementOn(s)[m] = 0
  PROVE  FlowInv'
<1>1. /\ toClient' = Append(toClient, m)
      /\ peer' = a
      /\ UNCHANGED vars /\ toPeer' = toPeer /\ body' = body
  BY DEF PeerSend
<1>2. /\ FlowTypeOK /\ IInv /\ TypeOK /\ peer \in PeerState /\ Bodies
      /\ toPeer \in Seq(ClientFrames) /\ toClient \in Seq(PeerFrames)
  BY DEF FlowInv, FlowTypeOK
<1>3. /\ IInv' /\ TypeOK'
      /\ UNCHANGED <<nextStreamId, streams, connectionSendWindow,
                        remoteInitialWindowSize, maxFrameSize, sent, ended>>
  BY <1>1, <1>2, ClientUnchanged
<1>4. FlowTypeOK'
  <2>1. toClient' \in Seq(PeerFrames)
    BY <1>1, <1>2
  <2>2. peer' \in PeerState
    BY <1>1 DEF Granting
  <2> QED BY <1>1, <1>2, <1>3, <2>1, <2>2 DEF FlowTypeOK
<1>5. Books(peer) \in Ledger
  BY <1>2, BooksFields
<1>6. Bodies'
  <2> SUFFICES ASSUME NEW s \in StreamIds
               PROVE  Writing(body, streams, s, sent[s], s \in ended)' /\ Arriving(s)'
    BY DEF Bodies
  <2>1. Writing(body, streams, s, sent[s], s \in ended) /\ Arriving(s)
    BY <1>2 DEF Bodies
  <2>2. Writing(body, streams, s, sent[s], s \in ended)'
    BY <1>1, <1>3, <2>1 DEF Writing
  <2>3. peer'.received = peer.received
    <3>1. Books(peer').received = Books(peer).received
      BY <1>1, <1>5, OfferedFields DEF Granting
    <3> QED BY <3>1 DEF Books
  <2>4. peer'.finished = peer.finished /\ peer'.open \subseteq peer.open
    BY <1>1 DEF Granting
  <2>5. Arriving(s)'
    BY <1>1, <1>3, <2>1, <2>3, <2>4 DEF Arriving
  <2> QED BY <2>2, <2>5
<1>7. PICK p \in Ledger, d \in Dues : InStep(p, d)
  BY DEF FlowInv
<1>8. Reaches(Books(peer), toPeer, body, p) /\ Brings(toClient, d) /\ Agree(p, d)
  BY <1>7 DEF InStep
<1> DEFINE x == Offered(p, m)
           e == With(d, m)
<1>9. Reaches(Books(peer'), toPeer, body, x)
  <2>1. Reaches(Offered(Books(peer), m), toPeer, body, x)
    BY <1>2, <1>5, <1>8, ReachesOffered
  <2> QED BY <1>1, <2>1 DEF Granting
<1>10. Brings(toClient', e)
  BY <1>1, <1>2, <1>8, BringsMore
<1>11. /\ x \in Ledger /\ x.initial = p.initial /\ x.frameSize = p.frameSize
       /\ x.unacknowledged = IF m.type = "SETTINGS" THEN Append(p.unacknowledged, m.settings)
                             ELSE p.unacknowledged
       /\ x.connection = p.connection + IncrementOn(0)[m]
       /\ \A s \in StreamIds : x.offset[s] = p.offset[s] + IncrementOn(s)[m]
       /\ x.received = p.received
  BY OfferedFields
<1>12. /\ e \in Dues
       /\ e.settings = IF m.type = "SETTINGS" THEN Append(d.settings, m.settings) ELSE d.settings
       /\ \A s \in StreamIds \cup {0} : e.credit[s] = d.credit[s] + IncrementOn(s)[m]
  BY WithFields
<1> HIDE DEF x, e
<1>13. /\ p.connection \in Int /\ \A s \in StreamIds : p.offset[s] \in Int
       /\ \A s \in StreamIds \cup {0} : d.credit[s] \in Nat /\ IncrementOn(s)[m] \in Nat
       /\ connectionSendWindow \in Nat /\ remoteInitialWindowSize \in Nat
  BY <1>2, LedgerFields, DuesFields, PeerFrameKinds DEF TypeOK
<1>14. Agree(x, e)'
  <2>1. x.connection = connectionSendWindow + e.credit[0]
    <3>1. p.connection = connectionSendWindow + d.credit[0]
      BY <1>8 DEF Agree, Credit
    <3>2. e.credit[0] = d.credit[0] + IncrementOn(0)[m]
      BY <1>12
    <3> QED BY <1>11, <1>13, <3>1, <3>2
  <2>2. ASSUME NEW s \in DOMAIN streams
        PROVE  x.offset[s] = streams[s].localWindow - remoteInitialWindowSize + e.credit[s]
    <3>1. p.offset[s] = streams[s].localWindow - remoteInitialWindowSize + d.credit[s]
      BY <1>8 DEF Agree, Credit
    <3>2. s \in StreamIds /\ streams[s].localWindow \in Int
      BY <1>2, LiveStream
    <3>3. e.credit[s] = d.credit[s] + IncrementOn(s)[m] /\ x.offset[s] = p.offset[s] + IncrementOn(s)[m]
      BY <1>11, <1>12, <3>2
    <3>4. d.credit[s] \in Nat /\ IncrementOn(s)[m] \in Nat
      BY <1>13, <3>2
    <3> QED BY <1>13, <3>1, <3>2, <3>3, <3>4
  <2>3. ASSUME NEW s \in StreamIds, s >= nextStreamId PROVE x.offset[s] = 0 /\ e.credit[s] = 0
    <3>1. p.offset[s] = 0 /\ d.credit[s] = 0 /\ IncrementOn(s)[m] = 0
      BY <1>8, <2>3 DEF Agree, Credit
    <3> QED BY <1>11, <1>12, <3>1
  <2>4. /\ \A s \in StreamIds : x.received[s] = sent[s]
        /\ x.initial = remoteInitialWindowSize
        /\ maxFrameSize <= x.frameSize
        /\ x.unacknowledged = e.settings
    BY <1>8, <1>11, <1>12 DEF Agree, Credit
  <2> QED BY <1>3, <2>1, <2>2, <2>3, <2>4 DEF Agree, Credit
<1>15. InStep(x, e)'
  BY <1>1, <1>9, <1>10, <1>14 DEF InStep, Reaches, Brings, Follows
<1> QED BY <1>3, <1>4, <1>6, <1>11, <1>12, <1>15 DEF FlowInv

\* An account that differs from the peer's by what frame m offers.
LEMMA GrantingBy ==
  ASSUME peer \in PeerState, NEW m \in PeerFrames, NEW a \in PeerState,
         a.initial = peer.initial, a.frameSize = peer.frameSize, a.received = peer.received,
         a.unacknowledged = IF m.type = "SETTINGS" THEN Append(peer.unacknowledged, m.settings)
                            ELSE peer.unacknowledged,
         a.connection = peer.connection + IncrementOn(0)[m],
         \A s \in StreamIds : a.offset[s] = peer.offset[s] + IncrementOn(s)[m],
         a.finished = peer.finished, a.open \subseteq peer.open
  PROVE  Granting(a, m)
<1>1. /\ Books(peer) \in Ledger
      /\ Books(peer).initial = peer.initial /\ Books(peer).frameSize = peer.frameSize
      /\ Books(peer).unacknowledged = peer.unacknowledged
      /\ Books(peer).connection = peer.connection
      /\ Books(peer).offset = peer.offset /\ Books(peer).received = peer.received
  BY BooksFields
<1>2. /\ Books(a) \in Ledger
      /\ Books(a).initial = a.initial /\ Books(a).frameSize = a.frameSize
      /\ Books(a).unacknowledged = a.unacknowledged
      /\ Books(a).connection = a.connection
      /\ Books(a).offset = a.offset /\ Books(a).received = a.received
  BY BooksFields
<1> DEFINE x == Offered(Books(peer), m)
<1>3. /\ x \in Ledger
      /\ x.initial = peer.initial /\ x.frameSize = peer.frameSize
      /\ x.unacknowledged = a.unacknowledged
      /\ x.connection = a.connection /\ x.received = a.received
      /\ \A s \in StreamIds : x.offset[s] = a.offset[s]
  BY <1>1, OfferedFields
<1> HIDE DEF x
<1>4. Books(a) = x
  BY <1>2, <1>3, LedgerEquality
<1> QED BY <1>4 DEF Granting, x

LEMMA PeerGrantConnectionKeeps ==
  ASSUME FlowInv, NEW n \in Increments, PeerGrantConnection(n)
  PROVE  FlowInv'
<1> DEFINE m == WindowUpdate(0, n)
           c == peer.connection + n
           a == [peer EXCEPT !.connection = c]
<1>1. peer \in PeerState /\ n \in Nat /\ StreamIds = 1..MaxStreams
  BY PeerAssumption DEF FlowInv, FlowTypeOK, StreamIds
<1>2. m \in PeerFrames /\ m.type = "WINDOW_UPDATE" /\ m.stream = 0 /\ m.increment = n
  BY DEF WindowUpdate, PeerFrames
<1>3. IncrementOn(0)[m] = n /\ \A s \in StreamIds : IncrementOn(s)[m] = 0
  <2>1. \A s \in StreamIds : s # 0
    BY <1>1
  <2> HIDE DEF m
  <2> QED BY <1>2, <2>1, PeerFrameKinds
<1>4. c \in Int
  BY <1>1, PeerFields
<1>5. PeerSend(m, a)
  <2>1. [peer EXCEPT !.connection = @ + n] = a
    BY <1>1 DEF PeerState
  <2> QED BY <2>1 DEF PeerGrantConnection
<1> HIDE DEF m, c
<1>6. /\ a \in PeerState
      /\ a.initial = peer.initial /\ a.frameSize = peer.frameSize /\ a.received = peer.received
      /\ a.unacknowledged = peer.unacknowledged
      /\ a.connection = c /\ a.offset = peer.offset
      /\ a.finished = peer.finished /\ a.open = peer.open
  BY <1>1, <1>4 DEF PeerState
<1> HIDE DEF a
<1>7. \A s \in StreamIds : peer.offset[s] + 0 = peer.offset[s]
  <2>1. peer.offset \in [StreamIds -> Int]
    BY <1>1, PeerFields
  <2> QED BY <2>1
<1>8. Granting(a, m)
  BY <1>1, <1>2, <1>3, <1>7, <1>6, GrantingBy DEF c
<1> QED BY <1>2, <1>3, <1>5, <1>8, PeerSendKeeps

LEMMA PeerGrantStreamKeeps ==
  ASSUME FlowInv, NEW s \in StreamIds, NEW n \in Increments, PeerGrantStream(s, n)
  PROVE  FlowInv'
<1> DEFINE m == WindowUpdate(s, n)
           offset == [peer.offset EXCEPT ![s] = @ + n]
           a == [peer EXCEPT !.offset = offset]
<1>1. peer \in PeerState /\ n \in Nat /\ StreamIds = 1..MaxStreams /\ MaxStreams \in Nat
      /\ TypeOK /\ Bodies
  BY PeerAssumption, BoundAssumption DEF FlowInv, FlowTypeOK, StreamIds
<1>2. m \in PeerFrames /\ m.type = "WINDOW_UPDATE" /\ m.stream = s /\ m.increment = n
  BY DEF WindowUpdate, PeerFrames
<1>3. /\ IncrementOn(0)[m] = 0
      /\ \A t \in StreamIds : IncrementOn(t)[m] = IF t = s THEN n ELSE 0
  <2>1. s # 0
    BY <1>1
  <2> HIDE DEF m
  <2> QED BY <1>2, <2>1, PeerFrameKinds
<1>4. /\ offset \in [StreamIds -> Int]
      /\ \A t \in StreamIds : offset[t] = peer.offset[t] + (IF t = s THEN n ELSE 0)
  BY <1>1, PeerFields
<1>5. PeerSend(m, a) /\ s \in peer.open
  <2>1. [peer EXCEPT !.offset[s] = @ + n] = a
    BY <1>1 DEF PeerState
  <2> QED BY <2>1 DEF PeerGrantStream
<1> HIDE DEF m, offset
<1>6. /\ a \in PeerState
      /\ a.initial = peer.initial /\ a.frameSize = peer.frameSize /\ a.received = peer.received
      /\ a.unacknowledged = peer.unacknowledged
      /\ a.connection = peer.connection /\ a.offset = offset
      /\ a.finished = peer.finished /\ a.open = peer.open
  BY <1>1, <1>4 DEF PeerState
<1> HIDE DEF a
<1>7. Granting(a, m)
  <2>1. peer.connection + 0 = peer.connection
    BY <1>1, PeerFields
  <2>2. \A t \in StreamIds : a.offset[t] = peer.offset[t] + IncrementOn(t)[m]
    BY <1>3, <1>4, <1>6
  <2> QED BY <1>1, <1>2, <1>3, <1>6, <2>1, <2>2, GrantingBy
<1>8. s < nextStreamId
  BY <1>1, <1>5 DEF Bodies, Arriving
<1>9. \A t \in StreamIds : t >= nextStreamId => IncrementOn(t)[m] = 0
  BY <1>1, <1>3, <1>8 DEF TypeOK
<1> QED BY <1>2, <1>5, <1>7, <1>9, PeerSendKeeps

LEMMA PeerSettingsKeeps ==
  ASSUME FlowInv, NEW f \in SettingsFrames, PeerSettings(f)
  PROVE  FlowInv'
<1> DEFINE m == Settings(f)
           u == Append(peer.unacknowledged, f)
           x == [peer EXCEPT !.unacknowledged = u]
           a == [x EXCEPT !.settingsSent = @ + 1]
<1>1. peer \in PeerState
  BY DEF FlowInv, FlowTypeOK
<1>2. m \in PeerFrames /\ m.type = "SETTINGS" /\ m.settings = f
  BY DEF Settings, PeerFrames
<1>3. \A s \in StreamIds \cup {0} : IncrementOn(s)[m] = 0
  <2> HIDE DEF m
  <2> QED BY <1>2, PeerFrameKinds
<1>4. u \in Seq(SettingsFrames) /\ peer.settingsSent + 1 \in Nat
  BY <1>1, PeerFields
<1> HIDE DEF u
<1>5. /\ x \in PeerState
      /\ x.initial = peer.initial /\ x.frameSize = peer.frameSize /\ x.received = peer.received
      /\ x.unacknowledged = u /\ x.settingsSent = peer.settingsSent
      /\ x.connection = peer.connection /\ x.offset = peer.offset
      /\ x.finished = peer.finished /\ x.open = peer.open
  BY <1>1, <1>4 DEF PeerState
<1>6. PeerSend(m, a)
  <2>1. a = [x EXCEPT !.settingsSent = peer.settingsSent + 1]
    BY <1>5
  <2> QED BY <2>1 DEF PeerSettings, u
<1> HIDE DEF x
<1>7. /\ a \in PeerState
      /\ a.initial = x.initial /\ a.frameSize = x.frameSize /\ a.received = x.received
      /\ a.unacknowledged = x.unacknowledged
      /\ a.connection = x.connection /\ a.offset = x.offset
      /\ a.finished = x.finished /\ a.open = x.open
  BY <1>4, <1>5 DEF PeerState
<1> HIDE DEF m, a
<1>8. /\ peer.connection + 0 = peer.connection
      /\ \A s \in StreamIds : peer.offset[s] + 0 = peer.offset[s]
  BY <1>1, PeerFields
<1>9. Granting(a, m)
  <2>1. a.unacknowledged = IF m.type = "SETTINGS" THEN Append(peer.unacknowledged, m.settings)
                           ELSE peer.unacknowledged
    BY <1>2, <1>5, <1>7 DEF u
  <2> QED BY <1>1, <1>2, <1>3, <1>5, <1>7, <1>8, <2>1, GrantingBy, ZenonT(60)
<1> QED BY <1>2, <1>3, <1>6, <1>9, PeerSendKeeps

LEMMA PeerCloseKeeps ==
  ASSUME FlowInv, NEW s \in StreamIds, PeerClose(s)
  PROVE  FlowInv'
<1> DEFINE m == Close(s)
           a == [peer EXCEPT !.open = @ \ {s}]
<1>1. peer \in PeerState
  BY DEF FlowInv, FlowTypeOK
<1>2. m \in PeerFrames /\ m.type = "CLOSE"
  BY DEF Close, PeerFrames
<1>3. \A t \in StreamIds \cup {0} : IncrementOn(t)[m] = 0
  <2> HIDE DEF m
  <2> QED BY <1>2, PeerFrameKinds
<1>4. /\ a \in PeerState
      /\ a.initial = peer.initial /\ a.frameSize = peer.frameSize /\ a.received = peer.received
      /\ a.unacknowledged = peer.unacknowledged
      /\ a.connection = peer.connection /\ a.offset = peer.offset
      /\ a.finished = peer.finished /\ a.open \subseteq peer.open
  BY <1>1 DEF PeerState
<1>5. PeerSend(m, a)
  BY DEF PeerClose
<1> HIDE DEF m, a
<1>6. /\ peer.connection + 0 = peer.connection
      /\ \A t \in StreamIds : peer.offset[t] + 0 = peer.offset[t]
  BY <1>1, PeerFields
<1>7. Granting(a, m)
  BY <1>1, <1>2, <1>3, <1>4, <1>6, GrantingBy
<1> QED BY <1>2, <1>3, <1>5, <1>7, PeerSendKeeps

-----------------------------------------------------------------------------
\* The peer reads the next frame.
LEMMA PeerReceiveKeeps ==
  ASSUME FlowInv, PeerReceive
  PROVE  FlowInv'
<1> DEFINE m == Head(toPeer)
<1>1. /\ toPeer # <<>> /\ peer' = Account(m) /\ toPeer' = Tail(toPeer)
      /\ UNCHANGED vars /\ toClient' = toClient /\ body' = body
  BY DEF PeerReceive
<1>2. /\ FlowTypeOK /\ IInv /\ TypeOK /\ peer \in PeerState /\ Bodies
      /\ toPeer \in Seq(ClientFrames) /\ body \in [StreamIds -> 0..MaxBody]
  BY DEF FlowInv, FlowTypeOK
<1>3. /\ IInv' /\ TypeOK'
      /\ UNCHANGED <<nextStreamId, streams, connectionSendWindow,
                        remoteInitialWindowSize, maxFrameSize, sent, ended>>
  BY <1>1, <1>2, ClientUnchanged
<1>4. m \in ClientFrames /\ Tail(toPeer) \in Seq(ClientFrames)
  BY <1>1, <1>2
<1> HIDE DEF m
<1>5. PICK p \in Ledger, d \in Dues : InStep(p, d)
  BY DEF FlowInv
<1>6. Reaches(Books(peer), toPeer, body, p) /\ Brings(toClient, d) /\ Agree(p, d)
  BY <1>5 DEF InStep
<1>7. PICK n \in Ledger :
        Fits(Books(peer), m, body) /\ Arrives(Books(peer), m, n) /\ Reaches(n, Tail(toPeer), body, p)
  <2>1. \E n \in Ledger :
          Fits(Books(peer), Head(toPeer), body) /\ Arrives(Books(peer), Head(toPeer), n)
            /\ Reaches(n, Tail(toPeer), body, p)
    BY <1>1, <1>2, <1>6, ReachesFirst
  <2> QED BY <2>1 DEF m
<1>8. /\ Books(peer) \in Ledger
      /\ Books(peer).unacknowledged = peer.unacknowledged
      /\ Books(peer).received = peer.received
  BY <1>2, BooksFields
<1>9. /\ peer' \in PeerState
      /\ Arrives(Books(peer), m, Books(peer'))
      /\ peer'.open = peer.open \cup (IF m.type = "HEADERS" THEN {m.stream} ELSE {})
      /\ peer'.finished =
              peer.finished \cup (IF m.type = "DATA" /\ m.endStream THEN {m.stream} ELSE {})
  <2>1. m.type = "SETTINGS_ACK" => peer.unacknowledged # <<>>
    BY <1>7, <1>8 DEF Arrives
  <2> QED BY <1>1, <1>2, <1>4, <2>1, AccountFields
<1>10. Books(peer') \in Ledger /\ Books(peer').received = peer'.received
  BY <1>9, BooksFields
<1>11. Books(peer') = n
  BY <1>7, <1>8, <1>9, <1>10, ArrivesOnce
<1>12. FlowTypeOK'
  BY <1>1, <1>2, <1>3, <1>4, <1>9 DEF FlowTypeOK
<1>13. Bodies'
  <2> SUFFICES ASSUME NEW s \in StreamIds
               PROVE  Writing(body, streams, s, sent[s], s \in ended)' /\ Arriving(s)'
    BY DEF Bodies
  <2>1. Writing(body, streams, s, sent[s], s \in ended) /\ Arriving(s)
    BY <1>2 DEF Bodies
  <2>2. Writing(body, streams, s, sent[s], s \in ended)'
    BY <1>1, <1>3, <2>1 DEF Writing
  <2>3. /\ body[s] \in Nat /\ peer.received[s] \in Nat
        /\ peer'.received[s] = peer.received[s] + Octets(m, s)
    <3>1. Books(peer').received[s] = Books(peer).received[s] + Octets(m, s)
      BY <1>9 DEF Arrives
    <3>2. MaxBody \in Nat
      BY BoundAssumption
    <3> QED BY <1>2, <1>8, <1>10, <3>1, <3>2, PeerFields
  <2>4. CASE m.type = "DATA" /\ m.stream = s
    <3>1. /\ Octets(m, s) = m.length /\ m.length \in Nat /\ m.length >= 1
          /\ peer.received[s] + m.length <= body[s]
          /\ m.endStream <=> peer.received[s] + m.length = body[s]
      <4>1. /\ m.length \in 1..Books(peer).frameSize
            /\ Books(peer).received[s] + m.length <= body[s]
            /\ m.endStream <=> Books(peer).received[s] + m.length = body[s]
        BY <1>7, <2>4 DEF Fits
      <4>2. Books(peer).frameSize \in Nat
        BY <1>8, LedgerFields
      <4> QED BY <1>8, <2>4, <4>1, <4>2 DEF Octets
    <3>2. peer'.open = peer.open /\ (s \in peer'.finished <=> s \in peer.finished \/ m.endStream)
      BY <1>9, <2>4
    <3>3. s \notin peer.finished
      BY <2>1, <2>3, <3>1 DEF Arriving
    <3>4. peer'.received[s] = peer.received[s] + m.length
      BY <2>3, <3>1
    <3>5. /\ peer'.received[s] <= body[s]
          /\ s \in peer'.finished <=> body[s] > 0 /\ peer'.received[s] = body[s]
      BY <2>3, <3>1, <3>2, <3>3, <3>4
    <3> QED BY <1>1, <1>3, <2>1, <2>2, <3>2, <3>5 DEF Arriving
  <2>5. CASE ~(m.type = "DATA" /\ m.stream = s)
    <3>1. peer'.received[s] = peer.received[s]
      BY <2>3, <2>5 DEF Octets
    <3>2. s \in peer'.finished <=> s \in peer.finished
      BY <1>9, <2>5
    <3>3. s \in peer'.open => body[s] > 0
      <4>1. CASE m.type = "HEADERS" /\ m.stream = s
        BY <1>7, <4>1 DEF Fits
      <4>2. CASE ~(m.type = "HEADERS" /\ m.stream = s)
        BY <1>9, <2>1, <4>2 DEF Arriving
      <4> QED BY <4>1, <4>2
    <3> QED BY <1>1, <1>3, <2>1, <2>2, <3>1, <3>2, <3>3 DEF Arriving
  <2> QED BY <2>4, <2>5
<1>14. InStep(p, d)'
  <2>1. Reaches(Books(peer'), Tail(toPeer), body, p)
    BY <1>7, <1>11
  <2>2. Agree(p, d)'
    BY <1>3, <1>6 DEF Agree
  <2> QED BY <1>1, <1>6, <2>1, <2>2 DEF InStep, Reaches, Brings, Follows
<1> QED BY <1>3, <1>12, <1>13, <1>14 DEF FlowInv

-----------------------------------------------------------------------------
\* Ledger r is what p becomes when the frames of the step arrive, e being what is then
\* still on its way to the client, and w the initial window in use.
WritesTo(p, e, b, w, r) ==
  /\ Reaches(p, Written, b, r)
  /\ r.initial = p.initial /\ r.frameSize = p.frameSize
  /\ r.unacknowledged = p.unacknowledged
  /\ Credit(r, e, streams', connectionSendWindow', w)
  /\ \A s \in StreamIds : r.received[s] = sent'[s]
  /\ \A s \in StreamIds \ DOMAIN streams' : r.offset[s] = p.offset[s]

\* A drain keeps the two ends in agreement.
LEMMA DrainAgrees ==
  ASSUME NEW S, NEW tab, NEW conn \in Nat,
         S \subseteq DOMAIN tab, DOMAIN tab \subseteq StreamIds,
         tab \in [DOMAIN tab -> SendState],
         sent \in [StreamIds -> Nat],
         Drain(S, tab, conn),
         maxFrameSize \in Nat \ {0}, NEW p \in Ledger, maxFrameSize <= p.frameSize,
         NEW b \in [StreamIds -> Nat], NEW w \in Nat, Usable(p, w),
         NEW e \in Dues, Credit(p, e, tab, conn, w),
         \A s \in StreamIds : p.received[s] = sent[s],
         \A s \in StreamIds : Writing(b, tab, s, sent[s], s \in ended)
  PROVE  /\ Written \in Seq(ClientFrames)
         /\ \E r \in Ledger : WritesTo(p, e, b, w, r)
         /\ \A s \in StreamIds : Writing(b, streams', s, sent'[s], s \in ended')
         /\ DOMAIN streams' = DOMAIN tab
<1>1. /\ \A s \in StreamIds \cup {0} : e.credit[s] \in Nat
      /\ \A s \in DOMAIN tab : tab[s].localWindow \in Int
  BY DuesFields DEF SendState
<1>2. conn <= p.connection
  BY <1>1 DEF Credit
<1>3. \A s \in DOMAIN tab : tab[s].localWindow <= w + p.offset[s]
  <2> SUFFICES ASSUME NEW s \in DOMAIN tab PROVE tab[s].localWindow <= w + p.offset[s]
    OBVIOUS
  <2>1. p.offset[s] = tab[s].localWindow - w + e.credit[s]
    BY DEF Credit
  <2>2. e.credit[s] \in Nat /\ tab[s].localWindow \in Int
    BY <1>1
  <2> QED BY <2>1, <2>2
<1>4. /\ Written \in Seq(ClientFrames)
      /\ \E r \in Ledger : AfterDrain(p, b, conn - connectionSendWindow', r)
      /\ DOMAIN streams' = DOMAIN tab
      /\ \A s \in DOMAIN tab : streams'[s].localWindow = tab[s].localWindow - Spent(s)
      /\ \A s \in StreamIds \ DOMAIN tab : Spent(s) = 0
      /\ \A s \in StreamIds : Spent(s) \in Nat /\ sent'[s] = sent[s] + Spent(s)
      /\ \A s \in StreamIds : Writing(b, streams', s, sent'[s], s \in ended')
  BY <1>2, <1>3, DrainWrites
<1>5. PICK r \in Ledger : AfterDrain(p, b, conn - connectionSendWindow', r)
  BY <1>4
<1>6. connectionSendWindow' \in Nat
  BY DrainSpends
<1>7. r.connection = connectionSendWindow' + e.credit[0]
  <2>1. p.connection = conn + e.credit[0]
    BY DEF Credit
  <2>2. r.connection = p.connection - (conn - connectionSendWindow')
    BY <1>5 DEF AfterDrain
  <2>3. e.credit[0] \in Nat
    BY <1>1
  <2> QED BY <1>6, <2>1, <2>2, <2>3
<1>8. ASSUME NEW s \in DOMAIN streams'
      PROVE  r.offset[s] = streams'[s].localWindow - w + e.credit[s]
  <2>1. s \in DOMAIN tab /\ s \in StreamIds
    BY <1>4
  <2>2. p.offset[s] = tab[s].localWindow - w + e.credit[s]
    BY <2>1 DEF Credit
  <2>3. r.offset[s] = p.offset[s] - Spent(s)
    BY <1>5, <2>1 DEF AfterDrain
  <2>4. e.credit[s] \in Nat /\ tab[s].localWindow \in Int /\ Spent(s) \in Nat
    BY <1>1, <1>4, <2>1
  <2>5. streams'[s].localWindow = tab[s].localWindow - Spent(s)
    BY <1>4, <2>1
  <2> QED BY <2>2, <2>3, <2>4, <2>5
<1>9. ASSUME NEW s \in StreamIds
      PROVE  /\ r.received[s] = sent'[s]
             /\ s \notin DOMAIN streams' => r.offset[s] = p.offset[s]
  <2>1. r.received[s] = p.received[s] + Spent(s) /\ r.offset[s] = p.offset[s] - Spent(s)
    BY <1>5 DEF AfterDrain
  <2>2. sent'[s] = sent[s] + Spent(s) /\ p.received[s] = sent[s]
    BY <1>4
  <2>3. p.offset[s] \in Int
    BY LedgerFields
  <2>4. s \notin DOMAIN streams' => Spent(s) = 0
    BY <1>4
  <2> QED BY <2>1, <2>2, <2>3, <2>4
<1>10. WritesTo(p, e, b, w, r)
  BY <1>5, <1>7, <1>8, <1>9 DEF WritesTo, Credit, AfterDrain
<1> QED BY <1>4, <1>10

\* A step that sends nothing writes nothing.
LEMMA SilenceAgrees ==
  ASSUME sent \in [StreamIds -> Nat], sent' = sent, ended' = ended,
         connectionSendWindow' = connectionSendWindow, connectionSendWindow \in Nat,
         DOMAIN streams \subseteq StreamIds, DOMAIN streams' \subseteq DOMAIN streams,
         \A s \in DOMAIN streams' : streams'[s] = streams[s],
         maxFrameSize \in Nat \ {0}, NEW p \in Ledger, maxFrameSize <= p.frameSize,
         NEW b \in [StreamIds -> Nat], NEW w \in Nat, Usable(p, w),
         NEW e \in Dues, Credit(p, e, streams, connectionSendWindow, w),
         \A s \in StreamIds : p.received[s] = sent[s],
         \A s \in StreamIds : Writing(b, streams, s, sent[s], s \in ended)
  PROVE  /\ Written \in Seq(ClientFrames)
         /\ \E r \in Ledger : WritesTo(p, e, b, w, r)
         /\ \A s \in StreamIds : Writing(b, streams', s, sent'[s], s \in ended')
<1> DEFINE left == [k \in 0..MaxStreams |-> 0]
<1>1. MaxStreams \in Nat /\ StreamIds = 1..MaxStreams
  BY BoundAssumption DEF StreamIds
<1>2. \A s \in StreamIds : Spent(s) = 0
  BY DEF Spent
<1>3. /\ left \in [0..MaxStreams -> Nat] /\ left[0] = 0 /\ left[MaxStreams] = 0
      /\ \A s \in StreamIds : left[s] = 0 /\ left[s - 1] = 0
  BY <1>1
<1> HIDE DEF left
<1>4. Leaves(left)
  BY <1>2, <1>3 DEF Leaves
<1>5. Affordable(p, b, w)
  BY <1>2 DEF Affordable
<1>6. left[0] <= p.connection
  BY <1>3, DuesFields DEF Credit
<1>7. /\ Written \in Seq(ClientFrames)
      /\ \E r \in Ledger : AfterDrain(p, b, left[0] - left[MaxStreams], r)
  BY <1>3, <1>4, <1>5, <1>6, WrittenReaches
<1>8. PICK r \in Ledger : AfterDrain(p, b, left[0] - left[MaxStreams], r)
  BY <1>7
<1>9. /\ r.connection = p.connection
      /\ \A s \in StreamIds : r.offset[s] = p.offset[s] /\ r.received[s] = p.received[s]
  <2>1. /\ r.connection = p.connection - 0
        /\ \A s \in StreamIds : r.offset[s] = p.offset[s] - 0 /\ r.received[s] = p.received[s] + 0
    BY <1>2, <1>3, <1>8 DEF AfterDrain
  <2>2. /\ p.connection \in Int
        /\ \A s \in StreamIds : p.offset[s] \in Int /\ p.received[s] \in Nat
    BY LedgerFields
  <2> QED BY <2>1, <2>2
<1>10. WritesTo(p, e, b, w, r)
  <2>1. DOMAIN streams' \subseteq StreamIds
    OBVIOUS
  <2>2. Credit(r, e, streams', connectionSendWindow', w)
    BY <1>9, <2>1 DEF Credit
  <2> QED BY <1>8, <1>9, <2>2 DEF WritesTo, AfterDrain
<1>11. \A s \in StreamIds : Writing(b, streams', s, sent'[s], s \in ended')
  BY DEF Writing
<1> QED BY <1>7, <1>10, <1>11

-----------------------------------------------------------------------------
\* The client has handled the next frame and written t.
LEMMA ReceiveKeeps ==
  ASSUME FlowInv, toClient # <<>>, toClient' = Tail(toClient),
         peer' = peer, body' = body, nextStreamId' = nextStreamId, IInv',
         NEW t \in Seq(ClientFrames), toPeer' = toPeer \o t,
         NEW p \in Ledger, Reaches(Books(peer), toPeer, body, p),
         NEW r \in Ledger, Reaches(p, t, body, r),
         NEW e \in Dues, Brings(Tail(toClient), e), Agree(r, e)',
         \A s \in StreamIds : Writing(body, streams', s, sent'[s], s \in ended')
  PROVE  FlowInv'
<1>1. /\ FlowTypeOK /\ Bodies /\ peer \in PeerState
      /\ toPeer \in Seq(ClientFrames) /\ toClient \in Seq(PeerFrames)
  BY DEF FlowInv, FlowTypeOK
<1>2. FlowTypeOK'
  <2>1. toPeer' \in Seq(ClientFrames) /\ toClient' \in Seq(PeerFrames)
    BY <1>1
  <2>2. TypeOK'
    BY DEF IInv
  <2> QED BY <1>1, <2>1, <2>2 DEF FlowTypeOK
<1>3. Bodies'
  <2> SUFFICES ASSUME NEW s \in StreamIds
               PROVE  Writing(body, streams, s, sent[s], s \in ended)' /\ Arriving(s)'
    BY DEF Bodies
  <2>1. Writing(body, streams, s, sent[s], s \in ended)'
    BY DEF Writing
  <2>2. Arriving(s)'
    BY <1>1 DEF Bodies, Arriving
  <2> QED BY <2>1, <2>2
<1>4. InStep(r, e)'
  <2>1. Reaches(Books(peer), toPeer \o t, body, r)
    <3>1. Books(peer) \in Ledger
      BY <1>1, BooksFields
    <3> QED BY <1>1, <3>1, ReachesJoin
  <2>2. Reaches(Books(peer'), toPeer', body', r)
    BY <2>1
  <2>3. Brings(toClient', e)
    OBVIOUS
  <2> QED BY <2>2, <2>3 DEF InStep, Reaches, Brings, Follows
<1> QED BY <1>2, <1>3, <1>4 DEF FlowInv

\* What the invariant says of the next frame to the client, before it is handled.
LEMMA NextFrame ==
  ASSUME FlowInv, toClient # <<>>
  PROVE  \E p \in Ledger, d \in Dues, e \in Dues :
           /\ Reaches(Books(peer), toPeer, body, p) /\ Agree(p, d)
           /\ Delivers(d, Head(toClient), e) /\ Brings(Tail(toClient), e)
<1>1. toClient \in Seq(PeerFrames)
  BY DEF FlowInv, FlowTypeOK
<1>2. PICK p \in Ledger, d \in Dues : InStep(p, d)
  BY DEF FlowInv
<1>3. Reaches(Books(peer), toPeer, body, p) /\ Brings(toClient, d) /\ Agree(p, d)
  BY <1>2 DEF InStep
<1>4. \E e \in Dues : Delivers(d, Head(toClient), e) /\ Brings(Tail(toClient), e)
  BY <1>1, <1>3, BringsFirst
<1> QED BY <1>3, <1>4

\* A frame other than SETTINGS has been handled: only the drain has written.
LEMMA HandledKeeps ==
  ASSUME FlowInv, toClient # <<>>, toClient' = Tail(toClient),
         peer' = peer, body' = body, nextStreamId' = nextStreamId, IInv',
         remoteInitialWindowSize' = remoteInitialWindowSize, maxFrameSize' = maxFrameSize,
         toPeer' = toPeer \o Written, Written \in Seq(ClientFrames),
         NEW p \in Ledger, Reaches(Books(peer), toPeer, body, p),
         NEW d \in Dues, Agree(p, d), DOMAIN streams' \subseteq DOMAIN streams,
         NEW e \in Dues, Brings(Tail(toClient), e), Delivers(d, Head(toClient), e),
         Head(toClient).type # "SETTINGS",
         NEW r \in Ledger, WritesTo(p, e, body, remoteInitialWindowSize, r),
         \A s \in StreamIds : Writing(body, streams', s, sent'[s], s \in ended')
  PROVE  FlowInv'
<1>1. TypeOK /\ StreamIds = 1..MaxStreams /\ MaxStreams \in Nat
      /\ Head(toClient) \in PeerFrames
  BY BoundAssumption DEF FlowInv, FlowTypeOK, StreamIds
<1>2. ASSUME NEW s \in StreamIds, s >= nextStreamId PROVE r.offset[s] = 0 /\ e.credit[s] = 0
  <2>1. s \notin DOMAIN streams'
    BY <1>1, <1>2 DEF TypeOK
  <2>2. r.offset[s] = p.offset[s]
    BY <2>1 DEF WritesTo
  <2>3. p.offset[s] = 0 /\ d.credit[s] = 0
    BY <1>2 DEF Agree
  <2>4. d.credit[s] = e.credit[s] + IncrementOn(s)[Head(toClient)]
    BY DEF Delivers
  <2>5. e.credit[s] \in Nat /\ IncrementOn(s)[Head(toClient)] \in Nat
    BY <1>1, DuesFields, PeerFrameKinds
  <2> QED BY <2>2, <2>3, <2>4, <2>5
<1>3. /\ e.settings = d.settings
      /\ p.initial = remoteInitialWindowSize /\ maxFrameSize <= p.frameSize
      /\ p.unacknowledged = d.settings
  BY DEF Delivers, Agree
<1>4. /\ r.initial = p.initial /\ r.frameSize = p.frameSize
      /\ r.unacknowledged = p.unacknowledged
      /\ Credit(r, e, streams', connectionSendWindow', remoteInitialWindowSize)
      /\ \A s \in StreamIds : r.received[s] = sent'[s]
      /\ Reaches(p, Written, body, r)
  BY DEF WritesTo
<1>5. Agree(r, e)'
  <2>1. Credit(r, e, streams, connectionSendWindow, remoteInitialWindowSize)'
    BY <1>4 DEF Credit
  <2> QED BY <1>2, <1>3, <1>4, <2>1 DEF Agree
<1>6. PICK t \in Seq(ClientFrames) : t = Written
  OBVIOUS
<1>7. toPeer' = toPeer \o t /\ Reaches(p, t, body, r)
  BY <1>4, <1>6
<1> QED BY <1>5, <1>6, <1>7, ReceiveKeeps

\* What the handlers need of the invariant.
LEMMA FlowFacts ==
  ASSUME FlowInv
  PROVE  /\ IInv /\ TypeOK
         /\ DOMAIN streams \subseteq StreamIds /\ streams \in [DOMAIN streams -> SendState]
         /\ sent \in [StreamIds -> Nat] /\ body \in [StreamIds -> Nat]
         /\ connectionSendWindow \in Nat /\ remoteInitialWindowSize \in Nat
         /\ maxFrameSize \in Nat \ {0}
         /\ \A s \in StreamIds : Writing(body, streams, s, sent[s], s \in ended)
         /\ toClient \in Seq(PeerFrames) /\ toPeer \in Seq(ClientFrames)
<1>1. IInv /\ TypeOK /\ Bodies /\ body \in [StreamIds -> 0..MaxBody]
      /\ toClient \in Seq(PeerFrames) /\ toPeer \in Seq(ClientFrames)
  BY DEF FlowInv, FlowTypeOK
<1>2. maxFrameSize \in Nat \ {0}
  BY <1>1, FrameSizeAssumption DEF TypeOK
<1>3. body \in [StreamIds -> Nat]
  BY <1>1, BoundAssumption
<1> QED BY <1>1, <1>2, <1>3 DEF TypeOK, Bodies

\* WINDOW_UPDATE on stream 0.
LEMMA ConnectionUpdateHandled ==
  ASSUME FlowInv, ClientReceive, Head(toClient).type = "WINDOW_UPDATE",
         Head(toClient).stream = 0
  PROVE  FlowInv'
<1> DEFINE m == Head(toClient)
           n == m.increment
           conn == connectionSendWindow + n
           w == remoteInitialWindowSize
<1>1. /\ toClient # <<>> /\ ConnectionWindowUpdate(n)
      /\ toClient' = Tail(toClient) /\ peer' = peer /\ body' = body
  BY DEF ClientReceive, Handle
<1>2. m \in PeerFrames /\ n \in Nat
  <2>1. m \in PeerFrames
    BY <1>1, FlowFacts
  <2> QED BY <2>1, PeerFrameKinds
<1>3. toPeer' = toPeer \o Written \o <<>>
  BY DEF ClientReceive
<1>4. PICK p \in Ledger, d \in Dues, e \in Dues :
           /\ Reaches(Books(peer), toPeer, body, p) /\ Agree(p, d)
           /\ Delivers(d, m, e) /\ Brings(Tail(toClient), e)
  BY <1>1, NextFrame
<1>5. /\ Drain(DOMAIN streams, streams, conn)
      /\ UNCHANGED <<nextStreamId, remoteInitialWindowSize, maxFrameSize>>
  BY <1>1 DEF ConnectionWindowUpdate
<1>6. IInv'
  BY <1>1, <1>2, FlowFacts, ConnectionWindowUpdateKeeps
<1>7. IncrementOn(0)[m] = n /\ \A s \in StreamIds : IncrementOn(s)[m] = 0
  <2>1. \A s \in StreamIds : s # 0
    BY BoundAssumption DEF StreamIds
  <2> HIDE DEF m
  <2> QED BY <1>2, <2>1, PeerFrameKinds DEF m
<1> HIDE DEF m
<1>8. Credit(p, e, streams, conn, w)
  <2>1. p.connection = connectionSendWindow + d.credit[0]
    BY <1>4 DEF Agree, Credit
  <2>2. d.credit[0] = e.credit[0] + n
    BY <1>4, <1>7 DEF Delivers
  <2>3. connectionSendWindow \in Nat /\ e.credit[0] \in Nat /\ d.credit[0] \in Nat
    BY FlowFacts, DuesFields
  <2>4. p.connection = conn + e.credit[0]
    BY <1>2, <2>1, <2>2, <2>3
  <2>5. \A s \in StreamIds : d.credit[s] = e.credit[s]
    <3>1. \A s \in StreamIds : d.credit[s] = e.credit[s] + 0
      BY <1>4, <1>7 DEF Delivers
    <3>2. \A s \in StreamIds : e.credit[s] \in Nat
      BY DuesFields
    <3> QED BY <3>1, <3>2
  <2>6. \A s \in DOMAIN streams : p.offset[s] = streams[s].localWindow - w + e.credit[s]
    BY <1>4, <2>5, FlowFacts DEF Agree, Credit
  <2> QED BY <2>4, <2>6 DEF Credit
<1>9. /\ conn \in Nat /\ w \in Nat /\ Usable(p, w) /\ maxFrameSize <= p.frameSize
      /\ \A s \in StreamIds : p.received[s] = sent[s]
  BY <1>2, <1>4, FlowFacts DEF Agree, Usable
<1> HIDE DEF conn, n
<1>10. /\ Written \in Seq(ClientFrames)
       /\ \E r \in Ledger : WritesTo(p, e, body, w, r)
       /\ \A s \in StreamIds : Writing(body, streams', s, sent'[s], s \in ended')
       /\ DOMAIN streams' = DOMAIN streams
  <2> HIDE DEF w
  <2> QED BY <1>5, <1>8, <1>9, FlowFacts, DrainAgrees
<1>11. PICK r \in Ledger : WritesTo(p, e, body, w, r)
  BY <1>10
<1>12. toPeer' = toPeer \o Written
  BY <1>3, <1>10, FlowFacts
<1>13. m.type # "SETTINGS"
  BY DEF m
<1> QED BY <1>1, <1>4, <1>5, <1>6, <1>10, <1>11, <1>12, <1>13, HandledKeeps DEF m

\* WINDOW_UPDATE on a live stream.
LEMMA StreamUpdateHandled ==
  ASSUME FlowInv, ClientReceive, Head(toClient).type = "WINDOW_UPDATE",
         Head(toClient).stream \in DOMAIN streams
  PROVE  FlowInv'
<1> DEFINE m == Head(toClient)
           n == m.increment
           i == m.stream
           tab == [streams EXCEPT ![i] = Grown(@, n)]
           w == remoteInitialWindowSize
<1>1. m.stream # 0 /\ m.stream \in StreamIds
  BY FlowFacts, BoundAssumption DEF StreamIds
<1>2. /\ toClient # <<>> /\ StreamWindowUpdate(i, n)
      /\ toClient' = Tail(toClient) /\ peer' = peer /\ body' = body
  BY <1>1 DEF ClientReceive, Handle
<1>3. m \in PeerFrames /\ n \in Nat
  <2>1. m \in PeerFrames
    BY <1>2, FlowFacts
  <2> QED BY <2>1, PeerFrameKinds
<1>4. toPeer' = toPeer \o Written \o <<>>
  BY DEF ClientReceive
<1>5. PICK p \in Ledger, d \in Dues, e \in Dues :
           /\ Reaches(Books(peer), toPeer, body, p) /\ Agree(p, d)
           /\ Delivers(d, m, e) /\ Brings(Tail(toClient), e)
  BY <1>2, NextFrame
<1>6. /\ Drain({i}, tab, connectionSendWindow)
      /\ UNCHANGED <<nextStreamId, remoteInitialWindowSize, maxFrameSize>>
  BY <1>2 DEF StreamWindowUpdate
<1>7. IInv'
  BY <1>1, <1>2, <1>3, FlowFacts, StreamWindowUpdateKeeps
<1>8. /\ IncrementOn(0)[m] = 0
      /\ \A s \in StreamIds : IncrementOn(s)[m] = IF s = i THEN n ELSE 0
  <2>1. m.stream # 0 /\ m.type = "WINDOW_UPDATE"
    BY <1>1
  <2> HIDE DEF m
  <2> QED BY <1>3, <2>1, PeerFrameKinds
<1>9. i \in DOMAIN streams /\ m.type # "SETTINGS"
  OBVIOUS
<1> HIDE DEF m, i, n
<1>10. /\ streams[i] \in SendState /\ i \in StreamIds
       /\ DOMAIN tab = DOMAIN streams
       /\ tab[i] = Grown(streams[i], n)
       /\ \A s \in DOMAIN streams : s # i => tab[s] = streams[s]
  BY <1>9, FlowFacts
<1>11. /\ tab[i] \in SendState
       /\ tab[i].localWindow = streams[i].localWindow + n
       /\ tab[i].sendQueue = streams[i].sendQueue
       /\ tab[i].sendQueueEndStream = streams[i].sendQueueEndStream
  BY <1>3, <1>10, GrownFields
<1>12. tab \in [DOMAIN tab -> SendState]
  BY <1>10, <1>11, FlowFacts
<1> HIDE DEF tab
<1>13. \A s \in StreamIds \cup {0} : d.credit[s] \in Nat /\ e.credit[s] \in Nat
  BY DuesFields
<1>14. Credit(p, e, tab, connectionSendWindow, w)
  <2>1. p.connection = connectionSendWindow + d.credit[0] /\ d.credit[0] = e.credit[0] + 0
    BY <1>5, <1>8 DEF Agree, Credit, Delivers
  <2>2. p.connection = connectionSendWindow + e.credit[0]
    BY <1>13, <2>1
  <2>3. ASSUME NEW s \in DOMAIN tab PROVE p.offset[s] = tab[s].localWindow - w + e.credit[s]
    <3>1. s \in StreamIds /\ streams[s] \in SendState /\ s \in DOMAIN streams
      BY <1>10, FlowFacts
    <3>2. p.offset[s] = streams[s].localWindow - w + d.credit[s]
      BY <1>5, <3>1 DEF Agree, Credit
    <3>3. d.credit[s] = e.credit[s] + (IF s = i THEN n ELSE 0)
      BY <1>5, <1>8, <3>1 DEF Delivers
    <3>4. tab[s].localWindow = streams[s].localWindow + (IF s = i THEN n ELSE 0)
      <4>1. streams[s].localWindow \in Int
        BY <3>1 DEF SendState
      <4> QED BY <1>10, <1>11, <3>1, <4>1
    <3>5. d.credit[s] \in Nat /\ e.credit[s] \in Nat /\ streams[s].localWindow \in Int /\ w \in Nat
      BY <1>13, <3>1, FlowFacts DEF SendState
    <3> HIDE DEF w
    <3> QED BY <1>3, <3>2, <3>3, <3>4, <3>5
  <2> QED BY <2>2, <2>3 DEF Credit
<1>15. /\ w \in Nat /\ Usable(p, w) /\ maxFrameSize <= p.frameSize
       /\ \A s \in StreamIds : p.received[s] = sent[s]
  BY <1>5, FlowFacts DEF Agree, Usable
<1>16. \A s \in StreamIds : Writing(body, tab, s, sent[s], s \in ended)
  BY <1>10, <1>11, FlowFacts DEF Writing
<1>17. /\ Written \in Seq(ClientFrames)
       /\ \E r \in Ledger : WritesTo(p, e, body, w, r)
       /\ \A s \in StreamIds : Writing(body, streams', s, sent'[s], s \in ended')
       /\ DOMAIN streams' = DOMAIN tab
  <2>1. {i} \subseteq DOMAIN tab /\ DOMAIN tab \subseteq StreamIds
    BY <1>9, <1>10, FlowFacts
  <2> HIDE DEF w
  <2> QED BY <1>6, <1>12, <1>14, <1>15, <1>16, <2>1, FlowFacts, DrainAgrees
<1>18. PICK r \in Ledger : WritesTo(p, e, body, w, r)
  BY <1>17
<1>19. toPeer' = toPeer \o Written
  BY <1>4, <1>17, FlowFacts
<1> QED BY <1>2, <1>5, <1>6, <1>7, <1>9, <1>10, <1>17, <1>18, <1>19, HandledKeeps DEF m

\* WINDOW_UPDATE on a stream the client has closed.
LEMMA LateUpdateHandled ==
  ASSUME FlowInv, ClientReceive, Head(toClient).type = "WINDOW_UPDATE",
         Head(toClient).stream # 0, Head(toClient).stream \notin DOMAIN streams
  PROVE  FlowInv'
<1> DEFINE m == Head(toClient)
           w == remoteInitialWindowSize
<1>1. /\ toClient # <<>> /\ UNCHANGED vars
      /\ toClient' = Tail(toClient) /\ peer' = peer /\ body' = body
  BY DEF ClientReceive, Handle, StreamWindowUpdate
<1>2. m \in PeerFrames /\ m.type # "SETTINGS"
  BY <1>1, FlowFacts
<1>3. toPeer' = toPeer \o Written \o <<>>
  BY DEF ClientReceive
<1>4. PICK p \in Ledger, d \in Dues, e \in Dues :
           /\ Reaches(Books(peer), toPeer, body, p) /\ Agree(p, d)
           /\ Delivers(d, m, e) /\ Brings(Tail(toClient), e)
  BY <1>1, NextFrame
<1>5. IInv' /\ UNCHANGED <<nextStreamId, streams, connectionSendWindow,
                        remoteInitialWindowSize, maxFrameSize, sent, ended>>
  BY <1>1, FlowFacts, ClientUnchanged
<1>6. /\ IncrementOn(0)[m] = 0
      /\ \A s \in DOMAIN streams : IncrementOn(s)[m] = 0
  <2>1. m.stream # 0 /\ m.stream \notin DOMAIN streams
    OBVIOUS
  <2> HIDE DEF m
  <2> QED BY <1>2, <2>1, FlowFacts, PeerFrameKinds
<1> HIDE DEF m
<1>7. Credit(p, e, streams, connectionSendWindow, w)
  <2>1. ASSUME NEW s \in StreamIds \cup {0}, IncrementOn(s)[m] = 0 PROVE d.credit[s] = e.credit[s]
    BY <1>4, <2>1, DuesFields DEF Delivers
  <2> QED BY <1>4, <1>6, <2>1, FlowFacts DEF Agree, Credit
<1>8. /\ w \in Nat /\ Usable(p, w) /\ maxFrameSize <= p.frameSize
      /\ \A s \in StreamIds : p.received[s] = sent[s]
  BY <1>4, FlowFacts DEF Agree, Usable
<1>9. /\ Written \in Seq(ClientFrames)
      /\ \E r \in Ledger : WritesTo(p, e, body, w, r)
      /\ \A s \in StreamIds : Writing(body, streams', s, sent'[s], s \in ended')
  <2> HIDE DEF w
  <2> QED BY <1>5, <1>7, <1>8, FlowFacts, SilenceAgrees
<1>10. PICK r \in Ledger : WritesTo(p, e, body, w, r)
  BY <1>9
<1>11. toPeer' = toPeer \o Written
  BY <1>3, <1>9, FlowFacts
<1> QED BY <1>1, <1>2, <1>4, <1>5, <1>9, <1>10, <1>11, HandledKeeps DEF m

\* The stream is closed: what it had queued is dropped.
LEMMA CloseHandled ==
  ASSUME FlowInv, ClientReceive, Head(toClient).type = "CLOSE"
  PROVE  FlowInv'
<1> DEFINE m == Head(toClient)
           w == remoteInitialWindowSize
           S == {m.stream} \cap DOMAIN streams
<1>1. /\ toClient # <<>> /\ Finalize(S)
      /\ toClient' = Tail(toClient) /\ peer' = peer /\ body' = body
  BY DEF ClientReceive, Handle
<1>2. m \in PeerFrames /\ m.type # "SETTINGS" /\ m.type # "WINDOW_UPDATE"
  BY <1>1, FlowFacts
<1>3. toPeer' = toPeer \o Written \o <<>>
  BY DEF ClientReceive
<1>4. PICK p \in Ledger, d \in Dues, e \in Dues :
           /\ Reaches(Books(peer), toPeer, body, p) /\ Agree(p, d)
           /\ Delivers(d, m, e) /\ Brings(Tail(toClient), e)
  BY <1>1, NextFrame
<1>5. /\ UNCHANGED <<nextStreamId, connectionSendWindow,
                     remoteInitialWindowSize, maxFrameSize, sent, ended>>
      /\ DOMAIN streams' \subseteq DOMAIN streams
      /\ \A s \in DOMAIN streams' : streams'[s] = streams[s]
  BY <1>1 DEF Finalize, history
<1>6. IInv'
  BY <1>1, FlowFacts, FinalizeKeeps
<1> HIDE DEF m
<1>7. \A s \in StreamIds \cup {0} : IncrementOn(s)[m] = 0
  BY <1>2, PeerFrameKinds
<1>8. Credit(p, e, streams, connectionSendWindow, w)
  <2>1. \A s \in StreamIds \cup {0} : d.credit[s] = e.credit[s]
    BY <1>4, <1>7, DuesFields DEF Delivers
  <2> QED BY <1>4, <2>1, FlowFacts DEF Agree, Credit
<1>9. /\ w \in Nat /\ Usable(p, w) /\ maxFrameSize <= p.frameSize
      /\ \A s \in StreamIds : p.received[s] = sent[s]
  BY <1>4, FlowFacts DEF Agree, Usable
<1>10. /\ Written \in Seq(ClientFrames)
       /\ \E r \in Ledger : WritesTo(p, e, body, w, r)
       /\ \A s \in StreamIds : Writing(body, streams', s, sent'[s], s \in ended')
  <2> HIDE DEF w
  <2> QED BY <1>5, <1>8, <1>9, FlowFacts, SilenceAgrees
<1>11. PICK r \in Ledger : WritesTo(p, e, body, w, r)
  BY <1>10
<1>12. toPeer' = toPeer \o Written
  BY <1>3, <1>10, FlowFacts
<1> QED BY <1>1, <1>2, <1>4, <1>5, <1>6, <1>10, <1>11, <1>12, HandledKeeps DEF m

\* MAX_FRAME_SIZE as the client keeps it never exceeds what a conforming peer asked for.
LEMMA ClampBound ==
  ASSUME NEW f \in SettingsFrames, "maxFrameSize" \in DOMAIN f
  PROVE  Clamp(f["maxFrameSize"]) <= f["maxFrameSize"]
<1>1. f["maxFrameSize"] \in Nat
  BY PeerAssumption DEF SettingsPayload
<1>2. f["maxFrameSize"] >= MinMaxFrameSize
  BY PeerFrameSizeAssumption
<1> QED BY <1>1, <1>2, FrameSizeAssumption DEF Clamp, Lesser

\* SETTINGS: the windows move, the queues are drained under the old MAX_FRAME_SIZE, and
\* the acknowledgement tells the peer where in the stream the new values begin.
LEMMA SettingsHandled ==
  ASSUME FlowInv, ClientReceive, Head(toClient).type = "SETTINGS"
  PROVE  FlowInv'
<1> DEFINE m == Head(toClient)
           f == m.settings
           has == "initialWindowSize" \in DOMAIN f
           w == IF has THEN f["initialWindowSize"] ELSE remoteInitialWindowSize
           delta == w - remoteInitialWindowSize
           S == IF has THEN DOMAIN streams ELSE {}
           tab == [s \in DOMAIN streams |-> Grown(streams[s], delta)]
<1>1. /\ toClient # <<>> /\ ApplySettings(f)
      /\ toClient' = Tail(toClient) /\ peer' = peer /\ body' = body
  BY DEF ClientReceive, Handle
<1>2. m \in PeerFrames /\ f \in SettingsFrames /\ m.type = "SETTINGS"
  <2>1. m \in PeerFrames /\ m.type = "SETTINGS"
    BY <1>1, FlowFacts
  <2> QED BY <2>1, PeerFrameKinds
<1>3. toPeer' = toPeer \o Written \o <<SettingsAck>>
  BY DEF ClientReceive
<1>4. PICK p \in Ledger, d \in Dues, e \in Dues :
           /\ Reaches(Books(peer), toPeer, body, p) /\ Agree(p, d)
           /\ Delivers(d, m, e) /\ Brings(Tail(toClient), e)
  BY <1>1, NextFrame
<1>5. /\ remoteInitialWindowSize' = w
      /\ Drain(S, tab, connectionSendWindow)
      /\ maxFrameSize' = IF "maxFrameSize" \in DOMAIN f THEN Clamp(f["maxFrameSize"])
                         ELSE maxFrameSize
      /\ nextStreamId' = nextStreamId
  BY <1>1 DEF ApplySettings
<1>6. IInv'
  BY <1>1, <1>2, FlowFacts, ApplySettingsKeeps
<1>7. \A s \in StreamIds \cup {0} : IncrementOn(s)[m] = 0
  <2> HIDE DEF m
  <2> QED BY <1>2, PeerFrameKinds
<1> HIDE DEF m
<1>8. /\ p.unacknowledged = d.settings /\ p.initial = remoteInitialWindowSize
      /\ maxFrameSize <= p.frameSize
      /\ d.settings # <<>> /\ Head(d.settings) = f /\ e.settings = Tail(d.settings)
      /\ \A s \in StreamIds : p.received[s] = sent[s]
      /\ Credit(p, d, streams, connectionSendWindow, remoteInitialWindowSize)
      /\ \A s \in StreamIds : s >= nextStreamId => p.offset[s] = 0 /\ d.credit[s] = 0
  BY <1>2, <1>4 DEF Agree, Delivers
<1> HIDE DEF f
<1>9. /\ w \in Nat /\ remoteInitialWindowSize \in Nat /\ delta \in Int
      /\ w = remoteInitialWindowSize + delta
      /\ w = Setting(f, "initialWindowSize", p.initial)
  <2>1. w = Setting(f, "initialWindowSize", p.initial)
    BY <1>8 DEF Setting
  <2>2. remoteInitialWindowSize \in Nat
    BY FlowFacts
  <2>3. w \in Nat
    BY <1>2, <1>8, <2>1, <2>2, SettingIsNat
  <2> HIDE DEF w
  <2> QED BY <2>1, <2>2, <2>3
<1>10. Usable(p, w)
  BY <1>8, <1>9 DEF Usable
<1>11. S \subseteq DOMAIN streams /\ DOMAIN tab = DOMAIN streams
  OBVIOUS
<1> HIDE DEF w, delta, S
<1>12. ASSUME NEW s \in DOMAIN streams
       PROVE  /\ s \in StreamIds /\ streams[s] \in SendState
              /\ tab[s] \in SendState
              /\ tab[s].localWindow = streams[s].localWindow + delta
              /\ tab[s].sendQueue = streams[s].sendQueue
              /\ tab[s].sendQueueEndStream = streams[s].sendQueueEndStream
  <2>1. tab[s] = Grown(streams[s], delta) /\ streams[s] \in SendState /\ s \in StreamIds
    BY FlowFacts
  <2> QED BY <1>9, <2>1, GrownFields
<1>13. tab \in [DOMAIN tab -> SendState]
  BY <1>11, <1>12
<1> HIDE DEF tab
<1>14. \A s \in StreamIds \cup {0} : e.credit[s] = d.credit[s] /\ d.credit[s] \in Nat
  <2>1. \A s \in StreamIds \cup {0} : d.credit[s] = e.credit[s] + 0
    BY <1>4, <1>7 DEF Delivers
  <2>2. \A s \in StreamIds \cup {0} : e.credit[s] \in Nat
    BY DuesFields
  <2> QED BY <2>1, <2>2
<1>15. Credit(p, e, tab, connectionSendWindow, w)
  <2>1. p.connection = connectionSendWindow + e.credit[0]
    BY <1>8, <1>14 DEF Credit
  <2>2. ASSUME NEW s \in DOMAIN tab PROVE p.offset[s] = tab[s].localWindow - w + e.credit[s]
    <3>1. s \in DOMAIN streams /\ s \in StreamIds /\ streams[s].localWindow \in Int
      BY <1>11, <1>12 DEF SendState
    <3>2. p.offset[s] = streams[s].localWindow - remoteInitialWindowSize + d.credit[s]
      BY <1>8, <3>1 DEF Credit
    <3>3. tab[s].localWindow = streams[s].localWindow + delta
      BY <1>12, <3>1
    <3>4. e.credit[s] = d.credit[s] /\ d.credit[s] \in Nat
      BY <1>14, <3>1
    <3> QED BY <1>9, <3>1, <3>2, <3>3, <3>4
  <2> QED BY <2>1, <2>2 DEF Credit
<1>16. \A s \in StreamIds : Writing(body, tab, s, sent[s], s \in ended)
  BY <1>11, <1>12, FlowFacts DEF Writing
<1>17. /\ Written \in Seq(ClientFrames)
       /\ \E r \in Ledger : WritesTo(p, e, body, w, r)
       /\ \A s \in StreamIds : Writing(body, streams', s, sent'[s], s \in ended')
       /\ DOMAIN streams' = DOMAIN tab
  <2>1. S \subseteq DOMAIN tab /\ DOMAIN tab \subseteq StreamIds
    BY <1>11, FlowFacts
  <2> QED BY <1>5, <1>8, <1>9, <1>10, <1>13, <1>15, <1>16, <2>1, FlowFacts, DrainAgrees, ZenonT(60)
<1>18. PICK r \in Ledger : WritesTo(p, e, body, w, r)
  BY <1>17
<1>19. /\ Reaches(p, Written, body, r)
       /\ r.initial = p.initial /\ r.frameSize = p.frameSize
       /\ r.unacknowledged = p.unacknowledged
       /\ Credit(r, e, streams', connectionSendWindow', w)
       /\ \A s \in StreamIds : r.received[s] = sent'[s]
       /\ \A s \in StreamIds \ DOMAIN streams' : r.offset[s] = p.offset[s]
  BY <1>18 DEF WritesTo
<1> DEFINE y == [initial |-> w, frameSize |-> Setting(f, "maxFrameSize", p.frameSize),
                 unacknowledged |-> Tail(p.unacknowledged), connection |-> r.connection,
                 offset |-> r.offset, received |-> r.received]
<1>20. y \in Ledger
  <2>1. Setting(f, "maxFrameSize", p.frameSize) \in Nat
    BY <1>2, SettingIsNat, LedgerFields
  <2>2. Tail(p.unacknowledged) \in Seq(SettingsFrames)
    BY <1>8, LedgerFields
  <2> QED BY <1>9, <2>1, <2>2, LedgerFields DEF Ledger
<1>21. PICK x \in Ledger :
         /\ x.initial = w /\ x.frameSize = Setting(f, "maxFrameSize", p.frameSize)
         /\ x.unacknowledged = Tail(p.unacknowledged) /\ x.connection = r.connection
         /\ x.offset = r.offset /\ x.received = r.received
  <2>1. /\ y.initial = w /\ y.frameSize = Setting(f, "maxFrameSize", p.frameSize)
        /\ y.unacknowledged = Tail(p.unacknowledged) /\ y.connection = r.connection
        /\ y.offset = r.offset /\ y.received = r.received
    OBVIOUS
  <2> HIDE DEF y
  <2> QED BY <1>20, <2>1
<1> HIDE DEF y
<1>22. /\ SettingsAck \in ClientFrames /\ SettingsAck.type = "SETTINGS_ACK"
       /\ <<SettingsAck>> \in Seq(ClientFrames)
  BY DEF SettingsAck, ClientFrames
<1>23. Reaches(r, <<SettingsAck>>, body, x)
  <2>1. Weight(SettingsAck) = 0 /\ \A s \in StreamIds : Octets(SettingsAck, s) = 0
    BY <1>22 DEF Weight, Octets
  <2>2. /\ r.connection - 0 = r.connection
        /\ \A s \in StreamIds : r.offset[s] - 0 = r.offset[s] /\ r.received[s] + 0 = r.received[s]
    BY LedgerFields
  <2>3. Arrives(r, SettingsAck, x)
    BY <1>8, <1>9, <1>19, <1>21, <1>22, <2>1, <2>2 DEF Arrives
  <2>4. Fits(r, SettingsAck, body)
    BY <1>22 DEF Fits
  <2> QED BY <1>21, <2>3, <2>4, ReachesByOne
<1>24. PICK t \in Seq(ClientFrames) : t = Written \o <<SettingsAck>>
  <2>1. Written \in Seq(ClientFrames) /\ <<SettingsAck>> \in Seq(ClientFrames)
    BY <1>17, <1>22
  <2>2. Written \o <<SettingsAck>> \in Seq(ClientFrames)
    BY <2>1
  <2> QED BY <2>2
<1>25. Reaches(p, t, body, x)
  BY <1>17, <1>19, <1>21, <1>22, <1>23, <1>24, ReachesJoin
<1>26. toPeer' = toPeer \o t
  <2>1. /\ toPeer \in Seq(ClientFrames) /\ Written \in Seq(ClientFrames)
        /\ <<SettingsAck>> \in Seq(ClientFrames)
    BY <1>17, <1>22, FlowFacts
  <2>2. (toPeer \o Written) \o <<SettingsAck>> = toPeer \o (Written \o <<SettingsAck>>)
    BY <2>1, ConcatAssociative
  <2> QED BY <1>3, <1>24, <2>2, Zenon
<1>27. maxFrameSize' <= x.frameSize
  <2>1. CASE "maxFrameSize" \in DOMAIN f
    BY <1>2, <1>5, <1>21, <2>1, ClampBound DEF Setting
  <2>2. CASE "maxFrameSize" \notin DOMAIN f
    BY <1>5, <1>8, <1>21, <2>2 DEF Setting
  <2> QED BY <2>1, <2>2
<1>28. Agree(x, e)'
  <2>1. Credit(x, e, streams, connectionSendWindow, remoteInitialWindowSize)'
    BY <1>5, <1>19, <1>21 DEF Credit
  <2>2. ASSUME NEW s \in StreamIds, s >= nextStreamId'
        PROVE  x.offset[s] = 0 /\ e.credit[s] = 0
    <3>1. s \notin DOMAIN streams'
      BY <1>6, <2>2, BoundAssumption DEF IInv, TypeOK, StreamIds
    <3> QED BY <1>5, <1>8, <1>14, <1>19, <1>21, <2>2, <3>1
  <2>3. /\ \A s \in StreamIds : x.received[s] = sent'[s]
        /\ x.initial = remoteInitialWindowSize'
        /\ x.unacknowledged = e.settings
    BY <1>5, <1>8, <1>19, <1>21
  <2> QED BY <1>27, <2>1, <2>2, <2>3 DEF Agree
<1> QED BY <1>1, <1>4, <1>5, <1>6, <1>17, <1>21, <1>25, <1>26, <1>28, ReceiveKeeps-----------------------------------------------------------------------------

\* Frames after one frame after a queue.
LEMMA AppendThenJoin ==
  ASSUME NEW F, NEW q \in Seq(F), NEW m \in F, NEW r \in Seq(F)
  PROVE  Append(q, m) \o r = q \o (<<m>> \o r)
<1>1. Append(q, m) = q \o <<m>> /\ <<m>> \in Seq(F)
  OBVIOUS
<1>2. (q \o <<m>>) \o r = q \o (<<m>> \o r)
  BY <1>1, ConcatAssociative
<1> QED BY <1>1, <1>2

\* A new stream with a whole body queued.
LEMMA NewBodyFields ==
  ASSUME TypeOK, NEW n \in Nat
  PROVE  LET d == Enqueued(NewSendState, n, TRUE) IN
         /\ d \in SendState
         /\ d.localWindow = remoteInitialWindowSize
         /\ d.sendQueue = n
         /\ d.sendQueueEndStream
<1> DEFINE r == [NewSendState EXCEPT !.sendQueue = @ + n]
<1>1. /\ NewSendState \in SendState /\ NewSendState.localWindow = remoteInitialWindowSize
      /\ NewSendState.sendQueue = 0
  BY DEF TypeOK, NewSendState, SendState
<1>2. /\ r \in SendState /\ r.localWindow = remoteInitialWindowSize /\ r.sendQueue = n
  BY <1>1 DEF SendState
<1>3. Enqueued(NewSendState, n, TRUE) = [r EXCEPT !.sendQueueEndStream = TRUE]
  <2>1. Enqueued(NewSendState, n, TRUE) = [r EXCEPT !.sendQueueEndStream = @ \/ TRUE]
    BY <1>1 DEF Enqueued, SendState
  <2>2. (r.sendQueueEndStream \/ TRUE) = TRUE
    OBVIOUS
  <2> HIDE DEF r
  <2> QED BY <2>1, <2>2
<1> HIDE DEF r
<1>4. LET d == [r EXCEPT !.sendQueueEndStream = TRUE] IN
      /\ d \in SendState
      /\ d.localWindow = r.localWindow /\ d.sendQueue = r.sendQueue /\ d.sendQueueEndStream
  BY <1>2 DEF SendState
<1> QED BY <1>2, <1>3, <1>4

\* The table of a request: the live streams, and stream id with n octets queued.
RequestTable(tab, id, n) ==
  /\ DOMAIN tab = DOMAIN streams \cup {id}
  /\ tab \in [DOMAIN tab -> SendState]
  /\ tab[id].localWindow = remoteInitialWindowSize
  /\ tab[id].sendQueue = n /\ tab[id].sendQueueEndStream
  /\ id \notin DOMAIN streams /\ DOMAIN tab \subseteq StreamIds
  /\ \A s \in DOMAIN streams : tab[s] = streams[s] /\ s # id

LEMMA RequestFields ==
  ASSUME FlowInv, NEW n \in 1..MaxBody, Request(n)
  PROVE  \E id, tab :
           /\ id \in StreamIds /\ id = nextStreamId
           /\ RequestTable(tab, id, n) /\ Drain({id}, tab, connectionSendWindow)
<1>1. PICK id \in StreamIds : id = nextStreamId
  BY DEF Request
<1> DEFINE st == Enqueued(NewSendState, n, TRUE)
           tab == WithStream(id, st)
<1>2. TypeOK /\ n \in Nat
  BY FlowFacts, BoundAssumption
<1>3. /\ st \in SendState /\ st.localWindow = remoteInitialWindowSize
      /\ st.sendQueue = n /\ st.sendQueueEndStream
  BY <1>2, NewBodyFields
<1>4. Drain({id}, tab, connectionSendWindow)
  BY <1>1 DEF Request
<1>5. /\ DOMAIN streams \subseteq StreamIds /\ id \notin DOMAIN streams
      /\ streams \in [DOMAIN streams -> SendState]
  BY <1>1, <1>2, BoundAssumption DEF TypeOK, StreamIds
<1> HIDE DEF st
<1>6. /\ DOMAIN tab = DOMAIN streams \cup {id}
      /\ tab = [s \in DOMAIN tab |-> IF s = id THEN st ELSE streams[s]]
  BY DEF WithStream
<1> HIDE DEF tab
<1>7. tab[id] = st /\ \A s \in DOMAIN streams : tab[s] = streams[s] /\ s # id
  BY <1>5, <1>6
<1>8. \A s \in DOMAIN tab : tab[s] \in SendState
  BY <1>3, <1>5, <1>6, <1>7
<1>9. RequestTable(tab, id, n)
  BY <1>3, <1>5, <1>6, <1>7, <1>8 DEF RequestTable
<1> QED BY <1>1, <1>4, <1>9

\* A request keeps the client's own accounts.
LEMMA RequestDrains ==
  ASSUME FlowInv, NEW n \in 1..MaxBody, Request(n)
  PROVE  IInv'
<1>1. PICK id, tab :
           /\ id \in StreamIds /\ id = nextStreamId
           /\ RequestTable(tab, id, n) /\ Drain({id}, tab, connectionSendWindow)
  BY RequestFields
<1>2. nextStreamId \in Nat
  BY FlowFacts, BoundAssumption DEF TypeOK
<1>3. /\ DOMAIN tab = DOMAIN streams \cup {id}
      /\ tab \in [DOMAIN tab -> SendState]
      /\ tab[id].localWindow = remoteInitialWindowSize
      /\ id \notin DOMAIN streams /\ DOMAIN tab \subseteq StreamIds
      /\ \A s \in DOMAIN streams : tab[s] = streams[s] /\ s # id
  BY <1>1 DEF RequestTable
<1>4. /\ Drain({id}, tab, connectionSendWindow) /\ nextStreamId' = id + 1
      /\ UNCHANGED <<remoteInitialWindowSize, maxFrameSize, granted, connectionGranted>>
  BY <1>1, <1>2 DEF Request
<1>5. IInv /\ TypeOK /\ MaxStreams \in Nat /\ StreamIds = 1..MaxStreams
  BY FlowFacts, BoundAssumption DEF StreamIds
<1>6. sent[id] = 0 /\ granted[id] = 0 /\ id \notin ended
  BY <1>1, <1>5 DEF TypeOK
<1>7. /\ nextStreamId' \in nextStreamId..MaxStreams + 1
      /\ DOMAIN tab \subseteq {s \in StreamIds : s < nextStreamId'}
      /\ \A s \in StreamIds : s >= nextStreamId' => granted'[s] = 0
  <2>1. \A s \in DOMAIN tab : s \in StreamIds /\ s < id + 1
    BY <1>1, <1>3, <1>5 DEF TypeOK
  <2>2. \A s \in StreamIds : s >= nextStreamId' => granted'[s] = 0
    BY <1>1, <1>4, <1>5 DEF TypeOK
  <2> QED BY <1>1, <1>4, <1>5, <2>1, <2>2
<1>8. \A s \in DOMAIN tab :
        tab[s].localWindow = remoteInitialWindowSize' + granted'[s] - sent[s]
  <2>1. ASSUME NEW s \in DOMAIN streams
        PROVE  tab[s].localWindow = remoteInitialWindowSize' + granted'[s] - sent[s]
    BY <1>3, <1>4, <1>5 DEF IInv, StreamCredit
  <2>2. tab[id].localWindow = remoteInitialWindowSize' + granted'[id] - sent[id]
    BY <1>3, <1>4, <1>5, <1>6 DEF TypeOK
  <2> QED BY <1>3, <2>1, <2>2
<1>9. /\ connectionSendWindow \in Nat
      /\ connectionSendWindow = DefaultInitialWindowSize + connectionGranted' - Total(sent)
  BY <1>4, <1>5 DEF TypeOK, IInv, ConnectionCredit
<1>10. \A s \in DOMAIN tab \ {id} :
         tab[s].sendQueue > 0 => connectionSendWindow = 0 \/ tab[s].localWindow <= 0
  BY <1>3, <1>5 DEF IInv, NoIdleCredit
<1>11. \A s \in ended \cap DOMAIN tab : tab[s].sendQueueEndStream /\ tab[s].sendQueue = 0
  BY <1>3, <1>5, <1>6 DEF IInv, NothingAfterEnd
<1>12. /\ remoteInitialWindowSize' \in Nat /\ granted' \in [StreamIds -> Nat]
       /\ maxFrameSize' \in MinMaxFrameSize..MaxMaxFrameSize /\ connectionGranted' \in Nat
       /\ {id} \subseteq DOMAIN tab
  BY <1>3, <1>4, <1>5 DEF TypeOK
<1> QED BY <1>3, <1>4, <1>5, <1>7, <1>8, <1>9, <1>10, <1>11, <1>12, DrainKeeps, ZenonT(60)

\* request(): openStream, HEADERS and the body, in one turn.
LEMMA RequestKeeps ==
  ASSUME FlowInv, NEW n \in 1..MaxBody, Request(n)
  PROVE  FlowInv'
<1>1. PICK id, tab :
           /\ id \in StreamIds /\ id = nextStreamId
           /\ RequestTable(tab, id, n) /\ Drain({id}, tab, connectionSendWindow)
  BY RequestFields
<1>2. nextStreamId \in Nat
  BY FlowFacts, BoundAssumption DEF TypeOK
<1>3. /\ DOMAIN tab = DOMAIN streams \cup {id}
      /\ tab \in [DOMAIN tab -> SendState]
      /\ tab[id].localWindow = remoteInitialWindowSize
      /\ tab[id].sendQueue = n /\ tab[id].sendQueueEndStream
      /\ id \notin DOMAIN streams /\ DOMAIN tab \subseteq StreamIds
      /\ \A s \in DOMAIN streams : tab[s] = streams[s] /\ s # id
  BY <1>1 DEF RequestTable
<1>4. /\ Drain({id}, tab, connectionSendWindow) /\ nextStreamId' = id + 1
      /\ toPeer' = Append(toPeer, Headers(id)) \o Written
      /\ body' = [body EXCEPT ![id] = n]
      /\ remoteInitialWindowSize' = remoteInitialWindowSize /\ maxFrameSize' = maxFrameSize
      /\ toClient' = toClient /\ peer' = peer
  BY <1>1, <1>2 DEF Request
<1>5. IInv' /\ n \in Nat /\ n > 0 /\ MaxBody \in Nat /\ n \in 0..MaxBody
  BY RequestDrains, BoundAssumption
<1>6. /\ FlowTypeOK /\ Bodies /\ TypeOK /\ peer \in PeerState
      /\ body \in [StreamIds -> 0..MaxBody] /\ body \in [StreamIds -> Nat]
      /\ sent \in [StreamIds -> Nat] /\ connectionSendWindow \in Nat
      /\ remoteInitialWindowSize \in Nat /\ maxFrameSize \in Nat \ {0}
      /\ toPeer \in Seq(ClientFrames) /\ toClient \in Seq(PeerFrames)
      /\ StreamIds = 1..MaxStreams /\ MaxStreams \in Nat
      /\ DOMAIN streams \subseteq StreamIds
  BY FlowFacts, BoundAssumption DEF FlowInv, FlowTypeOK, StreamIds
<1>7. PICK c \in [StreamIds -> Nat] : c = [body EXCEPT ![id] = n]
  BY <1>5, <1>6
<1>8. /\ c[id] = n /\ \A s \in StreamIds \ {id} : c[s] = body[s]
  BY <1>6, <1>7
<1>9. /\ body[id] = 0 /\ sent[id] = 0 /\ id \notin ended
      /\ peer.received[id] = 0 /\ id \notin peer.open /\ id \notin peer.finished
  <2>1. sent[id] = 0 /\ id \notin ended
    BY <1>1, <1>6 DEF TypeOK
  <2>2. Arriving(id) /\ body[id] \in Nat /\ peer.received[id] \in Nat
    BY <1>1, <1>6, PeerFields DEF Bodies
  <2>3. ~(id < nextStreamId)
    BY <1>1, <1>6
  <2>4. body[id] = 0
    BY <2>2, <2>3 DEF Arriving
  <2> QED BY <2>1, <2>2, <2>4 DEF Arriving
<1>10. PICK p \in Ledger, d \in Dues : InStep(p, d)
  BY DEF FlowInv
<1>11. /\ Reaches(Books(peer), toPeer, body, p) /\ Brings(toClient, d)
       /\ \A s \in StreamIds : p.received[s] = sent[s]
       /\ p.initial = remoteInitialWindowSize /\ maxFrameSize <= p.frameSize
       /\ p.unacknowledged = d.settings
       /\ p.connection = connectionSendWindow + d.credit[0]
       /\ \A s \in DOMAIN streams :
            p.offset[s] = streams[s].localWindow - remoteInitialWindowSize + d.credit[s]
       /\ \A s \in StreamIds : s >= nextStreamId => p.offset[s] = 0 /\ d.credit[s] = 0
  BY <1>10 DEF InStep, Agree, Credit
<1>12. Credit(p, d, tab, connectionSendWindow, remoteInitialWindowSize)
  <2>1. p.offset[id] = 0 /\ d.credit[id] = 0
    BY <1>1, <1>6, <1>11
  <2>2. p.offset[id] = tab[id].localWindow - remoteInitialWindowSize + d.credit[id]
    BY <1>3, <1>6, <2>1
  <2> QED BY <1>3, <1>11, <2>2 DEF Credit
<1>13. \A s \in StreamIds : Writing(c, tab, s, sent[s], s \in ended)
  <2>1. Writing(c, tab, id, sent[id], id \in ended)
    BY <1>3, <1>5, <1>8, <1>9 DEF Writing
  <2>2. ASSUME NEW s \in StreamIds, s # id PROVE Writing(c, tab, s, sent[s], s \in ended)
    <3>1. Writing(body, streams, s, sent[s], s \in ended)
      BY <1>6 DEF Bodies
    <3>2. c[s] = body[s] /\ (s \in DOMAIN tab => s \in DOMAIN streams /\ tab[s] = streams[s])
      BY <1>3, <1>8, <2>2
    <3> QED BY <3>1, <3>2 DEF Writing
  <2> QED BY <2>1, <2>2
<1>14. /\ Written \in Seq(ClientFrames)
       /\ \E r \in Ledger : WritesTo(p, d, c, remoteInitialWindowSize, r)
       /\ \A s \in StreamIds : Writing(c, streams', s, sent'[s], s \in ended')
       /\ DOMAIN streams' = DOMAIN tab
  <2> DEFINE w == remoteInitialWindowSize
  <2>1. Usable(p, w) /\ {id} \subseteq DOMAIN tab /\ w \in Nat
    BY <1>3, <1>6, <1>11 DEF Usable
  <2>2. maxFrameSize <= p.frameSize /\ \A s \in StreamIds : p.received[s] = sent[s]
    BY <1>11
  <2>3. tab \in [DOMAIN tab -> SendState] /\ DOMAIN tab \subseteq StreamIds
    BY <1>3
  <2>4. Drain({id}, tab, connectionSendWindow)
    BY <1>1
  <2> HIDE DEF w
  <2>5. /\ Written \in Seq(ClientFrames)
        /\ \E r \in Ledger : WritesTo(p, d, c, w, r)
        /\ \A s \in StreamIds : Writing(c, streams', s, sent'[s], s \in ended')
        /\ DOMAIN streams' = DOMAIN tab
    BY <1>12, <1>13, <2>1, <2>2, <2>3, <2>4, FlowFacts, DrainAgrees DEF w
  <2> QED BY <2>5 DEF w
<1>15. PICK r \in Ledger : WritesTo(p, d, c, remoteInitialWindowSize, r)
  BY <1>14
<1>16. /\ Headers(id) \in ClientFrames /\ <<Headers(id)>> \in Seq(ClientFrames)
       /\ Headers(id).type = "HEADERS" /\ Headers(id).stream = id
  BY <1>1 DEF Headers, ClientFrames
<1>17. Reaches(p, <<Headers(id)>>, c, p)
  <2>1. Weight(Headers(id)) = 0 /\ \A s \in StreamIds : Octets(Headers(id), s) = 0
    BY <1>16 DEF Weight, Octets
  <2>2. Arrives(p, Headers(id), p)
    BY <1>16, <2>1, LedgerFields DEF Arrives
  <2>3. Fits(p, Headers(id), c)
    BY <1>5, <1>8, <1>16 DEF Fits
  <2> QED BY <2>2, <2>3, ReachesByOne
<1>18. PICK t \in Seq(ClientFrames) : t = <<Headers(id)>> \o Written
  <2> DEFINE h == Headers(id)
             z == Written
  <2>1. <<h>> \in Seq(ClientFrames) /\ z \in Seq(ClientFrames)
    BY <1>14, <1>16
  <2> HIDE DEF h, z
  <2>2. <<h>> \o z \in Seq(ClientFrames)
    BY <2>1
  <2> QED BY <2>2 DEF h, z
<1>19. Reaches(p, t, c, r)
  <2>1. Reaches(p, Written, c, r)
    BY <1>15 DEF WritesTo
  <2> QED BY <1>14, <1>16, <1>17, <1>18, <2>1, ReachesJoin
<1>20. toPeer' = toPeer \o t
  <2> DEFINE h == Headers(id)
             z == Written
  <2>1. toPeer' = Append(toPeer, h) \o z /\ t = <<h>> \o z
    BY <1>4, <1>18
  <2>2. h \in ClientFrames /\ z \in Seq(ClientFrames)
    BY <1>14, <1>16
  <2> HIDE DEF h, z
  <2>3. Append(toPeer, h) \o z = toPeer \o (<<h>> \o z)
    BY <1>6, <2>2, AppendThenJoin, SMTT(30)
  <2> QED BY <2>1, <2>3
<1>21. Reaches(Books(peer), toPeer \o t, c, r)
  <2>1. \A s \in StreamIds : body[s] > 0 => c[s] = body[s]
    BY <1>8, <1>9
  <2>2. Reaches(Books(peer), toPeer, c, p)
    BY <1>6, <1>11, <2>1, ReachesWithBody
  <2>3. Books(peer) \in Ledger
    BY <1>6, BooksFields
  <2> QED BY <1>6, <1>19, <2>2, <2>3, ReachesJoin
<1>22. body' = c
  BY <1>4, <1>7
<1>23. FlowTypeOK'
  <2>1. body' \in [StreamIds -> 0..MaxBody]
    BY <1>4, <1>5, <1>6
  <2>2. toPeer' \in Seq(ClientFrames)
    BY <1>6, <1>20
  <2>3. TypeOK'
    BY <1>5 DEF IInv
  <2> QED BY <1>4, <1>6, <2>1, <2>2, <2>3 DEF FlowTypeOK
<1>24. Bodies'
  <2> SUFFICES ASSUME NEW s \in StreamIds
               PROVE  Writing(body, streams, s, sent[s], s \in ended)' /\ Arriving(s)'
    BY DEF Bodies
  <2>1. Writing(body, streams, s, sent[s], s \in ended)'
    BY <1>14, <1>22 DEF Writing
  <2>2. Arriving(s)'
    <3>1. CASE s = id
      BY <1>1, <1>4, <1>5, <1>6, <1>8, <1>9, <1>22, <3>1, SMTT(30) DEF Arriving
    <3>2. CASE s # id
      <4>1. Arriving(s) /\ c[s] = body[s]
        BY <1>6, <1>8, <3>2 DEF Bodies
      <4>2. s < nextStreamId' <=> s < nextStreamId
        BY <1>1, <1>4, <1>6, <3>2, SMTT(30)
      <4> QED BY <1>4, <1>22, <4>1, <4>2, SMTT(30) DEF Arriving
    <3> QED BY <3>1, <3>2
  <2> QED BY <2>1, <2>2
<1>25. Agree(r, d)'
  <2>1. /\ r.initial = p.initial /\ r.frameSize = p.frameSize
        /\ r.unacknowledged = p.unacknowledged
        /\ Credit(r, d, streams', connectionSendWindow', remoteInitialWindowSize)
        /\ \A s \in StreamIds : r.received[s] = sent'[s]
        /\ \A s \in StreamIds \ DOMAIN streams' : r.offset[s] = p.offset[s]
    BY <1>15 DEF WritesTo
  <2>2. Credit(r, d, streams, connectionSendWindow, remoteInitialWindowSize)'
    <3>1. remoteInitialWindowSize' = remoteInitialWindowSize
      BY <1>4
    <3> QED BY <2>1, <3>1 DEF Credit
  <2>3. ASSUME NEW s \in StreamIds, s >= nextStreamId' PROVE r.offset[s] = 0 /\ d.credit[s] = 0
    <3>1. s >= nextStreamId /\ s # id
      <4>1. nextStreamId' = nextStreamId + 1 /\ id = nextStreamId /\ s \in Nat
        BY <1>1, <1>4, <1>6
      <4> QED BY <1>2, <2>3, <4>1
    <3>2. s \notin DOMAIN streams
      BY <1>6, <3>1 DEF TypeOK
    <3>3. s \notin DOMAIN streams'
      BY <1>3, <1>14, <3>1, <3>2
    <3> QED BY <1>11, <2>1, <3>1, <3>3
  <2> QED BY <1>4, <1>11, <2>1, <2>2, <2>3 DEF Agree
<1>26. InStep(r, d)'
  <2>1. Reaches(Books(peer'), toPeer', body', r)
    BY <1>4, <1>20, <1>21, <1>22
  <2>2. Brings(toClient', d)
    BY <1>4, <1>11
  <2> QED BY <1>25, <2>1, <2>2 DEF InStep, Reaches, Brings, Follows
<1> QED BY <1>5, <1>23, <1>24, <1>26 DEF FlowInv

-----------------------------------------------------------------------------
\* The read loop dispatches any frame.
LEMMA ClientReceiveKeeps ==
  ASSUME FlowInv, ClientReceive
  PROVE  FlowInv'
<1>1. Head(toClient) \in PeerFrames
  BY FlowFacts DEF ClientReceive
<1>2. Head(toClient).type \in {"WINDOW_UPDATE", "SETTINGS", "CLOSE"}
  BY <1>1, PeerFrameKinds
<1>3. CASE Head(toClient).type = "WINDOW_UPDATE"
  BY <1>3, ConnectionUpdateHandled, StreamUpdateHandled, LateUpdateHandled
<1> QED BY <1>2, <1>3, CloseHandled, SettingsHandled

\* A stuttering step.
LEMMA FlowUnchanged ==
  ASSUME FlowInv, UNCHANGED flowVars
  PROVE  FlowInv'
<1>1. /\ UNCHANGED vars /\ toPeer' = toPeer /\ toClient' = toClient
      /\ peer' = peer /\ body' = body
  BY DEF flowVars
<1>2. IInv' /\ TypeOK'
      /\ UNCHANGED <<nextStreamId, streams, connectionSendWindow,
                     remoteInitialWindowSize, maxFrameSize, sent, ended>>
  BY <1>1, FlowFacts, ClientUnchanged
<1>3. FlowTypeOK'
  BY <1>1, <1>2 DEF FlowInv, FlowTypeOK
<1>4. Bodies'
  BY <1>1, <1>2 DEF FlowInv, Bodies, Writing, Arriving
<1>5. PICK p \in Ledger, d \in Dues : InStep(p, d)
  BY DEF FlowInv
<1>6. InStep(p, d)'
  <2>1. Agree(p, d)'
    BY <1>2, <1>5 DEF InStep, Agree, Credit
  <2>2. Reaches(Books(peer'), toPeer', body', p) /\ Brings(toClient', d)
    BY <1>1, <1>5 DEF InStep
  <2> QED BY <2>1, <2>2 DEF InStep, Reaches, Brings, Follows
<1> QED BY <1>2, <1>3, <1>4, <1>6 DEF FlowInv

\* Every step keeps the invariant.
LEMMA NextFlowInv == FlowInv /\ [FlowNext]_flowVars => FlowInv'
<1> SUFFICES ASSUME FlowInv, [FlowNext]_flowVars PROVE FlowInv'
  OBVIOUS
<1>1. CASE \E n \in 1..MaxBody : Request(n)
  BY <1>1, RequestKeeps
<1>2. CASE ClientReceive
  BY <1>2, ClientReceiveKeeps
<1>3. CASE PeerReceive
  BY <1>3, PeerReceiveKeeps
<1>4. CASE \E n \in Increments : PeerGrantConnection(n)
  BY <1>4, PeerGrantConnectionKeeps
<1>5. CASE \E s \in StreamIds, n \in Increments : PeerGrantStream(s, n)
  BY <1>5, PeerGrantStreamKeeps
<1>6. CASE \E f \in SettingsFrames : PeerSettings(f)
  BY <1>6, PeerSettingsKeeps
<1>7. CASE \E s \in StreamIds : PeerClose(s)
  BY <1>7, PeerCloseKeeps
<1>8. CASE UNCHANGED flowVars
  BY <1>8, FlowUnchanged
<1> QED BY <1>1, <1>2, <1>3, <1>4, <1>5, <1>6, <1>7, <1>8 DEF FlowNext

LEMMA FlowInvariance == FlowSpec => []FlowInv
BY FlowInitInv, NextFlowInv, PTL DEF FlowSpec

\* Type correctness of the whole connection: in particular the connection send window
\* never goes below zero, and every frame in flight is a well-formed one.
THEOREM FlowTypeCorrect == FlowSpec => []FlowTypeOK
<1>1. FlowInv => FlowTypeOK
  BY DEF FlowInv
<1> QED BY <1>1, FlowInvariance, PTL

\* What the next frame finds.
LEMMA FirstFits ==
  ASSUME FlowInv, toPeer # <<>>
  PROVE  /\ Head(toPeer) \in ClientFrames /\ peer \in PeerState
         /\ Fits(Books(peer), Head(toPeer), body)
         /\ Head(toPeer).type = "SETTINGS_ACK" => peer.unacknowledged # <<>>
<1>1. toPeer \in Seq(ClientFrames) /\ peer \in PeerState
  BY DEF FlowInv, FlowTypeOK
<1>2. PICK p \in Ledger, d \in Dues : InStep(p, d)
  BY DEF FlowInv
<1>3. \E x \in Ledger : Fits(Books(peer), Head(toPeer), body)
                        /\ Arrives(Books(peer), Head(toPeer), x)
                        /\ Reaches(x, Tail(toPeer), body, p)
  BY <1>1, <1>2, ReachesFirst DEF InStep
<1>4. Head(toPeer).type = "SETTINGS_ACK" => Books(peer).unacknowledged # <<>>
  BY <1>3 DEF Arrives
<1> QED BY <1>1, <1>3, <1>4, BooksFields

\* No DATA frame exceeds the credit the peer accounts for when it arrives, on the
\* connection or on its stream, whatever crossed on the way.
THEOREM NothingOverruns == FlowSpec => []NoOverrun
<1>1. FlowInv => NoOverrun
  <2> DEFINE m == Head(toPeer)
  <2> SUFFICES ASSUME FlowInv, toPeer # <<>>, m.type = "DATA"
               PROVE  /\ m.length <= peer.connection
                      /\ \E w \in UsableInitial : m.length <= w + peer.offset[m.stream]
    BY DEF NoOverrun
  <2>1. peer \in PeerState /\ Fits(Books(peer), m, body)
    BY FirstFits
  <2> HIDE DEF m
  <2>2. PICK w \in Nat : Usable(Books(peer), w) /\ m.length <= w + Books(peer).offset[m.stream]
    BY <2>1 DEF Fits
  <2>3. m.length <= peer.connection /\ m.length <= w + peer.offset[m.stream]
    BY <2>1, <2>2, BooksFields DEF Fits
  <2>4. w \in UsableInitial
    BY <2>1, <2>2, BooksFields DEF Usable, UsableInitial
  <2> QED BY <2>3, <2>4
<1> QED BY <1>1, FlowInvariance, PTL

\* No DATA frame is empty, or longer than the MAX_FRAME_SIZE the client has acknowledged
\* when it arrives.
THEOREM FramesAlwaysFit == FlowSpec => []FramesFit
<1>1. FlowInv => FramesFit
  <2> DEFINE m == Head(toPeer)
  <2> SUFFICES ASSUME FlowInv, toPeer # <<>>, m.type = "DATA"
               PROVE  m.length \in 1..peer.frameSize
    BY DEF FramesFit
  <2>1. peer \in PeerState /\ Fits(Books(peer), m, body)
    BY FirstFits
  <2> HIDE DEF m
  <2> QED BY <2>1, BooksFields DEF Fits
<1> QED BY <1>1, FlowInvariance, PTL

LEMMA SumIsNat ==
  ASSUME NEW F, NEW q \in Seq(F), NEW w \in [F -> Nat]
  PROVE  SumOf(q, w) \in Nat
<1>1. Len(q) \in 0..Len(q)
  OBVIOUS
<1> QED BY <1>1, SumsEquation DEF SumOf

\* What is owed less what is in flight.
LEMMA Balance ==
  ASSUME NEW a \in Int, NEW b \in Int, NEW x \in Nat, NEW y \in Nat, NEW c,
         c = a - x, c = b + y
  PROVE  b + x + y = a
OBVIOUS

\* The two ends never drift apart: what the client may still send, with what is in
\* flight either way, is what the peer believes it may.
THEOREM WindowsNeverDrift == FlowSpec => []WindowsAgree
<1>1. FlowInv => WindowsAgree
  <2> SUFFICES ASSUME FlowInv PROVE WindowsAgree
    OBVIOUS
  <2>1. /\ toPeer \in Seq(ClientFrames) /\ toClient \in Seq(PeerFrames) /\ peer \in PeerState
        /\ connectionSendWindow \in Nat /\ remoteInitialWindowSize \in Nat
        /\ DOMAIN streams \subseteq StreamIds /\ streams \in [DOMAIN streams -> SendState]
    BY FlowFacts DEF FlowInv, FlowTypeOK
  <2>2. PICK p \in Ledger, d \in Dues : InStep(p, d)
    BY DEF FlowInv
  <2>3. /\ Reaches(Books(peer), toPeer, body, p) /\ Brings(toClient, d)
        /\ p.connection = connectionSendWindow + d.credit[0]
        /\ \A s \in DOMAIN streams :
             p.offset[s] = streams[s].localWindow - remoteInitialWindowSize + d.credit[s]
    BY <2>2 DEF InStep, Agree, Credit
  <2>4. /\ p.connection = peer.connection - SumOf(toPeer, LengthOn(StreamIds))
        /\ \A s \in StreamIds : p.offset[s] = peer.offset[s] - SumOf(toPeer, LengthOn({s}))
    <3>1. Books(peer) \in Ledger /\ Books(peer).connection = peer.connection
          /\ Books(peer).offset = peer.offset
      BY <2>1, BooksFields
    <3>2. /\ p.connection = Books(peer).connection - SumOf(toPeer, LengthOn(StreamIds))
          /\ \A s \in StreamIds :
               p.offset[s] = Books(peer).offset[s] - SumOf(toPeer, LengthOn({s}))
      BY <2>1, <2>3, <3>1, ReachesTakes
    <3> QED BY <3>1, <3>2
  <2>5. \A s \in StreamIds \cup {0} :
          d.credit[s] = SumOf(toClient, IncrementOn(s)) /\ d.credit[s] \in Nat
    BY <2>1, <2>3, BringsCredit, DuesFields
  <2>6. /\ SumOf(toPeer, LengthOn(StreamIds)) \in Nat
        /\ \A s \in StreamIds : SumOf(toPeer, LengthOn({s})) \in Nat
    <3>1. LengthOn(StreamIds) \in [ClientFrames -> Nat]
          /\ \A s \in StreamIds : LengthOn({s}) \in [ClientFrames -> Nat]
      BY WeightFunctions
    <3>2. SumOf(toPeer, LengthOn(StreamIds)) \in Nat
      BY <2>1, <3>1, SumIsNat
    <3>3. ASSUME NEW s \in StreamIds PROVE SumOf(toPeer, LengthOn({s})) \in Nat
      <4> DEFINE w == LengthOn({s})
      <4>1. w \in [ClientFrames -> Nat]
        BY <3>1
      <4> HIDE DEF w
      <4>2. SumOf(toPeer, w) \in Nat
        BY <2>1, <4>1, SumIsNat
      <4> QED BY <4>2 DEF w
    <3> QED BY <3>2, <3>3
  <2>7. connectionSendWindow + SumOf(toPeer, LengthOn(StreamIds)) + SumOf(toClient, IncrementOn(0))
          = peer.connection
    <3> DEFINE x == SumOf(toPeer, LengthOn(StreamIds))
               y == SumOf(toClient, IncrementOn(0))
    <3>1. peer.connection \in Int /\ connectionSendWindow \in Int
      BY <2>1, PeerFields
    <3>2. x \in Nat /\ y \in Nat
      BY <2>5, <2>6
    <3>3. p.connection = peer.connection - x /\ p.connection = connectionSendWindow + y
      BY <2>3, <2>4, <2>5
    <3> HIDE DEF x, y
    <3>4. connectionSendWindow + x + y = peer.connection
      BY <3>1, <3>2, <3>3, Balance
    <3> QED BY <3>4 DEF x, y
  <2>8. ASSUME NEW s \in DOMAIN streams
        PROVE  streams[s].localWindow - remoteInitialWindowSize
                 + SumOf(toPeer, LengthOn({s})) + SumOf(toClient, IncrementOn(s)) = peer.offset[s]
    <3>1. s \in StreamIds /\ streams[s] \in SendState
      BY <2>1
    <3>2. peer.offset[s] \in Int /\ streams[s].localWindow \in Int
      BY <2>1, <3>1, PeerFields DEF SendState
    <3> DEFINE x == SumOf(toPeer, LengthOn({s}))
               y == SumOf(toClient, IncrementOn(s))
               left == streams[s].localWindow - remoteInitialWindowSize
    <3>3. x \in Nat /\ y \in Nat /\ left \in Int
      BY <2>1, <2>5, <2>6, <3>1, <3>2
    <3>4. d.credit[s] = y /\ p.offset[s] = peer.offset[s] - x
      BY <2>4, <2>5, <3>1
    <3>5. p.offset[s] = left + d.credit[s]
      BY <2>3
    <3> HIDE DEF x, y, left
    <3>6. p.offset[s] = left + y
      BY <3>4, <3>5
    <3>7. left + x + y = peer.offset[s]
      BY <3>2, <3>3, <3>4, <3>6, Balance
    <3> QED BY <3>7 DEF x, y, left
  <2> QED BY <2>7, <2>8 DEF WindowsAgree
<1> QED BY <1>1, FlowInvariance, PTL

\* END_STREAM means the whole body: every octet has arrived and none is in flight.
THEOREM EndIsWholeBody == FlowSpec => []EndMeansWholeBody
<1>1. FlowInv => EndMeansWholeBody
  <2> SUFFICES ASSUME FlowInv, NEW s \in peer.finished
               PROVE  /\ peer.received[s] = body[s]
                      /\ \A i \in DOMAIN toPeer : ~(toPeer[i].type = "DATA" /\ toPeer[i].stream = s)
    BY DEF EndMeansWholeBody
  <2>1. toPeer \in Seq(ClientFrames) /\ peer \in PeerState /\ body \in [StreamIds -> Nat]
    BY FlowFacts DEF FlowInv, FlowTypeOK
  <2>2. s \in StreamIds
    BY <2>1, PeerFields
  <2>3. peer.received[s] = body[s]
    BY <2>2 DEF FlowInv, Bodies, Arriving
  <2>4. PICK p \in Ledger, d \in Dues : InStep(p, d)
    BY DEF FlowInv
  <2>5. \A i \in 1..Len(toPeer) : ~(toPeer[i].type = "DATA" /\ toPeer[i].stream = s)
    <3>1. Books(peer) \in Ledger /\ Books(peer).received[s] = body[s]
      BY <2>1, <2>3, BooksFields
    <3>2. Reaches(Books(peer), toPeer, body, p)
      BY <2>4 DEF InStep
    <3> QED BY <2>1, <2>2, <3>1, <3>2, ReachesNoMore
  <2>6. DOMAIN toPeer = 1..Len(toPeer)
    BY <2>1
  <2> QED BY <2>3, <2>5, <2>6
<1> QED BY <1>1, FlowInvariance, PTL

-----------------------------------------------------------------------------
\* The streams the client has closed.
Gone == {s \in StreamIds : s < nextStreamId} \ DOMAIN streams

\* A request begins its body.
LEMMA RequestBegins ==
  ASSUME FlowInv, NEW n \in 1..MaxBody, Request(n)
  PROVE  \E s \in StreamIds :
           /\ body[s] = 0 /\ body' = [body EXCEPT ![s] = n]
           /\ peer' = peer /\ Gone' = Gone
<1>1. PICK id, tab :
           /\ id \in StreamIds /\ id = nextStreamId
           /\ RequestTable(tab, id, n) /\ Drain({id}, tab, connectionSendWindow)
  BY RequestFields
<1>2. body' = [body EXCEPT ![id] = n] /\ peer' = peer /\ nextStreamId' = id + 1
  BY <1>1 DEF Request
<1>3. body[id] = 0
  <2>1. Arriving(id) /\ body[id] \in Nat
    BY <1>1, FlowFacts DEF FlowInv, Bodies
  <2>2. ~(id < nextStreamId)
    BY <1>1, FlowFacts, BoundAssumption DEF TypeOK
  <2> QED BY <2>1, <2>2 DEF Arriving
<1>4. Gone' = Gone
  <2>1. DOMAIN streams' = DOMAIN streams \cup {id}
    BY <1>1 DEF Drain, RequestTable
  <2>2. \A s \in StreamIds : s < nextStreamId' <=> s < nextStreamId \/ s = id
    BY <1>1, <1>2, BoundAssumption DEF StreamIds
  <2>3. ~(id < nextStreamId)
    BY <1>1, BoundAssumption DEF StreamIds
  <2> QED BY <2>1, <2>2, <2>3 DEF Gone
<1> QED BY <1>1, <1>2, <1>3, <1>4

\* A frame handled by the client closes at most one stream, which has a body.
LEMMA ReceiveCloses ==
  ASSUME FlowInv, ClientReceive
  PROVE  /\ body' = body /\ peer' = peer
         /\ Gone' = Gone \/ \E s \in StreamIds : body[s] > 0 /\ Gone' = Gone \cup {s}
<1> DEFINE m == Head(toClient)
<1>1. m \in PeerFrames /\ Handle(m) /\ body' = body /\ peer' = peer
  BY FlowFacts DEF ClientReceive
<1> HIDE DEF m
<1>2. CASE m.type = "WINDOW_UPDATE"
  <2>1. CASE m.stream = 0
    <3>1. ConnectionWindowUpdate(m.increment)
      BY <1>1, <1>2, <2>1 DEF Handle
    <3> QED BY <1>1, <3>1 DEF ConnectionWindowUpdate, Drain, Gone
  <2>2. CASE m.stream # 0
    <3>1. StreamWindowUpdate(m.stream, m.increment)
      BY <1>1, <1>2, <2>2 DEF Handle
    <3>2. CASE m.stream \in DOMAIN streams
      <4>1. nextStreamId' = nextStreamId /\ DOMAIN streams' = DOMAIN streams
        BY <3>1, <3>2 DEF StreamWindowUpdate, Drain
      <4> QED BY <1>1, <4>1 DEF Gone
    <3>3. CASE m.stream \notin DOMAIN streams
      BY <1>1, <3>1, <3>3 DEF StreamWindowUpdate, Gone, vars, manager
    <3> QED BY <3>2, <3>3
  <2> QED BY <2>1, <2>2
<1>3. CASE m.type = "SETTINGS"
  <2>1. ApplySettings(m.settings)
    BY <1>1, <1>3 DEF Handle
  <2>2. nextStreamId' = nextStreamId /\ DOMAIN streams' = DOMAIN streams
    BY <2>1 DEF ApplySettings, Drain
  <2> QED BY <1>1, <2>2 DEF Gone
<1>4. CASE m.type = "CLOSE"
  <2>1. Finalize({m.stream} \cap DOMAIN streams)
    BY <1>1, <1>4 DEF Handle
  <2>2. nextStreamId' = nextStreamId /\ DOMAIN streams' = DOMAIN streams \ {m.stream}
    BY <2>1 DEF Finalize
  <2>3. CASE m.stream \in DOMAIN streams
    <3>1. m.stream \in StreamIds /\ m.stream < nextStreamId
      BY <2>3, FlowFacts DEF TypeOK
    <3>2. body[m.stream] > 0
      BY <3>1 DEF FlowInv, Bodies, Arriving
    <3>3. Gone' = Gone \cup {m.stream}
      BY <2>2, <2>3, <3>1 DEF Gone
    <3> QED BY <1>1, <3>1, <3>2, <3>3
  <2>4. CASE m.stream \notin DOMAIN streams
    BY <1>1, <2>2, <2>4 DEF Gone
  <2> QED BY <2>3, <2>4
<1> QED BY <1>1, <1>2, <1>3, <1>4, PeerFrameKinds

\* A frame the peer reads brings octets of a body that is not complete, or none.
LEMMA PeerReceiveArrives ==
  ASSUME FlowInv, PeerReceive
  PROVE  /\ body' = body /\ Gone' = Gone
         /\ \/ peer'.received = peer.received /\ peer'.finished = peer.finished
            \/ \E s \in StreamIds, n \in 1..MaxBody :
                 /\ s \notin peer.finished /\ peer.received[s] + n <= body[s]
                 /\ peer'.received = [peer.received EXCEPT ![s] = @ + n]
                 /\ peer'.finished =
                      IF peer.received[s] + n = body[s] THEN peer.finished \cup {s}
                      ELSE peer.finished
<1> DEFINE m == Head(toPeer)
<1>1. /\ toPeer # <<>> /\ peer' = Account(m) /\ body' = body /\ UNCHANGED vars
  BY DEF PeerReceive
<1>2. Gone' = Gone
  BY <1>1 DEF Gone, vars, manager
<1>3. /\ m \in ClientFrames /\ peer \in PeerState /\ Fits(Books(peer), m, body)
      /\ m.type = "SETTINGS_ACK" => peer.unacknowledged # <<>>
  BY <1>1, FirstFits
<1> HIDE DEF m
<1>4. /\ peer' \in PeerState /\ Arrives(Books(peer), m, Books(peer'))
      /\ peer'.finished = peer.finished \cup (IF m.type = "DATA" /\ m.endStream THEN {m.stream} ELSE {})
  BY <1>1, <1>3, AccountFields
<1>5. /\ peer.received \in [StreamIds -> Nat] /\ peer'.received \in [StreamIds -> Nat]
      /\ \A s \in StreamIds : peer'.received[s] = peer.received[s] + Octets(m, s)
  BY <1>3, <1>4, BooksFields, PeerFields DEF Arrives
<1>6. CASE m.type = "DATA"
  <2>1. PICK s \in StreamIds, n \in Nat : s = m.stream /\ n = m.length
    BY <1>3, <1>6, FrameKinds
  <2>2. /\ n \in 1..peer.frameSize /\ peer.received[s] + n <= body[s]
        /\ m.endStream <=> peer.received[s] + n = body[s]
    BY <1>3, <1>6, <2>1, BooksFields DEF Fits
  <2>3. peer.received[s] \in Nat /\ body[s] \in 0..MaxBody /\ MaxBody \in Nat /\ Arriving(s)
        /\ peer.frameSize \in Nat
    BY <1>3, <1>5, PeerFields, BoundAssumption DEF FlowInv, FlowTypeOK, Bodies
  <2>4. n \in 1..MaxBody
    BY <2>2, <2>3
  <2>5. s \notin peer.finished
    BY <2>2, <2>3 DEF Arriving
  <2>6. peer'.received = [peer.received EXCEPT ![s] = @ + n]
    <3>1. \A t \in StreamIds : Octets(m, t) = IF t = s THEN n ELSE 0
      BY <1>6, <2>1 DEF Octets
    <3>2. \A t \in StreamIds : peer'.received[t] = IF t = s THEN peer.received[t] + n
                                                   ELSE peer.received[t]
      BY <1>5, <3>1
    <3> QED BY <1>5, <3>2
  <2>7. peer'.finished = IF peer.received[s] + n = body[s] THEN peer.finished \cup {s}
                         ELSE peer.finished
    BY <1>4, <1>6, <2>1, <2>2
  <2> QED BY <1>1, <1>2, <2>2, <2>4, <2>5, <2>6, <2>7
<1>7. CASE m.type # "DATA"
  <2>1. \A s \in StreamIds : peer'.received[s] = peer.received[s]
    BY <1>5, <1>7 DEF Octets
  <2>2. peer'.received = peer.received
    BY <1>5, <2>1
  <2>3. peer'.finished = peer.finished
    BY <1>4, <1>7
  <2> QED BY <1>1, <1>2, <2>2, <2>3
<1> QED BY <1>6, <1>7

\* What the peer writes moves no body.
LEMMA PeerWrites ==
  ASSUME FlowInv,
         \/ \E n \in Increments : PeerGrantConnection(n)
         \/ \E s \in StreamIds, n \in Increments : PeerGrantStream(s, n)
         \/ \E f \in SettingsFrames : PeerSettings(f)
         \/ \E s \in StreamIds : PeerClose(s)
  PROVE  /\ body' = body /\ Gone' = Gone
         /\ peer'.received = peer.received /\ peer'.finished = peer.finished
<1>1. peer \in PeerState
  BY DEF FlowInv, FlowTypeOK
<1>2. body' = body /\ Gone' = Gone
  <2>1. body' = body /\ UNCHANGED vars
    BY DEF PeerGrantConnection, PeerGrantStream, PeerSettings, PeerClose, PeerSend
  <2> QED BY <2>1 DEF Gone, vars, manager
<1>3. peer'.received = peer.received /\ peer'.finished = peer.finished
  <2>1. CASE \E n \in Increments : PeerGrantConnection(n)
    BY <1>1, <2>1 DEF PeerGrantConnection, PeerSend, PeerState
  <2>2. CASE \E s \in StreamIds, n \in Increments : PeerGrantStream(s, n)
    BY <1>1, <2>2 DEF PeerGrantStream, PeerSend, PeerState
  <2>3. CASE \E f \in SettingsFrames : PeerSettings(f)
    <3>1. PICK f \in SettingsFrames : PeerSettings(f)
      BY <2>3
    <3> DEFINE x == [peer EXCEPT !.unacknowledged = Append(@, f)]
    <3>2. /\ x.received = peer.received /\ x.finished = peer.finished
          /\ DOMAIN x = DOMAIN peer /\ "settingsSent" \in DOMAIN x
          /\ x.settingsSent = peer.settingsSent
          /\ "received" \in DOMAIN x /\ "finished" \in DOMAIN x
      BY <1>1 DEF PeerState
    <3>3. peer' = [x EXCEPT !.settingsSent = @ + 1]
      BY <1>1, <3>1 DEF PeerSettings, PeerSend, PeerState
    <3> HIDE DEF x
    <3> QED BY <3>2, <3>3
  <2>4. CASE \E s \in StreamIds : PeerClose(s)
    BY <1>1, <2>4 DEF PeerClose, PeerSend, PeerState
  <2> QED BY <2>1, <2>2, <2>3, <2>4
<1> QED BY <1>2, <1>3

\* Every step is one of the abstract promise, or changes nothing it speaks of.
LEMMA StepTransfers ==
  ASSUME FlowInv, [FlowNext]_flowVars
  PROVE  [Transfer!Next]_Transfer!vars
<1>0. ASSUME body' = body, peer'.received = peer.received, peer'.finished = peer.finished,
             Gone' = Gone
      PROVE  UNCHANGED Transfer!vars
  BY <1>0 DEF Transfer!vars, Gone
<1>1. CASE \E n \in 1..MaxBody : Request(n)
  <2>1. PICK n \in 1..MaxBody : Request(n)
    BY <1>1
  <2>2. PICK s \in StreamIds :
           /\ body[s] = 0 /\ body' = [body EXCEPT ![s] = n]
           /\ peer' = peer /\ Gone' = Gone
    BY <2>1, RequestBegins
  <2>3. n > 0
    BY BoundAssumption
  <2>4. Transfer!Begin(s, n)
    BY <2>2, <2>3 DEF Transfer!Begin, Gone
  <2> QED BY <2>4 DEF Transfer!Next
<1>2. CASE ClientReceive
  <2>1. /\ body' = body /\ peer' = peer
        /\ Gone' = Gone \/ \E s \in StreamIds : body[s] > 0 /\ Gone' = Gone \cup {s}
    BY <1>2, ReceiveCloses
  <2>2. CASE Gone' = Gone
    BY <1>0, <2>1, <2>2
  <2>3. CASE \E s \in StreamIds : body[s] > 0 /\ Gone' = Gone \cup {s}
    <3>1. PICK s \in StreamIds : body[s] > 0 /\ Gone' = Gone \cup {s}
      BY <2>3
    <3>2. Transfer!Close(s)
      BY <2>1, <3>1 DEF Transfer!Close, Gone
    <3> QED BY <3>2 DEF Transfer!Next
  <2> QED BY <2>1, <2>2, <2>3
<1>3. CASE PeerReceive
  <2>1. /\ body' = body /\ Gone' = Gone
        /\ \/ peer'.received = peer.received /\ peer'.finished = peer.finished
           \/ \E s \in StreamIds, n \in 1..MaxBody :
                /\ s \notin peer.finished /\ peer.received[s] + n <= body[s]
                /\ peer'.received = [peer.received EXCEPT ![s] = @ + n]
                /\ peer'.finished =
                     IF peer.received[s] + n = body[s] THEN peer.finished \cup {s}
                     ELSE peer.finished
    BY <1>3, PeerReceiveArrives
  <2>2. CASE peer'.received = peer.received /\ peer'.finished = peer.finished
    BY <1>0, <2>1, <2>2
  <2>3. ASSUME NEW s \in StreamIds, NEW n \in 1..MaxBody,
               s \notin peer.finished, peer.received[s] + n <= body[s],
               peer'.received = [peer.received EXCEPT ![s] = @ + n],
               peer'.finished =
                 IF peer.received[s] + n = body[s] THEN peer.finished \cup {s}
                 ELSE peer.finished
        PROVE  Transfer!Next
    <3>1. n > 0
      BY BoundAssumption
    <3>2. Transfer!Arrive(s, n)
      BY <2>1, <2>3, <3>1 DEF Transfer!Arrive, Gone
    <3> QED BY <3>2 DEF Transfer!Next
  <2> QED BY <2>1, <2>2, <2>3
<1>4. CASE \/ \E n \in Increments : PeerGrantConnection(n)
           \/ \E s \in StreamIds, n \in Increments : PeerGrantStream(s, n)
           \/ \E f \in SettingsFrames : PeerSettings(f)
           \/ \E s \in StreamIds : PeerClose(s)
  BY <1>0, <1>4, PeerWrites
<1>5. CASE UNCHANGED flowVars
  BY <1>0, <1>5 DEF flowVars, vars, manager, Gone
<1> QED BY <1>1, <1>2, <1>3, <1>4, <1>5 DEF FlowNext

\* Flow control implements the abstract promise: whatever the windows do, what reaches
\* the peer of a body is octets of it and no more than there are, its end is announced
\* with its last octet and only once, and only streams that were opened are closed.
THEOREM BodiesTransfer == FlowSpec => Transfer!SafeSpec
<1>1. FlowInit => Transfer!Init
  <2>1. FlowInit => {s \in StreamIds : s < nextStreamId} \ DOMAIN streams = {}
    BY BoundAssumption DEF FlowInit, Init, StreamIds
  <2> QED BY <2>1 DEF FlowInit, Transfer!Init
<1>2. FlowInv /\ [FlowNext]_flowVars => [Transfer!Next]_Transfer!vars
  BY StepTransfers
<1> QED BY <1>1, <1>2, FlowInvariance, PTL DEF FlowSpec, Transfer!SafeSpec
=============================================================================
