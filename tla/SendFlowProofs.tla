--------------------------- MODULE SendFlowProofs ---------------------------
(***************************************************************************)
(* The invariants of SendFlow, for every value of its constants: any       *)
(* number of streams, any bodies, any legal or illegal sequence of         *)
(* WINDOW_UPDATE and SETTINGS frames.                                      *)
(*                                                                         *)
(* Left and Total are recursive functions, which the provers know only as  *)
(* CHOOSE f : f = ....  The first part shows that such an f exists, by an  *)
(* induction stated with sets, and derives what a drain does; the second   *)
(* shows that every action preserves the inductive invariant.              *)
(***************************************************************************)
EXTENDS SendFlow, BoundedInduction

-----------------------------------------------------------------------------
\* For functions into the integers.
LEMMA IntRecursionExists ==
  ASSUME NEW N \in Nat, NEW c \in Int, NEW step \in Steps(N, Int)
  PROVE  \E h \in [0..N -> Int] :
           h[0] = c /\ \A k \in 1..N : h[k] = step[<<k, h[k - 1]>>]
<1> DEFINE V == Int
<1>1. c \in V /\ step \in Steps(N, V)
  OBVIOUS
<1>2. \E h \in [0..N -> V] : h[0] = c /\ \A k \in 1..N : h[k] = step[<<k, h[k - 1]>>]
  <2> HIDE DEF V
  <2> QED BY <1>1, RecursionExists
<1> QED BY <1>2

\* What drainSendQueue may write: within the queue and both windows, and as much
\* as they allow.
LEMMA SendableBounds ==
  ASSUME NEW st \in SendState, NEW c \in Int
  PROVE  LET n == Sendable(st, c) IN
         /\ n \in Int
         /\ c \in Nat => n \in 0..c
         /\ c \in Nat => n <= st.sendQueue
         /\ c \in Nat /\ n < st.sendQueue => n = c \/ st.localWindow - n <= 0
BY DEF SendState, Sendable, Lesser

\* What writing n octets of a queue leaves of it.
LEMMA DrainedFields ==
  ASSUME NEW st \in SendState, NEW n \in Nat, n <= st.sendQueue
  PROVE  LET d == Drained(st, n) IN
         /\ d \in SendState
         /\ d.localWindow = st.localWindow - n
         /\ d.sendQueue = st.sendQueue - n
         /\ d.sendQueueEndStream = st.sendQueueEndStream
<1> DEFINE r == [st EXCEPT !.localWindow = @ - n]
<1>1. Drained(st, n) = [r EXCEPT !.sendQueue = @ - n]
  BY DEF Drained, SendState
<1>2. /\ r \in SendState
      /\ r.localWindow = st.localWindow - n
      /\ r.sendQueue = st.sendQueue
      /\ r.sendQueueEndStream = st.sendQueueEndStream
  BY DEF SendState
<1> HIDE DEF r
<1>3. /\ [r EXCEPT !.sendQueue = @ - n] \in SendState
      /\ [r EXCEPT !.sendQueue = @ - n].localWindow = r.localWindow
      /\ [r EXCEPT !.sendQueue = @ - n].sendQueue = r.sendQueue - n
      /\ [r EXCEPT !.sendQueue = @ - n].sendQueueEndStream = r.sendQueueEndStream
  BY <1>2 DEF SendState
<1> QED BY <1>1, <1>2, <1>3

\* What sendData enqueues.
LEMMA EnqueuedFields ==
  ASSUME NEW st \in SendState, NEW n \in Nat, NEW e \in BOOLEAN
  PROVE  LET d == Enqueued(st, n, e) IN
         /\ d \in SendState
         /\ d.localWindow = st.localWindow
         /\ d.sendQueue = st.sendQueue + n
<1> DEFINE r == [st EXCEPT !.sendQueue = @ + n]
<1>1. Enqueued(st, n, e) = [r EXCEPT !.sendQueueEndStream = @ \/ e]
  BY DEF Enqueued, SendState
<1>2. /\ r \in SendState
      /\ r.localWindow = st.localWindow
      /\ r.sendQueue = st.sendQueue + n
  BY DEF SendState
<1> HIDE DEF r
<1>3. /\ [r EXCEPT !.sendQueueEndStream = @ \/ e] \in SendState
      /\ [r EXCEPT !.sendQueueEndStream = @ \/ e].localWindow = r.localWindow
      /\ [r EXCEPT !.sendQueueEndStream = @ \/ e].sendQueue = r.sendQueue
  BY <1>2 DEF SendState
<1> QED BY <1>1, <1>2, <1>3

\* What a larger or smaller window changes.
LEMMA GrownFields ==
  ASSUME NEW st \in SendState, NEW n \in Int
  PROVE  LET d == Grown(st, n) IN
         /\ d \in SendState
         /\ d.localWindow = st.localWindow + n
         /\ d.sendQueue = st.sendQueue
         /\ d.sendQueueEndStream = st.sendQueueEndStream
BY DEF Grown, SendState

\* Left satisfies its defining equation.
LEMMA LeftEquation ==
  ASSUME NEW S \in SUBSET StreamIds, NEW tab, NEW conn \in Int,
         \A s \in S : tab[s] \in SendState
  PROVE  LET left == Left(S, tab, conn) IN
         /\ left \in [0..MaxStreams -> Int]
         /\ left[0] = conn
         /\ \A k \in StreamIds :
              left[k] = left[k - 1] - (IF k \in S THEN Sendable(tab[k], left[k - 1]) ELSE 0)
<1> DEFINE spent(k, c) == IF k \in S THEN Sendable(tab[k], c) ELSE 0
           step == [p \in (1..MaxStreams) \X Int |-> p[2] - spent(p[1], p[2])]
           left == Left(S, tab, conn)
<1>1. MaxStreams \in Nat /\ StreamIds = 1..MaxStreams
  BY BoundAssumption DEF StreamIds
<1>2. \A k \in 1..MaxStreams, c \in Int : spent(k, c) \in Int
  BY SendableBounds
<1>3. step \in Steps(MaxStreams, Int)
  <2> HIDE DEF spent
  <2> QED BY <1>2 DEF Steps
<1>4. \A k \in 1..MaxStreams, c \in Int : step[<<k, c>>] = c - spent(k, c)
  <2> HIDE DEF spent
  <2> QED BY <1>2
<1>5. PICK h \in [0..MaxStreams -> Int] :
        h[0] = conn /\ \A k \in 1..MaxStreams : h[k] = step[<<k, h[k - 1]>>]
  <2> HIDE DEF step
  <2> QED BY <1>1, <1>3, IntRecursionExists
<1>6. ASSUME NEW k \in 1..MaxStreams PROVE h[k] = h[k - 1] - spent(k, h[k - 1])
  <2> HIDE DEF step, spent
  <2>1. k - 1 \in 0..MaxStreams /\ h[k - 1] \in Int
    BY <1>1
  <2>2. step[<<k, h[k - 1]>>] = h[k - 1] - spent(k, h[k - 1])
    BY <1>4, <2>1
  <2> QED BY <1>5, <2>2
<1>7. h = [k \in 0..MaxStreams |-> IF k = 0 THEN conn ELSE h[k - 1] - spent(k, h[k - 1])]
  <2> HIDE DEF spent
  <2> QED BY <1>1, <1>5, <1>6
<1>8. left = [k \in 0..MaxStreams |->
                IF k = 0 THEN conn ELSE left[k - 1] - spent(k, left[k - 1])]
  BY <1>7 DEF Left
<1> HIDE DEF left
<1>9. left[0] = conn /\ \A k \in 1..MaxStreams : left[k] = left[k - 1] - spent(k, left[k - 1])
  <2> HIDE DEF spent
  <2> QED BY <1>1, <1>8
<1>10. \A k \in 0..MaxStreams : left[k] \in Int
  <2> DEFINE T == {k \in 0..MaxStreams : left[k] \in Int}
  <2>1. 0 \in T
    BY <1>1, <1>9
  <2>2. ASSUME NEW k \in 1..MaxStreams, k - 1 \in T PROVE k \in T
    <3> HIDE DEF spent
    <3>1. left[k - 1] \in Int /\ k \in 0..MaxStreams
      BY <1>1, <2>2
    <3>3. spent(k, left[k - 1]) \in Int
      BY <1>2, <3>1
    <3>2. left[k] = left[k - 1] - spent(k, left[k - 1])
      BY <1>9
    <3> QED BY <3>1, <3>2, <3>3
  <2> HIDE DEF T
  <2>3. \A k \in 0..MaxStreams : k \in T
    BY <1>1, <2>1, <2>2, UpTo
  <2> QED BY <2>3 DEF T
<1>11. left \in [0..MaxStreams -> Int]
  <2> HIDE DEF spent
  <2> QED BY <1>8, <1>10
<1> QED BY <1>1, <1>9, <1>11 DEF left

\* A pass never overdraws the connection window, and what one stream leaves over
\* bounds what is left at the end.
LEMMA LeftBounds ==
  ASSUME NEW S \in SUBSET StreamIds, NEW tab, NEW conn \in Nat,
         \A s \in S : tab[s] \in SendState
  PROVE  LET left == Left(S, tab, conn) IN
         /\ left[0] = conn
         /\ \A k \in 0..MaxStreams : left[k] \in Nat
         /\ \A k \in 0..MaxStreams : left[MaxStreams] <= left[k]
<1> DEFINE left == Left(S, tab, conn)
<1>1. MaxStreams \in Nat /\ StreamIds = 1..MaxStreams
  BY BoundAssumption DEF StreamIds
<1>2. /\ left[0] = conn
      /\ \A k \in StreamIds :
           left[k] = left[k - 1] - (IF k \in S THEN Sendable(tab[k], left[k - 1]) ELSE 0)
  BY LeftEquation
<1> HIDE DEF left
<1>3. ASSUME NEW k \in StreamIds, left[k - 1] \in Nat
      PROVE  left[k] \in Nat /\ left[k] <= left[k - 1]
  <2>1. CASE k \in S
    BY <1>2, <1>3, <2>1, SendableBounds
  <2>2. CASE k \notin S
    BY <1>2, <1>3, <2>2
  <2> QED BY <2>1, <2>2
<1>4. \A k \in 0..MaxStreams : left[k] \in Nat
  <2> DEFINE T == {k \in 0..MaxStreams : left[k] \in Nat}
  <2>1. 0 \in T /\ \A k \in 1..MaxStreams : k - 1 \in T => k \in T
    BY <1>1, <1>2, <1>3
  <2> HIDE DEF T
  <2>2. \A k \in 0..MaxStreams : k \in T
    BY <1>1, <2>1, UpTo
  <2> QED BY <2>2 DEF T
<1>5. \A k \in 0..MaxStreams : left[MaxStreams] <= left[k]
  <2> DEFINE T == {j \in 0..MaxStreams : left[MaxStreams] <= left[MaxStreams - j]}
  <2>1. 0 \in T
    BY <1>1, <1>4
  <2>2. ASSUME NEW j \in 1..MaxStreams, j - 1 \in T PROVE j \in T
    <3> DEFINE k == MaxStreams - (j - 1)
    <3>1. k \in StreamIds /\ k - 1 = MaxStreams - j /\ k - 1 \in 0..MaxStreams /\ k \in 0..MaxStreams
      BY <1>1
    <3>2. left[MaxStreams] <= left[k]
      BY <2>2
    <3>3. left[k] <= left[k - 1]
      BY <1>3, <1>4, <3>1
    <3>4. left[MaxStreams] \in Nat /\ left[k] \in Nat /\ left[k - 1] \in Nat
      BY <1>1, <1>4, <3>1
    <3>5. left[MaxStreams] <= left[k - 1]
      <4> HIDE DEF k
      <4> QED BY <3>2, <3>3, <3>4
    <3> QED BY <3>1, <3>5
  <2> HIDE DEF T
  <2>3. \A j \in 0..MaxStreams : j \in T
    BY <1>1, <2>1, <2>2, UpTo
  <2>4. ASSUME NEW k \in 0..MaxStreams PROVE left[MaxStreams] <= left[k]
    <3>1. MaxStreams - k \in 0..MaxStreams /\ MaxStreams - (MaxStreams - k) = k
      BY <1>1
    <3> QED BY <2>3, <3>1 DEF T
  <2> QED BY <2>4
<1> QED BY <1>2, <1>4, <1>5 DEF left

-----------------------------------------------------------------------------
\* Total satisfies its defining equation.
LEMMA TotalEquation ==
  ASSUME NEW f \in [StreamIds -> Int]
  PROVE  \E upTo \in [0..MaxStreams -> Int] :
           /\ upTo[0] = 0
           /\ \A k \in StreamIds : upTo[k] = upTo[k - 1] + f[k]
           /\ Total(f) = upTo[MaxStreams]
<1> DEFINE step == [p \in (1..MaxStreams) \X Int |-> p[2] + f[p[1]]]
<1>1. MaxStreams \in Nat /\ StreamIds = 1..MaxStreams
  BY BoundAssumption DEF StreamIds
<1>2. step \in Steps(MaxStreams, Int)
  BY <1>1 DEF Steps
<1>3. PICK h \in [0..MaxStreams -> Int] :
        h[0] = 0 /\ \A k \in 1..MaxStreams : h[k] = step[<<k, h[k - 1]>>]
  <2> HIDE DEF step
  <2>1. \A c \in Int : \E h \in [0..MaxStreams -> Int] :
          h[0] = c /\ \A k \in 1..MaxStreams : h[k] = step[<<k, h[k - 1]>>]
    BY <1>1, <1>2, IntRecursionExists
  <2>2. 0 \in Int
    OBVIOUS
  <2> QED BY <2>1, <2>2, Zenon
<1>4. ASSUME NEW k \in 1..MaxStreams PROVE h[k] = h[k - 1] + f[k]
  <2>1. k - 1 \in 0..MaxStreams /\ <<k, h[k - 1]>> \in (1..MaxStreams) \X Int
    BY <1>1
  <2> QED BY <1>3, <2>1
<1> DEFINE solves(g) == g = [k \in 0..MaxStreams |-> IF k = 0 THEN 0 ELSE g[k - 1] + f[k]]
           upTo == CHOOSE g : solves(g)
<1>5. solves(h)
  BY <1>1, <1>3, <1>4
<1>6. solves(upTo)
  <2> HIDE DEF solves
  <2> QED BY <1>5
<1>7. Total(f) = upTo[MaxStreams]
  BY DEF Total
<1> HIDE DEF upTo
<1>8. upTo[0] = 0 /\ \A k \in 1..MaxStreams : upTo[k] = upTo[k - 1] + f[k]
  BY <1>1, <1>6
<1>9. \A k \in 0..MaxStreams : upTo[k] \in Int
  <2> DEFINE T == {k \in 0..MaxStreams : upTo[k] \in Int}
  <2>1. 0 \in T
    BY <1>1, <1>8
  <2>2. ASSUME NEW k \in 1..MaxStreams, k - 1 \in T PROVE k \in T
    BY <1>1, <1>8, <2>2
  <2> HIDE DEF T
  <2>3. \A k \in 0..MaxStreams : k \in T
    BY <1>1, <2>1, <2>2, UpTo
  <2> QED BY <2>3 DEF T
<1>10. upTo \in [0..MaxStreams -> Int]
  BY <1>6, <1>9
<1> QED BY <1>1, <1>7, <1>8, <1>10

\* Nothing sent adds up to nothing.
LEMMA TotalOfNothing == Total([s \in StreamIds |-> 0]) = 0
<1> DEFINE f == [s \in StreamIds |-> 0]
<1>1. MaxStreams \in Nat /\ StreamIds = 1..MaxStreams
  BY BoundAssumption DEF StreamIds
<1>2. PICK u \in [0..MaxStreams -> Int] :
        /\ u[0] = 0
        /\ \A k \in StreamIds : u[k] = u[k - 1] + f[k]
        /\ Total(f) = u[MaxStreams]
  <2>1. f \in [StreamIds -> Int]
    OBVIOUS
  <2> HIDE DEF f
  <2> QED BY <2>1, TotalEquation
<1> DEFINE T == {k \in 0..MaxStreams : u[k] = 0}
<1>3. 0 \in T /\ \A k \in 1..MaxStreams : k - 1 \in T => k \in T
  BY <1>1, <1>2
<1> HIDE DEF T
<1>4. \A k \in 0..MaxStreams : k \in T
  BY <1>1, <1>3, UpTo
<1> QED BY <1>1, <1>2, <1>4 DEF T

\* A total of integers is an integer.
LEMMA TotalIsInt ==
  ASSUME NEW f \in [StreamIds -> Int]
  PROVE  Total(f) \in Int
<1>1. MaxStreams \in 0..MaxStreams
  BY BoundAssumption
<1> QED BY <1>1, TotalEquation

\* What a pass adds to the totals sent is what it takes from the connection window.
LEMMA TotalOfPass ==
  ASSUME NEW f \in [StreamIds -> Int], NEW g \in [StreamIds -> Int],
         NEW left \in [0..MaxStreams -> Int],
         \A k \in StreamIds : g[k] = f[k] + (left[k - 1] - left[k])
  PROVE  Total(g) = Total(f) + left[0] - left[MaxStreams]
<1>1. MaxStreams \in Nat /\ StreamIds = 1..MaxStreams
  BY BoundAssumption DEF StreamIds
<1>2. PICK u \in [0..MaxStreams -> Int] :
        /\ u[0] = 0
        /\ \A k \in StreamIds : u[k] = u[k - 1] + f[k]
        /\ Total(f) = u[MaxStreams]
  BY TotalEquation
<1>3. PICK v \in [0..MaxStreams -> Int] :
        /\ v[0] = 0
        /\ \A k \in StreamIds : v[k] = v[k - 1] + g[k]
        /\ Total(g) = v[MaxStreams]
  BY TotalEquation
<1> DEFINE T == {k \in 0..MaxStreams : v[k] = u[k] + left[0] - left[k]}
<1>4. 0 \in T
  BY <1>1, <1>2, <1>3
<1>5. ASSUME NEW k \in 1..MaxStreams, k - 1 \in T PROVE k \in T
  <2>1. k - 1 \in 0..MaxStreams /\ k \in 0..MaxStreams /\ k \in StreamIds
    BY <1>1
  <2>2. v[k - 1] = u[k - 1] + left[0] - left[k - 1]
    BY <1>5
  <2>3. v[k] = v[k - 1] + g[k] /\ u[k] = u[k - 1] + f[k]
    BY <1>2, <1>3, <2>1
  <2>4. {u[k - 1], u[k], v[k - 1], v[k], left[0], left[k - 1], left[k], f[k], g[k]} \subseteq Int
    BY <1>1, <2>1
  <2>6. g[k] = f[k] + (left[k - 1] - left[k])
    BY <2>1
  <2>5. v[k] = u[k] + left[0] - left[k]
    BY <2>2, <2>3, <2>4, <2>6, SMTT(60)
  <2> QED BY <2>1, <2>5
<1> HIDE DEF T
<1>6. \A k \in 0..MaxStreams : k \in T
  BY <1>1, <1>4, <1>5, UpTo
<1> QED BY <1>1, <1>2, <1>3, <1>6 DEF T

\* Everything the invariants need to know of a drain.
THEOREM DrainEffect ==
  ASSUME NEW S, NEW tab, NEW conn \in Nat,
         S \subseteq DOMAIN tab, DOMAIN tab \subseteq StreamIds,
         tab \in [DOMAIN tab -> SendState],
         sent \in [StreamIds -> Nat],
         Drain(S, tab, conn)
  PROVE  \E amount \in [StreamIds -> Nat] :
           /\ streams' = [s \in DOMAIN tab |-> Drained(tab[s], amount[s])]
           /\ sent' = [s \in StreamIds |-> sent[s] + amount[s]]
           /\ ended' = ended \cup {s \in S : CarriesEnd(tab[s], amount[s])}
           /\ connectionSendWindow' \in 0..conn
           /\ Total(sent') = Total(sent) + conn - connectionSendWindow'
           /\ \A s \in StreamIds \ S : amount[s] = 0
           /\ \A s \in S :
                /\ amount[s] <= tab[s].sendQueue
                /\ amount[s] < tab[s].sendQueue =>
                     connectionSendWindow' = 0 \/ tab[s].localWindow - amount[s] <= 0
<1> DEFINE left == Left(S, tab, conn)
           amount == [s \in StreamIds |-> left[s - 1] - left[s]]
<1>1. MaxStreams \in Nat /\ StreamIds = 1..MaxStreams
  BY BoundAssumption DEF StreamIds
<1>2. S \in SUBSET StreamIds /\ \A s \in S : tab[s] \in SendState
  OBVIOUS
<1>3. /\ left \in [0..MaxStreams -> Int]
      /\ left[0] = conn
      /\ \A k \in StreamIds :
           left[k] = left[k - 1] - (IF k \in S THEN Sendable(tab[k], left[k - 1]) ELSE 0)
      /\ \A k \in 0..MaxStreams : left[k] \in Nat
      /\ \A k \in 0..MaxStreams : left[MaxStreams] <= left[k]
  <2>1. conn \in Int
    OBVIOUS
  <2>2. /\ left \in [0..MaxStreams -> Int]
        /\ left[0] = conn
        /\ \A k \in StreamIds :
             left[k] = left[k - 1] - (IF k \in S THEN Sendable(tab[k], left[k - 1]) ELSE 0)
    <3>1. left \in [0..MaxStreams -> Int]
      BY <1>2, <2>1, LeftEquation
    <3>2. left[0] = conn
      BY <1>2, LeftBounds
    <3>3. \A k \in StreamIds :
            left[k] = left[k - 1] - (IF k \in S THEN Sendable(tab[k], left[k - 1]) ELSE 0)
      BY <1>2, <2>1, LeftEquation
    <3> HIDE DEF left
    <3> QED BY <3>1, <3>2, <3>3
  <2>3. /\ \A k \in 0..MaxStreams : left[k] \in Nat
        /\ \A k \in 0..MaxStreams : left[MaxStreams] <= left[k]
    BY <1>2, LeftBounds
  <2> QED BY <2>2, <2>3
<1>4. /\ streams' = [s \in DOMAIN tab |-> Drained(tab[s], left[s - 1] - left[s])]
      /\ connectionSendWindow' = left[MaxStreams]
      /\ sent' = [s \in StreamIds |-> sent[s] + (left[s - 1] - left[s])]
      /\ ended' = ended \cup {s \in S : CarriesEnd(tab[s], left[s - 1] - left[s])}
  BY DEF Drain
<1> HIDE DEF left
<1>5. ASSUME NEW s \in StreamIds
      PROVE  s - 1 \in 0..MaxStreams /\ s \in 0..MaxStreams
             /\ left[s - 1] \in Nat /\ left[s] \in Nat
  BY <1>1, <1>3
<1>6. ASSUME NEW s \in S
      PROVE  LET n == left[s - 1] - left[s] IN
             /\ n \in Nat
             /\ n <= tab[s].sendQueue
             /\ n < tab[s].sendQueue => left[MaxStreams] = 0 \/ tab[s].localWindow - n <= 0
  <2>1. s \in StreamIds /\ tab[s] \in SendState
    BY <1>2
  <2>2. left[s] = left[s - 1] - Sendable(tab[s], left[s - 1])
    BY <1>3, <2>1
  <2>3. left[MaxStreams] \in Nat /\ left[MaxStreams] <= left[s]
    BY <1>1, <1>3, <1>5, <2>1
  <2>4. left[s - 1] \in Nat /\ left[s] \in Nat
    BY <1>5, <2>1
  <2> DEFINE c == left[s - 1]
             n == Sendable(tab[s], c)
  <2>5. n \in 0..c /\ n <= tab[s].sendQueue
        /\ (n < tab[s].sendQueue => n = c \/ tab[s].localWindow - n <= 0)
    BY <2>1, <2>4, SendableBounds
  <2>6. left[s] = c - n
    BY <2>2
  <2> HIDE DEF n
  <2>7. c - left[s] = n
    BY <2>4, <2>5, <2>6
  <2>8. n = c => left[MaxStreams] = 0
    BY <2>3, <2>4, <2>6
  <2>9. n \in Nat /\ n <= tab[s].sendQueue
        /\ (n < tab[s].sendQueue => left[MaxStreams] = 0 \/ tab[s].localWindow - n <= 0)
    BY <2>4, <2>5, <2>8
  <2> QED BY <2>7, <2>9
<1>7. ASSUME NEW s \in StreamIds \ S PROVE left[s - 1] - left[s] = 0
  BY <1>3, <1>5
<1>8. amount \in [StreamIds -> Nat]
  <2>1. \A s \in StreamIds : left[s - 1] - left[s] \in Nat
    BY <1>6, <1>7
  <2> QED BY <2>1
<1>9. Total(sent') = Total(sent) + conn - connectionSendWindow'
  <2>1. sent \in [StreamIds -> Int] /\ sent' \in [StreamIds -> Int]
    BY <1>4, <1>5
  <2>2. \A k \in StreamIds : sent'[k] = sent[k] + (left[k - 1] - left[k])
    BY <1>4
  <2> QED BY <1>3, <1>4, <2>1, <2>2, TotalOfPass
<1>10. \A s \in StreamIds : amount[s] = left[s - 1] - left[s]
  OBVIOUS
<1>11. connectionSendWindow' \in 0..conn
  <2>1. 0 \in 0..MaxStreams /\ MaxStreams \in 0..MaxStreams
    BY <1>1
  <2> QED BY <1>3, <1>4, <2>1
<1>12. /\ streams' = [s \in DOMAIN tab |-> Drained(tab[s], amount[s])]
       /\ sent' = [s \in StreamIds |-> sent[s] + amount[s]]
       /\ ended' = ended \cup {s \in S : CarriesEnd(tab[s], amount[s])}
  BY <1>2, <1>4, <1>10
<1> HIDE DEF amount
<1>13. \A s \in S :
         /\ amount[s] <= tab[s].sendQueue
         /\ amount[s] < tab[s].sendQueue =>
              connectionSendWindow' = 0 \/ tab[s].localWindow - amount[s] <= 0
  BY <1>2, <1>4, <1>6, <1>10
<1>14. \A s \in StreamIds \ S : amount[s] = 0
  BY <1>7, <1>10
<1> QED BY <1>8, <1>9, <1>11, <1>12, <1>13, <1>14

-----------------------------------------------------------------------------
(***************************************************************************)
(* The inductive invariant.  TypeOK bounds what each stream is offered,    *)
(* StreamCredit and ConnectionCredit are the two accounts, and             *)
(* NothingAfterEnd is what stops SendData from reopening a finished body.  *)
(***************************************************************************)
IInv ==
  /\ TypeOK
  /\ StreamCredit
  /\ ConnectionCredit
  /\ NoIdleCredit
  /\ NothingAfterEnd

\* Nothing is sent, queued or granted when the manager is created.
LEMMA InitIInv == Init => IInv
<1> SUFFICES ASSUME Init PROVE IInv
  OBVIOUS
<1> USE DEF Init
<1>1. MaxStreams \in Nat /\ StreamIds = 1..MaxStreams
  BY BoundAssumption DEF StreamIds
<1>2. DOMAIN streams = {} /\ streams \in [DOMAIN streams -> SendState]
  OBVIOUS
<1>3. TypeOK
  BY <1>1, <1>2, WindowAssumption, FrameSizeAssumption DEF TypeOK
<1>4. ConnectionCredit
  BY TotalOfNothing, WindowAssumption DEF ConnectionCredit
<1>5. StreamCredit /\ NoIdleCredit /\ NothingAfterEnd
  BY <1>2 DEF StreamCredit, NoIdleCredit, NothingAfterEnd
<1> QED BY <1>3, <1>4, <1>5 DEF IInv

(***************************************************************************)
(* A handler that changes the table to tab and the connection window to    *)
(* conn, and then drains S, preserves the invariant when the accounts are  *)
(* right before the drain and nothing outside S has become unblocked.      *)
(***************************************************************************)
LEMMA DrainKeeps ==
  ASSUME IInv, NEW S, NEW tab, NEW conn \in Nat,
         S \subseteq DOMAIN tab, tab \in [DOMAIN tab -> SendState],
         Drain(S, tab, conn),
         nextStreamId' \in nextStreamId..MaxStreams + 1,
         DOMAIN tab \subseteq {s \in StreamIds : s < nextStreamId'},
         remoteInitialWindowSize' \in Nat,
         maxFrameSize' \in MinMaxFrameSize..MaxMaxFrameSize,
         granted' \in [StreamIds -> Nat],
         connectionGranted' \in Nat,
         \A s \in StreamIds : s >= nextStreamId' => granted'[s] = 0,
         \A s \in DOMAIN tab :
           tab[s].localWindow = remoteInitialWindowSize' + granted'[s] - sent[s],
         conn = DefaultInitialWindowSize + connectionGranted' - Total(sent),
         \A s \in DOMAIN tab \ S :
           tab[s].sendQueue > 0 => conn = 0 \/ tab[s].localWindow <= 0,
         \A s \in ended \cap DOMAIN tab :
           tab[s].sendQueueEndStream /\ tab[s].sendQueue = 0
  PROVE  IInv'
<1>1. /\ nextStreamId \in 1..MaxStreams + 1 /\ nextStreamId' \in 1..MaxStreams + 1
      /\ nextStreamId <= nextStreamId'
      /\ DOMAIN tab \subseteq StreamIds
      /\ sent \in [StreamIds -> Nat]
      /\ ended \subseteq StreamIds
      /\ \A s \in StreamIds : s >= nextStreamId => sent[s] = 0 /\ s \notin ended
      /\ MaxStreams \in Nat /\ StreamIds = 1..MaxStreams
  BY BoundAssumption DEF IInv, TypeOK, StreamIds
<1>2. PICK amount \in [StreamIds -> Nat] :
        /\ streams' = [s \in DOMAIN tab |-> Drained(tab[s], amount[s])]
        /\ sent' = [s \in StreamIds |-> sent[s] + amount[s]]
        /\ ended' = ended \cup {s \in S : CarriesEnd(tab[s], amount[s])}
        /\ connectionSendWindow' \in 0..conn
        /\ Total(sent') = Total(sent) + conn - connectionSendWindow'
        /\ \A s \in StreamIds \ S : amount[s] = 0
        /\ \A s \in S :
             /\ amount[s] <= tab[s].sendQueue
             /\ amount[s] < tab[s].sendQueue =>
                  connectionSendWindow' = 0 \/ tab[s].localWindow - amount[s] <= 0
  <2>1. DOMAIN tab \subseteq StreamIds /\ sent \in [StreamIds -> Nat]
    BY <1>1
  <2>2. S \subseteq DOMAIN tab /\ tab \in [DOMAIN tab -> SendState] /\ Drain(S, tab, conn)
    OBVIOUS
  <2> QED BY <2>1, <2>2, DrainEffect
<1>3. DOMAIN streams' = DOMAIN tab
  BY <1>2
<1>4. ASSUME NEW s \in DOMAIN tab
      PROVE  /\ s \in StreamIds
             /\ tab[s] \in SendState
             /\ amount[s] \in Nat /\ amount[s] <= tab[s].sendQueue
             /\ sent[s] \in Nat /\ granted'[s] \in Nat
             /\ sent'[s] = sent[s] + amount[s]
             /\ streams'[s] \in SendState
             /\ streams'[s].localWindow = tab[s].localWindow - amount[s]
             /\ streams'[s].sendQueue = tab[s].sendQueue - amount[s]
             /\ streams'[s].sendQueueEndStream = tab[s].sendQueueEndStream
  <2>1. s \in StreamIds /\ tab[s] \in SendState
        /\ sent[s] \in Nat /\ granted'[s] \in Nat
    BY <1>1
  <2>2. amount[s] \in Nat
    BY <2>1
  <2>3. amount[s] <= tab[s].sendQueue
    <3>1. CASE s \in S
      BY <1>2, <3>1
    <3>2. CASE s \notin S
      BY <1>2, <2>1, <3>2 DEF SendState
    <3> QED BY <3>1, <3>2
  <2>4. streams'[s] = Drained(tab[s], amount[s]) /\ sent'[s] = sent[s] + amount[s]
    BY <1>2, <2>1
  <2>5. LET d == Drained(tab[s], amount[s]) IN
        /\ d \in SendState
        /\ d.localWindow = tab[s].localWindow - amount[s]
        /\ d.sendQueue = tab[s].sendQueue - amount[s]
        /\ d.sendQueueEndStream = tab[s].sendQueueEndStream
    BY <2>1, <2>2, <2>3, DrainedFields
  <2> QED BY <2>1, <2>2, <2>3, <2>4, <2>5, Zenon
<1>5. TypeOK'
  <2>1. streams' \in [DOMAIN streams' -> SendState]
    BY <1>2, <1>3, <1>4
  <2>2. connectionSendWindow' \in Nat
    BY <1>2
  <2>3. sent' \in [StreamIds -> Nat]
    BY <1>1, <1>2
  <2>4. ended' \subseteq StreamIds
    BY <1>1, <1>2
  <2>5. ASSUME NEW s \in StreamIds, s >= nextStreamId'
        PROVE  sent'[s] = 0 /\ granted'[s] = 0 /\ s \notin ended'
    <3>1. s \notin DOMAIN tab
      BY <1>1, <2>5 DEF StreamIds
    <3>2. s \notin S /\ amount[s] = 0
      BY <1>2, <3>1
    <3>3. sent[s] = 0 /\ s \notin ended
      BY <1>1, <2>5 DEF StreamIds
    <3>4. sent'[s] = 0
      BY <1>2, <3>2, <3>3
    <3> QED BY <1>2, <2>5, <3>2, <3>3, <3>4
  <2> QED BY <1>1, <1>3, <2>1, <2>2, <2>3, <2>4, <2>5 DEF TypeOK
<1>6. StreamCredit'
  <2>1. ASSUME NEW s \in DOMAIN tab
        PROVE  streams'[s].localWindow = remoteInitialWindowSize' + granted'[s] - sent'[s]
    BY <1>4 DEF SendState
  <2> QED BY <1>3, <2>1 DEF StreamCredit
<1>7. ConnectionCredit'
  <2>1. Total(sent) \in Int
    BY <1>1, TotalIsInt
  <2>2. Total(sent)' = Total(sent')
    BY DEF Total
  <2> QED BY <1>2, <2>1, <2>2, WindowAssumption DEF ConnectionCredit
<1>8. NoIdleCredit'
  <2>1. ASSUME NEW s \in DOMAIN tab, streams'[s].sendQueue > 0
        PROVE  connectionSendWindow' = 0 \/ streams'[s].localWindow <= 0
    <3> DEFINE w == tab[s].localWindow
               q == tab[s].sendQueue
               a == amount[s]
    <3>a. w \in Int /\ q \in Nat /\ a \in Nat
          /\ streams'[s].localWindow = w - a /\ streams'[s].sendQueue = q - a
      BY <1>4 DEF SendState
    <3>1. CASE s \in S
      <4>1. a < q => connectionSendWindow' = 0 \/ w - a <= 0
        BY <1>2, <3>1
      <4> HIDE DEF w, q, a
      <4> QED BY <2>1, <3>a, <4>1
    <3>2. CASE s \notin S
      <4>1. amount[s] = 0
        BY <1>1, <1>2, <3>2
      <4>2. q > 0 => conn = 0 \/ w <= 0
        BY <3>2
      <4>3. a = 0 /\ connectionSendWindow' \in 0..conn
        BY <1>2, <4>1
      <4> HIDE DEF w, q, a
      <4> QED BY <2>1, <3>a, <4>2, <4>3
    <3> QED BY <3>1, <3>2
  <2> QED BY <1>3, <2>1 DEF NoIdleCredit
<1>9. NothingAfterEnd'
  <2>1. ASSUME NEW s \in DOMAIN tab, s \in ended'
        PROVE  streams'[s].sendQueueEndStream /\ streams'[s].sendQueue = 0
    <3>1. CASE s \in ended
      BY <1>4, <3>1 DEF SendState
    <3>2. CASE s \in S /\ CarriesEnd(tab[s], amount[s])
      BY <1>4, <3>2 DEF SendState, CarriesEnd
    <3> QED BY <1>2, <2>1, <3>1, <3>2
  <2> QED BY <1>3, <2>1 DEF NothingAfterEnd
<1> QED BY <1>5, <1>6, <1>7, <1>8, <1>9 DEF IInv

-----------------------------------------------------------------------------
\* What the invariant says of one live stream.
LEMMA LiveStream ==
  ASSUME IInv, NEW s \in DOMAIN streams
  PROVE  /\ s \in StreamIds
         /\ streams[s] \in SendState
         /\ streams[s].localWindow \in Int /\ streams[s].sendQueue \in Nat
         /\ streams[s].localWindow = remoteInitialWindowSize + granted[s] - sent[s]
         /\ streams[s].sendQueue > 0 =>
              connectionSendWindow = 0 \/ streams[s].localWindow <= 0
         /\ s \in ended => streams[s].sendQueueEndStream /\ streams[s].sendQueue = 0
         /\ remoteInitialWindowSize \in Nat /\ granted[s] \in Nat /\ sent[s] \in Nat
<1>1. s \in StreamIds /\ streams[s] \in SendState
      /\ remoteInitialWindowSize \in Nat /\ granted[s] \in Nat /\ sent[s] \in Nat
  BY DEF IInv, TypeOK
<1>2. streams[s].localWindow \in Int /\ streams[s].sendQueue \in Nat
  BY <1>1 DEF SendState
<1> QED BY <1>1, <1>2 DEF IInv, StreamCredit, NoIdleCredit, NothingAfterEnd

\* A stuttering step.
LEMMA Unchanged == IInv /\ UNCHANGED vars => IInv'
BY DEF IInv, TypeOK, StreamCredit, ConnectionCredit, Total, NoIdleCredit,
       NothingAfterEnd, vars, manager, history

\* openStream(): the new stream has the whole advertised window and no history.
LEMMA OpenStreamKeeps == IInv /\ OpenStream => IInv'
<1> SUFFICES ASSUME IInv, OpenStream PROVE IInv'
  OBVIOUS
<1> DEFINE id == nextStreamId
<1>1. /\ id \in StreamIds /\ StreamIds = 1..MaxStreams /\ MaxStreams \in Nat
      /\ streams' = [s \in DOMAIN streams \cup {id} |-> IF s = id THEN NewSendState ELSE streams[s]]
      /\ nextStreamId' = id + 1
      /\ UNCHANGED <<connectionSendWindow, remoteInitialWindowSize, maxFrameSize,
                     sent, ended, granted, connectionGranted>>
  BY BoundAssumption DEF OpenStream, WithStream, StreamIds, history
<1>2. TypeOK
  BY DEF IInv
<1>3. /\ NewSendState \in SendState
      /\ NewSendState.localWindow = remoteInitialWindowSize
      /\ NewSendState.sendQueue = 0
  BY <1>2 DEF NewSendState, SendState, TypeOK
<1>4. sent[id] = 0 /\ granted[id] = 0 /\ id \notin ended /\ id \notin DOMAIN streams
  BY <1>1, <1>2 DEF TypeOK
<1>5. ASSUME NEW s \in DOMAIN streams'
      PROVE  \/ s = id /\ streams'[s] = NewSendState
             \/ s \in DOMAIN streams /\ streams'[s] = streams[s]
  BY <1>1
<1>6. TypeOK'
  <2>1. \A s \in DOMAIN streams' : streams'[s] \in SendState
    BY <1>3, <1>5, LiveStream
  <2>2. streams' \in [DOMAIN streams' -> SendState]
    BY <1>1, <2>1
  <2>3. DOMAIN streams' \subseteq {s \in StreamIds : s < nextStreamId'}
    BY <1>1, <1>2 DEF TypeOK
  <2>4. nextStreamId' \in 1..MaxStreams + 1
    BY <1>1
  <2>5. \A s \in StreamIds : s >= nextStreamId' => s >= nextStreamId
    BY <1>1
  <2> QED BY <1>1, <1>2, <2>2, <2>3, <2>4, <2>5 DEF TypeOK
<1>7. StreamCredit'
  <2>1. \A s \in DOMAIN streams' :
          streams'[s].localWindow = remoteInitialWindowSize + granted[s] - sent[s]
    BY <1>2, <1>3, <1>4, <1>5, LiveStream DEF TypeOK
  <2> QED BY <1>1, <2>1 DEF StreamCredit
<1>8. ConnectionCredit'
  BY <1>1 DEF ConnectionCredit, Total, IInv
<1>9. NoIdleCredit'
  <2>1. \A s \in DOMAIN streams' : streams'[s].sendQueue > 0 =>
          connectionSendWindow = 0 \/ streams'[s].localWindow <= 0
    BY <1>3, <1>5, LiveStream
  <2> QED BY <1>1, <2>1 DEF NoIdleCredit
<1>10. NothingAfterEnd'
  <2>1. \A s \in ended \cap DOMAIN streams' :
          streams'[s].sendQueueEndStream /\ streams'[s].sendQueue = 0
    BY <1>4, <1>5, LiveStream
  <2> QED BY <1>1, <2>1 DEF NothingAfterEnd
<1> QED BY <1>6, <1>7, <1>8, <1>9, <1>10 DEF IInv

\* Finalizing streams drops their queues and touches no account.
LEMMA FinalizeKeeps ==
  ASSUME IInv, NEW S, Finalize(S)
  PROVE  IInv'
<1>1. /\ streams' = [s \in DOMAIN streams \ S |-> streams[s]]
      /\ DOMAIN streams' \subseteq DOMAIN streams
      /\ \A s \in DOMAIN streams' : s \in DOMAIN streams /\ streams'[s] = streams[s]
      /\ UNCHANGED <<nextStreamId, connectionSendWindow, remoteInitialWindowSize,
                     maxFrameSize, sent, ended, granted, connectionGranted>>
  BY DEF Finalize, history
<1>2. TypeOK'
  <2>1. streams' \in [DOMAIN streams' -> SendState]
    BY <1>1 DEF IInv, TypeOK
  <2> QED BY <1>1, <2>1 DEF IInv, TypeOK
<1>3. StreamCredit'
  BY <1>1 DEF IInv, StreamCredit
<1>4. ConnectionCredit'
  BY <1>1 DEF IInv, ConnectionCredit, Total
<1>5. NoIdleCredit'
  BY <1>1 DEF IInv, NoIdleCredit
<1>6. NothingAfterEnd'
  BY <1>1 DEF IInv, NothingAfterEnd
<1> QED BY <1>2, <1>3, <1>4, <1>5, <1>6 DEF IInv

\* sendData() on a body that has not been ended.
LEMMA SendDataKeeps ==
  ASSUME IInv, NEW s \in DOMAIN streams, NEW n \in Nat, NEW e \in BOOLEAN,
         SendData(s, n, e)
  PROVE  IInv'
<1> DEFINE tab == [streams EXCEPT ![s] = Enqueued(@, n, e)]
<1>1. /\ ~streams[s].sendQueueEndStream
      /\ Drain({s}, tab, connectionSendWindow)
      /\ UNCHANGED <<nextStreamId, remoteInitialWindowSize, maxFrameSize,
                     granted, connectionGranted>>
  BY DEF SendData
<1>2. TypeOK
  BY DEF IInv
<1>3. DOMAIN tab = DOMAIN streams
  OBVIOUS
<1>4. /\ tab[s] \in SendState
      /\ tab[s].localWindow = streams[s].localWindow
  BY LiveStream, EnqueuedFields
<1>5. \A t \in DOMAIN streams \ {s} : tab[t] = streams[t]
  OBVIOUS
<1>6. tab \in [DOMAIN tab -> SendState]
  BY <1>4, <1>5, LiveStream
<1> HIDE DEF tab
<1>7. \A t \in DOMAIN tab :
        tab[t].localWindow = remoteInitialWindowSize' + granted'[t] - sent[t]
  BY <1>1, <1>3, <1>4, <1>5, LiveStream
<1>8. connectionSendWindow \in Nat
      /\ connectionSendWindow = DefaultInitialWindowSize + connectionGranted' - Total(sent)
  BY <1>1, <1>2 DEF TypeOK, IInv, ConnectionCredit
<1>9. \A t \in DOMAIN tab \ {s} :
        tab[t].sendQueue > 0 => connectionSendWindow = 0 \/ tab[t].localWindow <= 0
  BY <1>3, <1>5, LiveStream
<1>10. \A t \in ended \cap DOMAIN tab : tab[t].sendQueueEndStream /\ tab[t].sendQueue = 0
  BY <1>1, <1>3, <1>5, LiveStream
<1> QED BY <1>1, <1>2, <1>3, <1>6, <1>7, <1>8, <1>9, <1>10, DrainKeeps DEF TypeOK

\* WINDOW_UPDATE on stream 0.
LEMMA ConnectionWindowUpdateKeeps ==
  ASSUME IInv, NEW n \in Nat, ConnectionWindowUpdate(n)
  PROVE  IInv'
<1> DEFINE conn == connectionSendWindow + n
<1>1. /\ connectionGranted' = connectionGranted + n
      /\ Drain(DOMAIN streams, streams, conn)
      /\ UNCHANGED <<nextStreamId, remoteInitialWindowSize, maxFrameSize, granted>>
  BY DEF ConnectionWindowUpdate
<1>2. TypeOK
  BY DEF IInv
<1>3. \A t \in DOMAIN streams :
        streams[t].localWindow = remoteInitialWindowSize' + granted'[t] - sent[t]
  BY <1>1, LiveStream
<1>4. conn \in Nat /\ conn = DefaultInitialWindowSize + connectionGranted' - Total(sent)
  <2>1. Total(sent) \in Int
    BY <1>2, TotalIsInt DEF TypeOK
  <2> QED BY <1>1, <1>2, <2>1, WindowAssumption DEF TypeOK, IInv, ConnectionCredit
<1>5. connectionGranted' \in Nat
  BY <1>1, <1>2 DEF TypeOK
<1>6. \A t \in ended \cap DOMAIN streams :
        streams[t].sendQueueEndStream /\ streams[t].sendQueue = 0
  BY LiveStream
<1> HIDE DEF conn
<1> QED BY <1>1, <1>2, <1>3, <1>4, <1>5, <1>6, DrainKeeps DEF TypeOK

\* WINDOW_UPDATE on a live stream.
LEMMA StreamWindowUpdateKeeps ==
  ASSUME IInv, NEW s \in StreamIds, NEW n \in Nat,
         s \in DOMAIN streams, StreamWindowUpdate(s, n)
  PROVE  IInv'
<1> DEFINE tab == [streams EXCEPT ![s] = Grown(@, n)]
<1>1. /\ granted' = [granted EXCEPT ![s] = @ + n]
      /\ Drain({s}, tab, connectionSendWindow)
      /\ UNCHANGED <<nextStreamId, remoteInitialWindowSize, maxFrameSize, connectionGranted>>
  BY DEF StreamWindowUpdate
<1>2. TypeOK
  BY DEF IInv
<1>3. DOMAIN tab = DOMAIN streams
  OBVIOUS
<1>4. /\ tab[s] \in SendState
      /\ tab[s].localWindow = streams[s].localWindow + n
      /\ tab[s].sendQueue = streams[s].sendQueue
      /\ tab[s].sendQueueEndStream = streams[s].sendQueueEndStream
  <2>1. tab[s] = Grown(streams[s], n) /\ n \in Int /\ streams[s] \in SendState
    BY LiveStream
  <2> QED BY <2>1, GrownFields
<1>5. \A t \in DOMAIN streams \ {s} : tab[t] = streams[t]
  OBVIOUS
<1>6. tab \in [DOMAIN tab -> SendState]
  BY <1>4, <1>5, LiveStream
<1> HIDE DEF tab
<1>7. /\ granted' \in [StreamIds -> Nat]
      /\ granted'[s] = granted[s] + n
      /\ \A t \in StreamIds \ {s} : granted'[t] = granted[t]
      /\ \A t \in StreamIds : t >= nextStreamId => granted'[t] = 0
  <2>1. granted \in [StreamIds -> Nat] /\ s < nextStreamId /\ nextStreamId \in Nat
        /\ s \in Nat /\ \A t \in StreamIds : t >= nextStreamId => granted[t] = 0
    BY <1>2, BoundAssumption DEF TypeOK, StreamIds
  <2>2. /\ granted' \in [StreamIds -> Nat]
        /\ granted'[s] = granted[s] + n
        /\ \A t \in StreamIds \ {s} : granted'[t] = granted[t]
    BY <1>1, <2>1
  <2>3. \A t \in StreamIds : t >= nextStreamId => t # s
    BY <2>1
  <2> QED BY <2>1, <2>2, <2>3
<1>8. ASSUME NEW t \in DOMAIN tab
      PROVE  tab[t].localWindow = remoteInitialWindowSize' + granted'[t] - sent[t]
  <2>1. CASE t = s
    BY <1>1, <1>4, <1>7, <2>1, LiveStream
  <2>2. CASE t # s
    BY <1>1, <1>3, <1>5, <1>7, <2>2, LiveStream
  <2> QED BY <2>1, <2>2
<1>9. connectionSendWindow \in Nat
      /\ connectionSendWindow = DefaultInitialWindowSize + connectionGranted' - Total(sent)
  BY <1>1, <1>2 DEF TypeOK, IInv, ConnectionCredit
<1>10. \A t \in DOMAIN tab \ {s} :
        tab[t].sendQueue > 0 => connectionSendWindow = 0 \/ tab[t].localWindow <= 0
  BY <1>3, <1>5, LiveStream
<1>11. \A t \in ended \cap DOMAIN tab : tab[t].sendQueueEndStream /\ tab[t].sendQueue = 0
  BY <1>3, <1>4, <1>5, LiveStream
<1> QED BY <1>1, <1>2, <1>3, <1>6, <1>7, <1>8, <1>9, <1>10, <1>11, DrainKeeps DEF TypeOK

\* SETTINGS: the windows of all live streams move, and are drained if they could grow.
LEMMA ApplySettingsKeeps ==
  ASSUME IInv, NEW f \in SettingsFrames, ApplySettings(f)
  PROVE  IInv'
<1> DEFINE has == "initialWindowSize" \in DOMAIN f
           new == IF has THEN f["initialWindowSize"] ELSE remoteInitialWindowSize
           delta == new - remoteInitialWindowSize
           S == IF has THEN DOMAIN streams ELSE {}
           tab == [s \in DOMAIN streams |-> Grown(streams[s], delta)]
<1>1. /\ remoteInitialWindowSize' = new
      /\ Drain(S, tab, connectionSendWindow)
      /\ maxFrameSize' = IF "maxFrameSize" \in DOMAIN f THEN Clamp(f["maxFrameSize"])
                         ELSE maxFrameSize
      /\ UNCHANGED <<nextStreamId, granted, connectionGranted>>
  BY DEF ApplySettings
<1>2. TypeOK
  BY DEF IInv
<1>3. \A k \in DOMAIN f : f[k] \in Nat
  BY PeerAssumption DEF SettingsPayload
<1>4. new \in Nat /\ remoteInitialWindowSize \in Nat /\ delta \in Int
  BY <1>2, <1>3 DEF TypeOK
<1>5. maxFrameSize' \in MinMaxFrameSize..MaxMaxFrameSize
  BY <1>1, <1>2, <1>3, FrameSizeAssumption DEF TypeOK, Clamp, Lesser
<1>6. S \subseteq DOMAIN streams /\ (S # DOMAIN streams => S = {} /\ delta = 0)
  BY <1>4
<1>7. remoteInitialWindowSize' \in Nat /\ remoteInitialWindowSize' = remoteInitialWindowSize + delta
  BY <1>1, <1>4
<1>8. DOMAIN tab = DOMAIN streams
  OBVIOUS
<1> HIDE DEF has, new, delta, S
<1>9. ASSUME NEW t \in DOMAIN streams
      PROVE  /\ tab[t] \in SendState
             /\ tab[t].localWindow = streams[t].localWindow + delta
             /\ tab[t].sendQueue = streams[t].sendQueue
             /\ tab[t].sendQueueEndStream = streams[t].sendQueueEndStream
  BY <1>4, LiveStream, GrownFields
<1>10. tab \in [DOMAIN tab -> SendState]
  BY <1>9
<1> HIDE DEF tab
<1>11. \A t \in DOMAIN tab :
        tab[t].localWindow = remoteInitialWindowSize' + granted'[t] - sent[t]
  BY <1>1, <1>4, <1>7, <1>8, <1>9, LiveStream
<1>12. connectionSendWindow \in Nat
      /\ connectionSendWindow = DefaultInitialWindowSize + connectionGranted' - Total(sent)
  BY <1>1, <1>2 DEF TypeOK, IInv, ConnectionCredit
<1>13. \A t \in DOMAIN tab \ S :
        tab[t].sendQueue > 0 => connectionSendWindow = 0 \/ tab[t].localWindow <= 0
  BY <1>6, <1>8, <1>9, LiveStream
<1>14. \A t \in ended \cap DOMAIN tab : tab[t].sendQueueEndStream /\ tab[t].sendQueue = 0
  BY <1>8, <1>9, LiveStream
<1> QED BY <1>1, <1>2, <1>5, <1>6, <1>7, <1>8, <1>10, <1>11, <1>12, <1>13, <1>14,
          DrainKeeps DEF TypeOK

\* Every step preserves the inductive invariant.
LEMMA NextIInv == IInv /\ [Next]_vars => IInv'
<1> SUFFICES ASSUME IInv, [Next]_vars PROVE IInv'
  OBVIOUS
<1>1. CASE OpenStream
  BY <1>1, OpenStreamKeeps
<1>2. CASE \E s \in DOMAIN streams, n \in 0..MaxBody, e \in BOOLEAN : SendData(s, n, e)
  BY <1>2, SendDataKeeps
<1>3. CASE \E n \in Increments : ConnectionWindowUpdate(n)
  BY <1>3, PeerAssumption, ConnectionWindowUpdateKeeps
<1>4. CASE \E s \in StreamIds, n \in Increments : StreamWindowUpdate(s, n)
  <2>1. PICK s \in StreamIds, n \in Increments : StreamWindowUpdate(s, n)
    BY <1>4
  <2>2. CASE s \in DOMAIN streams
    BY <2>1, <2>2, PeerAssumption, StreamWindowUpdateKeeps
  <2>3. CASE s \notin DOMAIN streams
    BY <2>1, <2>3, Unchanged DEF StreamWindowUpdate
  <2> QED BY <2>2, <2>3
<1>5. CASE \E f \in SettingsFrames : ApplySettings(f)
  BY <1>5, ApplySettingsKeeps
<1>6. CASE \E S \in SUBSET DOMAIN streams : Finalize(S)
  BY <1>6, FinalizeKeeps
<1>7. CASE UNCHANGED vars
  BY <1>7, Unchanged
<1> QED BY <1>1, <1>2, <1>3, <1>4, <1>5, <1>6, <1>7 DEF Next

\* IInv holds in every reachable state.
LEMMA Invariance == Spec => []IInv
<1> QED BY InitIInv, NextIInv, PTL DEF Spec

\* The connection window of the manager never goes below zero and every other
\* variable keeps its shape, whatever the application and the peer do.
THEOREM TypeCorrect == Spec => []TypeOK
<1>1. IInv => TypeOK
  BY DEF IInv
<1> QED BY <1>1, Invariance, PTL

\* A stream's window is never charged twice or refunded: what was written on it is
\* exactly what was advertised and granted and is no longer there.
THEOREM StreamCreditKept == Spec => []StreamCredit
<1>1. IInv => StreamCredit
  BY DEF IInv
<1> QED BY <1>1, Invariance, PTL

\* The same for the connection window, whatever becomes of the streams.
THEOREM ConnectionCreditKept == Spec => []ConnectionCredit
<1>1. IInv => ConnectionCredit
  BY DEF IInv
<1> QED BY <1>1, Invariance, PTL

\* No handler leaves a queue waiting that the windows would let it write.
THEOREM NoStall == Spec => []NoIdleCredit
<1>1. IInv => NoIdleCredit
  BY DEF IInv
<1> QED BY <1>1, Invariance, PTL

\* END_STREAM is the last thing written on a stream.
THEOREM EndIsLast == Spec => []NothingAfterEnd
<1>1. IInv => NothingAfterEnd
  BY DEF IInv
<1> QED BY <1>1, Invariance, PTL
=============================================================================
