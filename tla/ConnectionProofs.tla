-------------------------- MODULE ConnectionProofs --------------------------
(***************************************************************************)
(* The invariants of Connection, and the safety part of its promise to     *)
(* callers, for any number of requests, any limits and any interleaving of *)
(* the turns of request() with frames, close() and fatal errors.           *)
(*                                                                         *)
(* The first part is about the two queues, of waiters and of jobs: all     *)
(* that the invariants need is which requests are in them and that none is *)
(* there twice.  The second part shows that every action preserves the     *)
(* inductive invariant, the third one the theorems.                        *)
(***************************************************************************)
EXTENDS Connection, FiniteSetTheorems, TLAPS

Jobs == [turn : {"recheck", "open"}, request : Requests]

\* The requests in the queues w and j, and that each is there once.
Queued(w, j) == {w[i] : i \in DOMAIN w} \cup {j[i].request : i \in DOMAIN j}
Distinct(w, j) ==
  /\ \A a, b \in DOMAIN w : w[a] = w[b] => a = b
  /\ \A a, b \in DOMAIN j : j[a].request = j[b].request => a = b
  /\ \A a \in DOMAIN w, b \in DOMAIN j : w[a] # j[b].request

-----------------------------------------------------------------------------
LEMMA AppendFacts ==
  ASSUME NEW S, NEW s \in Seq(S), NEW x \in S
  PROVE  LET t == Append(s, x) IN
         /\ t \in Seq(S) /\ DOMAIN t = 1..(Len(s) + 1) /\ Len(s) \in Nat /\ DOMAIN s = 1..Len(s)
         /\ t[Len(s) + 1] = x /\ \A i \in DOMAIN s : t[i] = s[i]
OBVIOUS

LEMMA TailFacts ==
  ASSUME NEW S, NEW s \in Seq(S), s # <<>>
  PROVE  /\ Head(s) \in S /\ Tail(s) \in Seq(S)
         /\ Len(s) \in Nat /\ Len(s) >= 1 /\ DOMAIN s = 1..Len(s) /\ s[1] = Head(s)
         /\ DOMAIN Tail(s) = 1..(Len(s) - 1)
         /\ \A i \in 1..(Len(s) - 1) : Tail(s)[i] = s[i + 1]
OBVIOUS

LEMMA SuffixFacts ==
  ASSUME NEW S, NEW s \in Seq(S), NEW k \in 0..Len(s)
  PROVE  LET t == SubSeq(s, k + 1, Len(s)) IN
         /\ t \in Seq(S) /\ Len(t) = Len(s) - k /\ DOMAIN t = 1..(Len(s) - k)
         /\ \A i \in 1..(Len(s) - k) : t[i] = s[k + i]
         /\ k = Len(s) => t = <<>>
         /\ k = 0 => t = s
<1> DEFINE t == SubSeq(s, k + 1, Len(s))
<1>1. t \in Seq(S) /\ Len(t) = Len(s) - k /\ \A i \in 1..(Len(s) - k) : t[i] = s[k + i]
  OBVIOUS
<1>2. DOMAIN t = 1..(Len(s) - k)
  BY <1>1
<1>3. k = Len(s) => t = <<>>
  BY <1>1
<1>4. k = 0 => t = s
  OBVIOUS
<1> QED BY <1>1, <1>2, <1>3, <1>4

LEMMA JoinedFacts ==
  ASSUME NEW s \in Seq(Jobs), NEW t \in Seq(Jobs)
  PROVE  LET u == s \o t IN
         /\ u \in Seq(Jobs) /\ Len(u) = Len(s) + Len(t) /\ DOMAIN u = 1..(Len(s) + Len(t))
         /\ \A i \in 1..Len(s) : u[i] = s[i]
         /\ \A i \in 1..Len(t) : u[Len(s) + i] = t[i]
         /\ Len(t) = 0 => u = s
         /\ Len(s) + Len(t) > 0 => u # <<>>
<1> DEFINE u == s \o t
<1>1. /\ u \in Seq(Jobs) /\ Len(u) = Len(s) + Len(t)
      /\ \A i \in 1..Len(s) : u[i] = s[i]
      /\ \A i \in 1..Len(t) : u[Len(s) + i] = t[i]
  OBVIOUS
<1>2. DOMAIN u = 1..(Len(s) + Len(t))
  BY <1>1
<1>3. Len(t) = 0 => u = s
  OBVIOUS
<1>4. Len(s) + Len(t) > 0 => u # <<>>
  BY <1>1
<1> QED BY <1>1, <1>2, <1>3, <1>4

\* A request that is in no queue joins one of them.
LEMMA JoinWaiters ==
  ASSUME NEW w \in Seq(Requests), NEW j \in Seq(Jobs), NEW r \in Requests,
         Distinct(w, j), r \notin Queued(w, j)
  PROVE  /\ Append(w, r) \in Seq(Requests)
         /\ Distinct(Append(w, r), j)
         /\ Queued(Append(w, r), j) = Queued(w, j) \cup {r}
<1> DEFINE t == Append(w, r)
           n == Len(w) + 1
<1>1. /\ t \in Seq(Requests) /\ DOMAIN t = 1..n /\ n \in Nat \ {0} /\ DOMAIN w = 1..(n - 1)
      /\ t[n] = r /\ \A i \in 1..(n - 1) : t[i] = w[i]
  BY AppendFacts
<1> HIDE DEF t, n
<1>2. Distinct(t, j)
  BY <1>1 DEF Distinct, Queued
<1>3. Queued(t, j) = Queued(w, j) \cup {r}
  BY <1>1 DEF Queued
<1> QED BY <1>1, <1>2, <1>3 DEF t

LEMMA JoinJobs ==
  ASSUME NEW w \in Seq(Requests), NEW j \in Seq(Jobs), NEW x \in Jobs,
         Distinct(w, j), x.request \notin Queued(w, j)
  PROVE  /\ Append(j, x) \in Seq(Jobs)
         /\ Distinct(w, Append(j, x))
         /\ Queued(w, Append(j, x)) = Queued(w, j) \cup {x.request}
<1> DEFINE t == Append(j, x)
           n == Len(j) + 1
<1>1. /\ t \in Seq(Jobs) /\ DOMAIN t = 1..n /\ n \in Nat \ {0} /\ DOMAIN j = 1..(n - 1)
      /\ t[n] = x /\ \A i \in 1..(n - 1) : t[i] = j[i]
  BY AppendFacts
<1> HIDE DEF t, n
<1>2. Distinct(w, t)
  BY <1>1 DEF Distinct, Queued
<1>3. Queued(w, t) = Queued(w, j) \cup {x.request}
  BY <1>1 DEF Queued
<1> QED BY <1>1, <1>2, <1>3 DEF t

\* The job at the head is done: its request is in no queue.
LEMMA LeaveJobs ==
  ASSUME NEW w \in Seq(Requests), NEW j \in Seq(Jobs), j # <<>>, Distinct(w, j)
  PROVE  LET r == Head(j).request IN
         /\ Head(j) \in Jobs /\ r \in Requests
         /\ Tail(j) \in Seq(Jobs)
         /\ Distinct(w, Tail(j))
         /\ r \in Queued(w, j)
         /\ Queued(w, Tail(j)) = Queued(w, j) \ {r}
<1> DEFINE t == Tail(j)
           n == Len(j)
           x == Head(j)
<1>1. /\ x \in Jobs /\ t \in Seq(Jobs) /\ DOMAIN t = 1..(n - 1) /\ n \in Nat \ {0}
      /\ DOMAIN j = 1..n
      /\ j[1] = x /\ \A i \in 1..(n - 1) : t[i] = j[i + 1]
  BY TailFacts
<1>2. x.request \in Requests
  BY <1>1 DEF Jobs
<1> HIDE DEF t, n, x
<1>3. \A i \in 1..(n - 1) : i + 1 \in 1..n
  BY <1>1
<1>4. \A i \in 2..n : i - 1 \in 1..(n - 1) /\ t[i - 1] = j[i]
  BY <1>1
<1>5. Distinct(w, t)
  <2>1. ASSUME NEW a \in DOMAIN t, NEW b \in DOMAIN t, t[a].request = t[b].request PROVE a = b
    <3>1. a + 1 \in DOMAIN j /\ b + 1 \in DOMAIN j /\ t[a] = j[a + 1] /\ t[b] = j[b + 1]
      BY <1>1, <1>3
    <3>2. a + 1 = b + 1
      BY <2>1, <3>1 DEF Distinct
    <3> QED BY <1>1, <3>2
  <2>2. ASSUME NEW a \in DOMAIN w, NEW b \in DOMAIN t PROVE w[a] # t[b].request
    <3>1. b + 1 \in DOMAIN j /\ t[b] = j[b + 1]
      BY <1>1, <1>3
    <3> QED BY <3>1 DEF Distinct
  <2>3. \A a, b \in DOMAIN w : w[a] = w[b] => a = b
    BY DEF Distinct
  <2> QED BY <2>1, <2>2, <2>3 DEF Distinct
<1>6. x.request \in Queued(w, j)
  BY <1>1 DEF Queued
<1>7. Queued(w, t) = Queued(w, j) \ {x.request}
  <2>1. ASSUME NEW r \in Queued(w, t) PROVE r \in Queued(w, j) /\ r # x.request
    <3>1. CASE \E i \in DOMAIN w : r = w[i]
      BY <1>1, <3>1 DEF Queued, Distinct
    <3>2. CASE \E i \in DOMAIN t : r = t[i].request
      <4>1. PICK i \in DOMAIN t : r = t[i].request
        BY <3>2
      <4>2. i + 1 \in DOMAIN j /\ t[i] = j[i + 1] /\ i + 1 # 1 /\ 1 \in DOMAIN j
        BY <1>1, <1>3
      <4>3. j[i + 1].request # j[1].request
        BY <4>2 DEF Distinct
      <4> QED BY <1>1, <4>1, <4>2, <4>3 DEF Queued
    <3> QED BY <3>1, <3>2 DEF Queued
  <2>2. ASSUME NEW r \in Queued(w, j), r # x.request PROVE r \in Queued(w, t)
    <3>1. CASE \E i \in DOMAIN w : r = w[i]
      BY <3>1 DEF Queued
    <3>2. CASE \E i \in DOMAIN j : r = j[i].request
      <4>1. PICK i \in DOMAIN j : r = j[i].request
        BY <3>2
      <4>2. i \in 2..n
        BY <1>1, <2>2, <4>1
      <4>3. i - 1 \in DOMAIN t /\ r = t[i - 1].request
        BY <1>1, <1>4, <4>1, <4>2
      <4> QED BY <4>3 DEF Queued
    <3> QED BY <3>1, <3>2 DEF Queued
  <2> QED BY <2>1, <2>2
<1> QED BY <1>1, <1>2, <1>5, <1>6, <1>7 DEF t, x

\* Waking moves requests from one queue to the other.
LEMMA WakeMoves ==
  ASSUME slotWaiters \in Seq(Requests), NEW due \in Seq(Jobs), NEW n \in Nat,
         Distinct(slotWaiters, due), Wake(n, due)
  PROVE  /\ jobs' \in Seq(Jobs) /\ slotWaiters' \in Seq(Requests)
         /\ Distinct(slotWaiters', jobs')
         /\ Queued(slotWaiters', jobs') = Queued(slotWaiters, due)
         /\ n >= Len(slotWaiters) => slotWaiters' = <<>>
         /\ due # <<>> \/ (n > 0 /\ slotWaiters # <<>>) => jobs' # <<>>
         /\ n = 0 => slotWaiters' = slotWaiters /\ jobs' = due
<1> DEFINE w == slotWaiters
           l == Len(w)
           m == Len(due)
           k == Lesser(n, l)
           woken == [i \in 1..k |-> Recheck(w[i])]
           t == due \o woken
           v == SubSeq(w, k + 1, l)
<1>1. /\ l \in Nat /\ DOMAIN w = 1..l /\ \A i \in 1..l : w[i] \in Requests
      /\ m \in Nat /\ DOMAIN due = 1..m /\ \A i \in 1..m : due[i] \in Jobs
      /\ l = 0 <=> w = <<>>
      /\ m = 0 <=> due = <<>>
  OBVIOUS
<1>2. jobs' = t /\ slotWaiters' = v
  BY DEF Wake
<1>3. k \in 0..l /\ (n >= l => k = l) /\ (n = 0 => k = 0) /\ (n > 0 /\ l > 0 => k > 0)
  <2>1. k = IF n <= l THEN n ELSE l
    BY DEF Lesser
  <2> HIDE DEF k, l
  <2> QED BY <1>1, <2>1
<1>4. \A i \in 1..k : Recheck(w[i]) \in Jobs /\ Recheck(w[i]).request = w[i]
  BY <1>1, <1>3 DEF Recheck, Jobs
<1> HIDE DEF k
<1>5. woken \in Seq(Jobs) /\ Len(woken) = k /\ \A i \in 1..k : woken[i].request = w[i]
  BY <1>3, <1>4
<1> HIDE DEF woken
<1>6. /\ t \in Seq(Jobs) /\ DOMAIN t = 1..(m + k)
      /\ \A i \in 1..m : t[i] = due[i]
      /\ \A i \in 1..k : t[m + i] = woken[i]
      /\ k = 0 => t = due
      /\ m + k > 0 => t # <<>>
  <2>1. m = Len(due) /\ due \in Seq(Jobs)
    OBVIOUS
  <2> HIDE DEF m
  <2>2. /\ t \in Seq(Jobs) /\ DOMAIN t = 1..(Len(due) + Len(woken))
        /\ \A i \in 1..Len(due) : t[i] = due[i]
        /\ \A i \in 1..Len(woken) : t[Len(due) + i] = woken[i]
        /\ Len(woken) = 0 => t = due
        /\ Len(due) + Len(woken) > 0 => t # <<>>
    BY <1>5, JoinedFacts
  <2> HIDE DEF t
  <2> QED BY <1>5, <2>1, <2>2
<1>7. /\ v \in Seq(Requests) /\ DOMAIN v = 1..(l - k)
      /\ \A i \in 1..(l - k) : v[i] = w[k + i]
      /\ k = l => v = <<>>
      /\ k = 0 => v = w
  BY <1>3, SuffixFacts
<1> HIDE DEF t, v, w, l, m
<1>8. \A i \in 1..m : i \in DOMAIN t /\ t[i].request = due[i].request
  BY <1>1, <1>3, <1>6
<1>9. \A i \in 1..k : m + i \in DOMAIN t /\ t[m + i].request = w[i] /\ i \in DOMAIN w
  BY <1>1, <1>3, <1>5, <1>6
<1>10. \A i \in DOMAIN v : k + i \in DOMAIN w /\ v[i] = w[k + i]
  BY <1>1, <1>3, <1>7
\* Where each element comes from.
<1>11. ASSUME NEW a \in DOMAIN t
       PROVE  \/ a \in 1..m /\ t[a].request = due[a].request
              \/ a - m \in 1..k /\ t[a].request = w[a - m]
  <2>1. a \in 1..m \/ (a - m \in 1..k /\ m + (a - m) = a)
    BY <1>1, <1>3, <1>6
  <2> QED BY <1>8, <1>9, <2>1
<1>12. Distinct(v, t)
  <2>1. ASSUME NEW a \in DOMAIN v, NEW b \in DOMAIN v, v[a] = v[b] PROVE a = b
    <3>1. k + a \in DOMAIN w /\ k + b \in DOMAIN w /\ w[k + a] = w[k + b]
      BY <1>10, <2>1
    <3>2. k + a = k + b
      BY <3>1 DEF Distinct, w
    <3> QED BY <1>3, <1>7, <3>2
  <2>2. ASSUME NEW a \in DOMAIN t, NEW b \in DOMAIN t, t[a].request = t[b].request PROVE a = b
    <3>1. CASE a \in 1..m /\ b \in 1..m
      BY <1>1, <1>8, <2>2, <3>1 DEF Distinct
    <3>2. CASE a - m \in 1..k /\ b - m \in 1..k
      <4>1. t[a].request = w[a - m] /\ t[b].request = w[b - m]
        <5>1. m + (a - m) = a /\ m + (b - m) = b
          BY <1>1, <1>3, <1>6
        <5> QED BY <1>9, <3>2, <5>1
      <4>2. a - m \in DOMAIN w /\ b - m \in DOMAIN w
        BY <1>9, <3>2
      <4>3. a - m = b - m
        BY <2>2, <4>1, <4>2 DEF Distinct, w
      <4> QED BY <1>1, <1>3, <1>6, <4>3
    <3>3. ASSUME NEW x \in 1..m, NEW y \in 1..k, due[x].request = w[y] PROVE FALSE
      <4>1. x \in DOMAIN due /\ y \in DOMAIN w
        BY <1>1, <1>9
      <4> QED BY <3>3, <4>1 DEF Distinct, w
    <3> QED BY <1>11, <2>2, <3>1, <3>2, <3>3
  <2>3. ASSUME NEW a \in DOMAIN v, NEW b \in DOMAIN t PROVE v[a] # t[b].request
    <3>1. k + a \in DOMAIN w /\ v[a] = w[k + a]
      BY <1>10
    <3>2. CASE b \in 1..m /\ t[b].request = due[b].request
      BY <1>1, <3>1, <3>2 DEF Distinct, w
    <3>3. CASE b - m \in 1..k /\ t[b].request = w[b - m]
      <4>1. b - m \in DOMAIN w
        BY <1>9, <3>3
      <4>2. k + a # b - m
        BY <1>3, <1>7, <3>3
      <4> QED BY <3>1, <3>3, <4>1, <4>2 DEF Distinct, w
    <3> QED BY <1>11, <3>2, <3>3
  <2> QED BY <2>1, <2>2, <2>3 DEF Distinct
<1>13. Queued(v, t) = Queued(w, due)
  <2>1. ASSUME NEW r \in Queued(v, t) PROVE r \in Queued(w, due)
    <3>1. CASE \E i \in DOMAIN v : r = v[i]
      BY <1>10, <3>1 DEF Queued
    <3>2. CASE \E i \in DOMAIN t : r = t[i].request
      <4>1. PICK i \in DOMAIN t : r = t[i].request
        BY <3>2
      <4>2. CASE i \in 1..m /\ t[i].request = due[i].request
        BY <1>1, <4>1, <4>2 DEF Queued
      <4>3. CASE i - m \in 1..k /\ t[i].request = w[i - m]
        BY <1>9, <4>1, <4>3 DEF Queued
      <4> QED BY <1>11, <4>2, <4>3
    <3> QED BY <3>1, <3>2 DEF Queued
  <2>2. ASSUME NEW r \in Queued(w, due) PROVE r \in Queued(v, t)
    <3>1. CASE \E i \in DOMAIN due : r = due[i].request
      BY <1>1, <1>8, <3>1 DEF Queued
    <3>2. CASE \E i \in DOMAIN w : r = w[i]
      <4>1. PICK i \in DOMAIN w : r = w[i]
        BY <3>2
      <4>2. CASE i \in 1..k
        BY <1>9, <4>1, <4>2 DEF Queued
      <4>3. CASE i \notin 1..k
        <5>1. i - k \in 1..(l - k) /\ k + (i - k) = i
          BY <1>1, <1>3, <4>3
        <5>2. i - k \in DOMAIN v /\ v[i - k] = r
          BY <1>7, <4>1, <5>1
        <5> QED BY <5>2 DEF Queued
      <4> QED BY <4>2, <4>3
    <3> QED BY <3>1, <3>2 DEF Queued
  <2> QED BY <2>1, <2>2
<1>14. n >= l => v = <<>>
  BY <1>3, <1>7
<1>15. due # <<>> \/ (n > 0 /\ w # <<>>) => t # <<>>
  BY <1>1, <1>3, <1>6
<1>16. n = 0 => v = w /\ t = due
  BY <1>3, <1>6, <1>7
<1> QED BY <1>2, <1>6, <1>7, <1>12, <1>13, <1>14, <1>15, <1>16 DEF w, l

-----------------------------------------------------------------------------
InQueue == Queued(slotWaiters, jobs)
Apart == Distinct(slotWaiters, jobs)

\* A request in a queue is pending, has no stream and was not written.
QueuedWait ==
  \A r \in InQueue : status[r] = "pending" /\ openedAs[r] = 0 /\ r \notin onWire

\* A pending request is in a queue or has a stream.
PendingPlaced ==
  \A r \in Requests :
    status[r] = "pending" => r \in InQueue \/ \E id \in DOMAIN streams : streams[id] = r

\* The request a stream answers was opened as that stream.
OwnersAgree ==
  \A id \in DOMAIN streams : streams[id] # Nobody => openedAs[streams[id]] = id

\* A request that was not made yet has left no trace.
NewUntouched ==
  \A r \in Requests : status[r] = "new" => openedAs[r] = 0 /\ r \notin onWire

\* There are ids left for the requests that may still open a stream.
Unopened == {r \in Requests : status[r] = "new"} \cup InQueue
RoomLeft == nextStreamId - 1 + Cardinality(Unopened) <= Cardinality(Requests)

LimitAdvertised == maxConcurrentStreams \in {DefaultMaxConcurrentStreams} \cup AdvertisedMax

ClosedIsEmpty == closed => activeClientStreams = {} /\ slotWaiters = <<>>

\* While a request waits, something will wake it.
SomethingWakes ==
  0 \notin {DefaultMaxConcurrentStreams} \cup AdvertisedMax
    => (slotWaiters = <<>> \/ jobs # <<>> \/ activeClientStreams # {})

Inv ==
  /\ TypeOK
  /\ Apart
  /\ QueuedWait
  /\ PendingPlaced
  /\ OwnersAgree
  /\ NewUntouched
  /\ RoomLeft
  /\ LimitAdvertised
  /\ ActiveTracksTable
  /\ ClosedIsEmpty
  /\ GoawayMeansUnprocessed
  /\ SomethingWakes

-----------------------------------------------------------------------------
LEMMA JobsTyped ==
  /\ TypeOK => jobs \in Seq(Jobs) /\ slotWaiters \in Seq(Requests)
  /\ \A r \in Requests : Recheck(r) \in Jobs /\ Recheck(r).request = r
                         /\ Open(r) \in Jobs /\ Open(r).request = r
BY DEF TypeOK, Jobs, Recheck, Open

LEMMA QueueInRequests ==
  ASSUME TypeOK PROVE InQueue \subseteq Requests /\ Unopened \subseteq Requests
<1>1. /\ \A i \in DOMAIN slotWaiters : slotWaiters[i] \in Requests
      /\ \A i \in DOMAIN jobs : jobs[i] \in Jobs
  BY JobsTyped
<1> QED BY <1>1 DEF InQueue, Unopened, Queued, Jobs

LEMMA CountedRequests ==
  /\ IsFiniteSet(Requests) /\ Cardinality(Requests) \in Nat
  /\ \A S \in SUBSET Requests : IsFiniteSet(S) /\ Cardinality(S) \in Nat
BY RequestAssumption, FS_Subset, FS_CardinalityType

\* A step that opens no stream and adds no request to those that may.
LEMMA RoomKept ==
  ASSUME TypeOK, RoomLeft, Unopened' \subseteq Unopened, nextStreamId' = nextStreamId
  PROVE  RoomLeft'
<1>1. Unopened \subseteq Requests /\ Unopened' \subseteq Requests
  BY QueueInRequests
<1>2. Cardinality(Unopened') <= Cardinality(Unopened)
  BY <1>1, CountedRequests, FS_Subset
<1>3. Cardinality(Unopened') \in Nat /\ Cardinality(Unopened) \in Nat
      /\ Cardinality(Requests) \in Nat /\ nextStreamId \in Int
  BY <1>1, CountedRequests DEF TypeOK
<1> QED BY <1>2, <1>3 DEF RoomLeft

\* A step that opens a stream for a request that may.
LEMMA RoomUsed ==
  ASSUME TypeOK, RoomLeft, NEW r \in Unopened, Unopened' \subseteq Unopened \ {r},
         nextStreamId' = nextStreamId + 1
  PROVE  RoomLeft' /\ nextStreamId \in Ids /\ nextStreamId' \in 1..Cardinality(Requests) + 1
<1>1. Unopened \subseteq Requests /\ Unopened \ {r} \subseteq Requests /\ Unopened' \subseteq Requests
  BY QueueInRequests
<1>2. Cardinality(Unopened \ {r}) = Cardinality(Unopened) - 1
  BY <1>1, CountedRequests, FS_RemoveElement
<1>3. Cardinality(Unopened') <= Cardinality(Unopened \ {r})
  BY <1>1, CountedRequests, FS_Subset
<1>4. /\ Cardinality(Unopened') \in Nat /\ Cardinality(Unopened) \in Nat
      /\ Cardinality(Unopened \ {r}) \in Nat
      /\ Cardinality(Requests) \in Nat /\ nextStreamId \in Nat /\ nextStreamId >= 1
  BY <1>1, CountedRequests DEF TypeOK
<1> QED BY <1>2, <1>3, <1>4 DEF RoomLeft, Ids

-----------------------------------------------------------------------------
LEMMA InvInit == ASSUME Init PROVE Inv
<1>1. TypeOK
  <2>1. 1 \in 1..Cardinality(Requests) + 1 /\ Cardinality(Requests) \in Nat
    BY CountedRequests
  <2>2. DOMAIN streams = {} /\ streams \in [{} -> Requests \cup {Nobody}]
    BY DEF Init
  <2>3. slotWaiters \in Seq(Requests) /\ jobs \in Seq([turn : {"recheck", "open"}, request : Requests])
    BY DEF Init
  <2> QED BY <2>1, <2>2, <2>3, LimitAssumption DEF Init, TypeOK, Ids, NoGoaway
<1>2. InQueue = {}
  BY DEF Init, InQueue, Queued
<1>3. Unopened = Requests
  BY <1>2 DEF Init, Unopened
<1>4. Apart
  BY DEF Init, Apart, Distinct
<1>5. RoomLeft
  BY <1>3, CountedRequests DEF Init, RoomLeft
<1>6. QueuedWait /\ PendingPlaced /\ OwnersAgree /\ NewUntouched
  BY <1>2 DEF Init, QueuedWait, PendingPlaced, OwnersAgree, NewUntouched
<1>7. ActiveTracksTable /\ GoawayMeansUnprocessed
  BY DEF Init, ActiveTracksTable, GoawayMeansUnprocessed
<1>8. LimitAdvertised /\ ClosedIsEmpty /\ SomethingWakes
  BY DEF Init, LimitAdvertised, ClosedIsEmpty, SomethingWakes
<1> QED BY <1>1, <1>4, <1>5, <1>6, <1>7, <1>8 DEF Inv

LEMMA InvStutter == ASSUME Inv, UNCHANGED vars PROVE Inv'
BY DEF Inv, vars, slots, table, TypeOK, Apart, Distinct, QueuedWait, PendingPlaced, OwnersAgree,
       NewUntouched, RoomLeft, Unopened, InQueue, Queued, LimitAdvertised, ActiveTracksTable,
       ClosedIsEmpty, GoawayMeansUnprocessed, SomethingWakes

\* Neither Settings nor SendGoaway touches the queues, the table or the requests.
LEMMA InvQuiet ==
  ASSUME Inv, UNCHANGED <<closed, receivedGoaway, activeClientStreams, slotWaiters, jobs, table,
                          status, onWire, openedAs, lowestGoaway>>,
         closing' \in BOOLEAN, closing => closing', reading' \in BOOLEAN, reading' \/ closed,
         maxConcurrentStreams' \in {maxConcurrentStreams} \cup AdvertisedMax
  PROVE  Inv'
<1>1. maxConcurrentStreams' \in Nat /\ LimitAdvertised'
  BY LimitAssumption DEF Inv, TypeOK, LimitAdvertised
<1>2. TypeOK'
  BY <1>1 DEF Inv, TypeOK, table
<1>3. InQueue' = InQueue /\ Unopened' = Unopened /\ (Apart <=> Apart')
  BY DEF InQueue, Queued, Unopened, Apart, Distinct
<1>4. RoomLeft'
  BY <1>3 DEF Inv, RoomLeft, table
<1>5. QueuedWait' /\ PendingPlaced' /\ OwnersAgree' /\ NewUntouched'
  BY <1>3 DEF Inv, QueuedWait, PendingPlaced, OwnersAgree, NewUntouched, table
<1>6. ActiveTracksTable' /\ GoawayMeansUnprocessed'
  BY DEF Inv, ActiveTracksTable, GoawayMeansUnprocessed, table
<1>7. ClosedIsEmpty' /\ SomethingWakes'
  BY DEF Inv, ClosedIsEmpty, SomethingWakes
<1> QED BY <1>1, <1>2, <1>3, <1>4, <1>5, <1>6, <1>7 DEF Inv

\* A request that is refused at once.
LEMMA InvRefused ==
  ASSUME Inv, NEW r \in Requests, Request(r), closing \/ closed
  PROVE  Inv'
<1>1. /\ status[r] = "new" /\ status' = [status EXCEPT ![r] = ClosingError]
      /\ UNCHANGED <<slots, closing, closed, receivedGoaway, table, reading, onWire, openedAs,
                     lowestGoaway>>
  BY DEF Request
<1>2. ClosingError \in {"connectionClosed", "goaway"}
  BY DEF ClosingError
<1>3. \A q \in Requests : q # r => status'[q] = status[q]
  BY <1>1 DEF Inv, TypeOK
<1>4. status'[r] \in {"connectionClosed", "goaway"}
  BY <1>1, <1>2 DEF Inv, TypeOK
<1>5. TypeOK'
  BY <1>1, <1>2 DEF Inv, TypeOK, Outcomes, Refusals, slots, table
<1>6. InQueue' = InQueue /\ Apart'
  BY <1>1 DEF Inv, InQueue, Queued, Apart, Distinct, slots
<1>7. r \notin InQueue /\ InQueue \subseteq Requests
  BY <1>1, QueueInRequests DEF Inv, QueuedWait
<1>8. Unopened' \subseteq Unopened
  BY <1>3, <1>4, <1>6 DEF Unopened
<1>9. RoomLeft'
  BY <1>1, <1>8, RoomKept DEF Inv, table
<1>10. QueuedWait' /\ PendingPlaced' /\ OwnersAgree' /\ NewUntouched'
  BY <1>1, <1>3, <1>4, <1>6, <1>7
     DEF Inv, QueuedWait, PendingPlaced, OwnersAgree, NewUntouched, table
<1>11. GoawayMeansUnprocessed'
  BY <1>1, <1>3 DEF Inv, GoawayMeansUnprocessed, NewUntouched
<1>12. ActiveTracksTable' /\ LimitAdvertised' /\ ClosedIsEmpty' /\ SomethingWakes'
  BY <1>1 DEF Inv, ActiveTracksTable, LimitAdvertised, ClosedIsEmpty, SomethingWakes, slots, table
<1> QED BY <1>5, <1>6, <1>9, <1>10, <1>11, <1>12 DEF Inv

\* Whoever finds no slot on an open connection leaves a stream behind which he waits.
LEMMA MustWaitBehind ==
  ASSUME Inv, MustWait, 0 \notin {DefaultMaxConcurrentStreams} \cup AdvertisedMax
  PROVE  activeClientStreams # {}
<1>1. Cardinality({}) = 0
  BY FS_EmptySet
<1>2. maxConcurrentStreams \in Nat /\ maxConcurrentStreams # 0
  BY DEF Inv, TypeOK, LimitAdvertised
<1>3. Cardinality(activeClientStreams) >= maxConcurrentStreams
  BY DEF MustWait
<1> QED BY <1>1, <1>2, <1>3

\* A request that is accepted.
LEMMA InvAccepted ==
  ASSUME Inv, NEW r \in Requests, Request(r), ~closing, ~closed
  PROVE  Inv'
<1>1. /\ status[r] = "new" /\ status' = [status EXCEPT ![r] = "pending"]
      /\ UNCHANGED <<activeClientStreams, maxConcurrentStreams, closing, closed, receivedGoaway,
                     table, reading, onWire, openedAs, lowestGoaway>>
      /\ \/ MustWait /\ slotWaiters' = Append(slotWaiters, r) /\ jobs' = jobs
         \/ ~MustWait /\ jobs' = Append(jobs, Open(r)) /\ slotWaiters' = slotWaiters
  BY DEF Request
<1>2. \A q \in Requests : q # r => status'[q] = status[q]
  BY <1>1 DEF Inv, TypeOK
<1>3. status'[r] = "pending"
  BY <1>1 DEF Inv, TypeOK
<1>4. r \notin InQueue /\ InQueue \subseteq Requests
  BY <1>1, QueueInRequests DEF Inv, QueuedWait
<1>5. /\ jobs' \in Seq(Jobs) /\ slotWaiters' \in Seq(Requests)
      /\ Apart' /\ InQueue' = InQueue \cup {r}
  <2>1. jobs \in Seq(Jobs) /\ slotWaiters \in Seq(Requests) /\ Open(r) \in Jobs /\ Open(r).request = r
    BY JobsTyped DEF Inv
  <2>2. CASE slotWaiters' = Append(slotWaiters, r) /\ jobs' = jobs
    BY <1>4, <2>1, <2>2, JoinWaiters DEF Inv, Apart, InQueue
  <2>3. CASE jobs' = Append(jobs, Open(r)) /\ slotWaiters' = slotWaiters
    BY <1>4, <2>1, <2>3, JoinJobs DEF Inv, Apart, InQueue
  <2> QED BY <1>1, <2>2, <2>3
<1>6. TypeOK'
  BY <1>1, <1>5 DEF Inv, TypeOK, Jobs, table
<1>7. Unopened' \subseteq Unopened
  BY <1>1, <1>2, <1>3, <1>5 DEF Unopened
<1>8. RoomLeft'
  BY <1>1, <1>7, RoomKept DEF Inv, table
<1>9. QueuedWait' /\ PendingPlaced' /\ OwnersAgree' /\ NewUntouched'
  BY <1>1, <1>2, <1>3, <1>4, <1>5
     DEF Inv, QueuedWait, PendingPlaced, OwnersAgree, NewUntouched, table
<1>10. GoawayMeansUnprocessed'
  BY <1>1, <1>2, <1>3 DEF Inv, GoawayMeansUnprocessed
<1>11. ActiveTracksTable' /\ LimitAdvertised' /\ ClosedIsEmpty'
  BY <1>1 DEF Inv, ActiveTracksTable, LimitAdvertised, ClosedIsEmpty, table
<1>12. SomethingWakes'
  <2>1. jobs' = jobs \/ jobs' # <<>>
    BY <1>1, JobsTyped, AppendFacts DEF Inv
  <2> QED BY <1>1, <2>1, MustWaitBehind DEF SomethingWakes, Inv
<1> QED BY <1>5, <1>6, <1>8, <1>9, <1>10, <1>11, <1>12 DEF Inv

\* A woken request goes back to the waiters or on to its last turn.
LEMMA InvRecheck ==
  ASSUME Inv, RecheckSlot
  PROVE  Inv'
<1> DEFINE r == Head(jobs).request
           rest == Tail(jobs)
<1>1. /\ jobs # <<>>
      /\ UNCHANGED <<activeClientStreams, maxConcurrentStreams, closing, closed, receivedGoaway,
                     table, reading, status, onWire, openedAs, lowestGoaway>>
      /\ \/ MustWait /\ slotWaiters' = Append(slotWaiters, r) /\ jobs' = rest
         \/ ~MustWait /\ jobs' = Append(rest, Open(r)) /\ slotWaiters' = slotWaiters
  BY DEF RecheckSlot
<1>2. jobs \in Seq(Jobs) /\ slotWaiters \in Seq(Requests) /\ Distinct(slotWaiters, jobs)
  BY JobsTyped DEF Inv, Apart
<1>3. /\ r \in Requests /\ rest \in Seq(Jobs)
      /\ Distinct(slotWaiters, rest)
      /\ r \in InQueue /\ Queued(slotWaiters, rest) = InQueue \ {r}
  BY <1>1, <1>2, LeaveJobs DEF InQueue
<1> HIDE DEF r, rest
<1>4. Open(r) \in Jobs /\ Open(r).request = r
  BY <1>3, JobsTyped
<1>5. /\ jobs' \in Seq(Jobs) /\ slotWaiters' \in Seq(Requests)
      /\ Apart' /\ InQueue' = InQueue
  <2>1. r \notin Queued(slotWaiters, rest)
    BY <1>3
  <2>4. (InQueue \ {r}) \cup {r} = InQueue
    BY <1>3
  <2>2. CASE slotWaiters' = Append(slotWaiters, r) /\ jobs' = rest
    <3>1. /\ slotWaiters' \in Seq(Requests) /\ Distinct(slotWaiters', jobs')
          /\ Queued(slotWaiters', jobs') = (InQueue \ {r}) \cup {r}
      BY <1>2, <1>3, <2>1, <2>2, JoinWaiters
    <3> QED BY <1>3, <2>2, <3>1, <2>4 DEF Apart, InQueue
  <2>3. CASE jobs' = Append(rest, Open(r)) /\ slotWaiters' = slotWaiters
    <3>1. /\ jobs' \in Seq(Jobs) /\ Distinct(slotWaiters', jobs')
          /\ Queued(slotWaiters', jobs') = (InQueue \ {r}) \cup {r}
      BY <1>2, <1>3, <1>4, <2>1, <2>3, JoinJobs
    <3> QED BY <1>2, <2>3, <3>1, <2>4 DEF Apart, InQueue
  <2> QED BY <1>1, <2>2, <2>3
<1>6. TypeOK'
  BY <1>1, <1>5 DEF Inv, TypeOK, Jobs, table
<1>7. RoomLeft'
  BY <1>1, <1>5 DEF Inv, RoomLeft, Unopened, table
<1>8. QueuedWait' /\ PendingPlaced' /\ OwnersAgree' /\ NewUntouched'
  BY <1>1, <1>5 DEF Inv, QueuedWait, PendingPlaced, OwnersAgree, NewUntouched, table
<1>9. ActiveTracksTable' /\ LimitAdvertised' /\ GoawayMeansUnprocessed'
  BY <1>1 DEF Inv, ActiveTracksTable, LimitAdvertised, GoawayMeansUnprocessed, table
<1>10. ClosedIsEmpty'
  BY <1>1 DEF Inv, ClosedIsEmpty, MustWait
<1>11. SomethingWakes'
  <2>1. MustWait \/ jobs' # <<>>
    BY <1>1, <1>3, <1>4, AppendFacts
  <2> QED BY <1>1, <2>1, MustWaitBehind DEF SomethingWakes, Inv
<1> QED BY <1>5, <1>6, <1>7, <1>8, <1>9, <1>10, <1>11 DEF Inv

\* The request at the head of the jobs opens its stream.
LEMMA InvOpenAndSend ==
  ASSUME Inv, OpenAndSend
  PROVE  Inv'
<1> DEFINE r == Head(jobs).request
           id == nextStreamId
<1>1. /\ jobs # <<>> /\ ~closing /\ ~closed /\ jobs' = Tail(jobs)
      /\ streams' = [i \in DOMAIN streams \cup {id} |-> IF i = id THEN r ELSE streams[i]]
      /\ nextStreamId' = id + 1
      /\ openedAs' = [openedAs EXCEPT ![r] = id]
      /\ activeClientStreams' = activeClientStreams \cup {id}
      /\ \/ status' = [status EXCEPT ![r] = "badHeaders"] /\ onWire' = onWire
         \/ status' = status /\ onWire' = onWire \cup {r}
      /\ UNCHANGED <<closing, closed, receivedGoaway, slotWaiters, maxConcurrentStreams,
                     reading, lowestGoaway>>
  BY DEF OpenAndSend, OpenStream
<1>2. jobs \in Seq(Jobs) /\ slotWaiters \in Seq(Requests) /\ Distinct(slotWaiters, jobs)
  BY JobsTyped DEF Inv, Apart
<1>3. /\ r \in Requests /\ jobs' \in Seq(Jobs)
      /\ Apart' /\ r \in InQueue /\ InQueue' = InQueue \ {r}
  BY <1>1, <1>2, LeaveJobs DEF InQueue, Apart
<1> HIDE DEF r, id
<1>4. status[r] = "pending" /\ openedAs[r] = 0 /\ r \notin onWire
  BY <1>3 DEF Inv, QueuedWait
<1>5. \A q \in Requests : q # r => /\ status'[q] = status[q] /\ openedAs'[q] = openedAs[q]
                                   /\ q \in onWire' <=> q \in onWire
  BY <1>1 DEF Inv, TypeOK
<1>6. openedAs'[r] = id /\ status'[r] \in {"badHeaders", "pending"} /\ r # Nobody
  BY <1>1, <1>3, <1>4, RequestAssumption DEF Inv, TypeOK
<1>7. id \notin DOMAIN streams /\ id \in Nat /\ id >= 1
  BY DEF Inv, TypeOK, id
<1>8. /\ DOMAIN streams' = DOMAIN streams \cup {id} /\ streams'[id] = r
      /\ \A i \in DOMAIN streams : streams'[i] = streams[i]
  BY <1>1, <1>7
<1>9. Unopened' \subseteq Unopened \ {r} /\ r \in Unopened
  BY <1>3, <1>5, <1>6, QueueInRequests DEF Unopened, Inv
<1>10. RoomLeft' /\ id \in Ids /\ nextStreamId' \in 1..Cardinality(Requests) + 1
  BY <1>1, <1>9, RoomUsed DEF Inv, id
<1>11. TypeOK'
  <2>1. streams' \in [DOMAIN streams' -> Requests \cup {Nobody}]
    BY <1>1, <1>3 DEF Inv, TypeOK
  <2>2. DOMAIN streams' \subseteq 1..nextStreamId' - 1 /\ activeClientStreams' \subseteq DOMAIN streams'
    BY <1>1, <1>7, <1>8 DEF Inv, TypeOK, id
  <2>3. status' \in [Requests -> {"new", "pending"} \cup Outcomes]
        /\ openedAs' \in [Requests -> {0} \cup Ids] /\ onWire' \subseteq Requests
    BY <1>1, <1>3, <1>10 DEF Inv, TypeOK, Outcomes, Refusals
  <2>4. jobs' \in Seq([turn : {"recheck", "open"}, request : Requests])
    BY <1>3 DEF Jobs
  <2> QED BY <1>1, <1>10, <2>1, <2>2, <2>3, <2>4 DEF Inv, TypeOK
<1>12. QueuedWait' /\ NewUntouched'
  <2>1. InQueue \subseteq Requests
    BY QueueInRequests DEF Inv
  <2> QED BY <1>3, <1>5, <1>6, <2>1 DEF Inv, QueuedWait, NewUntouched
<1>13. PendingPlaced'
  <2>1. ASSUME NEW q \in Requests, status'[q] = "pending", q \notin InQueue'
        PROVE  \E i \in DOMAIN streams' : streams'[i] = q
    <3>1. CASE q = r
      BY <1>8, <3>1
    <3>2. CASE q # r
      BY <1>3, <1>5, <1>8, <2>1, <3>2 DEF Inv, PendingPlaced
    <3> QED BY <3>1, <3>2
  <2> QED BY <2>1 DEF PendingPlaced
<1>14. OwnersAgree'
  <2>1. ASSUME NEW i \in DOMAIN streams, streams[i] # Nobody PROVE openedAs'[streams[i]] = i
    <3>1. openedAs[streams[i]] = i /\ streams[i] \in Requests /\ i # 0
      BY <2>1 DEF Inv, OwnersAgree, TypeOK
    <3> QED BY <1>4, <1>5, <3>1
  <2> QED BY <1>6, <1>8, <2>1 DEF OwnersAgree
<1>15. ActiveTracksTable'
  BY <1>1, <1>6, <1>8 DEF Inv, ActiveTracksTable
<1>16. GoawayMeansUnprocessed'
  BY <1>1, <1>5, <1>6 DEF Inv, GoawayMeansUnprocessed
<1>17. LimitAdvertised' /\ ClosedIsEmpty' /\ SomethingWakes'
  BY <1>1 DEF Inv, LimitAdvertised, ClosedIsEmpty, SomethingWakes
<1> QED BY <1>3, <1>10, <1>11, <1>12, <1>13, <1>14, <1>15, <1>16, <1>17 DEF Inv

\* The request at the head of the jobs finds the connection closing.
LEMMA InvOpenAndBail ==
  ASSUME Inv, OpenAndBail
  PROVE  Inv'
<1> DEFINE r == Head(jobs).request
           id == nextStreamId
           rest == Tail(jobs)
<1>1. /\ jobs # <<>> /\ (closing \/ closed)
      /\ streams' = [i \in DOMAIN streams \cup {id} |-> IF i = id THEN Nobody ELSE streams[i]]
      /\ nextStreamId' = id + 1
      /\ status' = [status EXCEPT ![r] = ClosingError]
      /\ Wake(1, rest)
      /\ UNCHANGED <<closing, closed, receivedGoaway, activeClientStreams, maxConcurrentStreams,
                     reading, onWire, openedAs, lowestGoaway>>
  BY DEF OpenAndBail, OpenStream
<1>2. jobs \in Seq(Jobs) /\ slotWaiters \in Seq(Requests) /\ Distinct(slotWaiters, jobs)
  BY JobsTyped DEF Inv, Apart
<1>3. /\ r \in Requests /\ rest \in Seq(Jobs) /\ Distinct(slotWaiters, rest)
      /\ r \in InQueue /\ Queued(slotWaiters, rest) = InQueue \ {r}
  BY <1>1, <1>2, LeaveJobs DEF InQueue
<1> HIDE DEF r, id, rest
<1>4. /\ jobs' \in Seq(Jobs) /\ slotWaiters' \in Seq(Requests)
      /\ Apart' /\ InQueue' = InQueue \ {r}
      /\ 1 >= Len(slotWaiters) => slotWaiters' = <<>>
      /\ slotWaiters # <<>> => jobs' # <<>>
  BY <1>1, <1>2, <1>3, WakeMoves DEF InQueue, Apart
<1>5. slotWaiters = <<>> => slotWaiters' = <<>>
  BY <1>4
<1>6. ClosingError \in {"connectionClosed", "goaway"}
  BY DEF ClosingError
<1>7. status[r] = "pending" /\ openedAs[r] = 0 /\ r \notin onWire
  BY <1>3 DEF Inv, QueuedWait
<1>8. \A q \in Requests : q # r => status'[q] = status[q]
  BY <1>1 DEF Inv, TypeOK
<1>9. status'[r] \in {"connectionClosed", "goaway"}
  BY <1>1, <1>3, <1>6 DEF Inv, TypeOK
<1>10. id \notin DOMAIN streams /\ id \in Nat /\ id >= 1
  BY DEF Inv, TypeOK, id
<1>11. /\ DOMAIN streams' = DOMAIN streams \cup {id} /\ streams'[id] = Nobody
       /\ \A i \in DOMAIN streams : streams'[i] = streams[i]
  BY <1>1, <1>10
<1>12. Unopened' \subseteq Unopened \ {r} /\ r \in Unopened
  BY <1>3, <1>4, <1>8, <1>9, QueueInRequests DEF Unopened, Inv
<1>13. RoomLeft' /\ nextStreamId' \in 1..Cardinality(Requests) + 1
  BY <1>1, <1>12, RoomUsed DEF Inv, id
<1>14. TypeOK'
  <2>1. streams' \in [DOMAIN streams' -> Requests \cup {Nobody}]
    BY <1>1 DEF Inv, TypeOK
  <2>2. DOMAIN streams' \subseteq 1..nextStreamId' - 1 /\ activeClientStreams' \subseteq DOMAIN streams'
    BY <1>1, <1>10, <1>11 DEF Inv, TypeOK, id
  <2>3. status' \in [Requests -> {"new", "pending"} \cup Outcomes]
    BY <1>1, <1>6 DEF Inv, TypeOK, Outcomes, Refusals
  <2>4. jobs' \in Seq([turn : {"recheck", "open"}, request : Requests])
    BY <1>4 DEF Jobs
  <2> QED BY <1>1, <1>4, <1>13, <2>1, <2>2, <2>3, <2>4 DEF Inv, TypeOK
<1>15. QueuedWait' /\ NewUntouched'
  <2>1. InQueue \subseteq Requests
    BY QueueInRequests DEF Inv
  <2> QED BY <1>1, <1>4, <1>8, <1>9, <2>1 DEF Inv, QueuedWait, NewUntouched
<1>16. PendingPlaced'
  BY <1>4, <1>8, <1>9, <1>11 DEF Inv, PendingPlaced
<1>17. OwnersAgree'
  BY <1>1, <1>11 DEF Inv, OwnersAgree
<1>18. ActiveTracksTable'
  <2>1. closing'
    BY <1>1 DEF Inv, TypeOK
  <2> QED BY <1>1, <1>10, <1>11, <2>1 DEF Inv, ActiveTracksTable
<1>19. GoawayMeansUnprocessed'
  BY <1>1, <1>7, <1>8 DEF Inv, GoawayMeansUnprocessed
<1>20. LimitAdvertised' /\ ClosedIsEmpty' /\ SomethingWakes'
  BY <1>1, <1>4, <1>5 DEF Inv, LimitAdvertised, ClosedIsEmpty, SomethingWakes
<1> QED BY <1>4, <1>13, <1>14, <1>15, <1>16, <1>17, <1>18, <1>19, <1>20 DEF Inv

\* What ending the streams of S does to the table and the requests, however the
\* waiters are woken.
LEMMA InvSettle ==
  ASSUME Inv, NEW S, NEW outcome \in Outcomes, NEW n \in Nat,
         streams' = [id \in DOMAIN streams \ S |-> streams[id]],
         status' = [r \in Requests |-> IF r \in Waiting(S) THEN outcome ELSE status[r]],
         activeClientStreams' = activeClientStreams \ S,
         Wake(n, jobs),
         activeClientStreams \cap S # {} /\ slotWaiters # <<>> => n > 0,
         UNCHANGED <<maxConcurrentStreams, nextStreamId, onWire, openedAs>>,
         closing' \in BOOLEAN, closing => closing', closed' \in BOOLEAN, closed' => closing',
         reading' \in BOOLEAN, reading' \/ closed', receivedGoaway' \in {NoGoaway} \cup Nat,
         closed' => \/ closed
                    \/ DOMAIN streams \subseteq S /\ n >= Len(slotWaiters),
         lowestGoaway' \in Nat, lowestGoaway' <= lowestGoaway,
         outcome = "goaway" => \A id \in S \cap DOMAIN streams : id > lowestGoaway'
  PROVE  Inv'
<1>1. jobs \in Seq(Jobs) /\ slotWaiters \in Seq(Requests) /\ Distinct(slotWaiters, jobs)
  BY JobsTyped DEF Inv, Apart
<1>2. /\ jobs' \in Seq(Jobs) /\ slotWaiters' \in Seq(Requests)
      /\ Apart' /\ InQueue' = InQueue
      /\ n >= Len(slotWaiters) => slotWaiters' = <<>>
      /\ jobs # <<>> \/ (n > 0 /\ slotWaiters # <<>>) => jobs' # <<>>
  BY <1>1, WakeMoves DEF InQueue, Apart
<1>3. slotWaiters = <<>> => slotWaiters' = <<>>
  BY <1>2
<1>4. DOMAIN streams' = DOMAIN streams \ S /\ \A id \in DOMAIN streams' : streams'[id] = streams[id]
  OBVIOUS
\* Only requests with a stream in S change, and those are in no queue.
<1>5. ASSUME NEW r \in Requests
      PROVE  \/ r \notin Waiting(S) /\ status'[r] = status[r]
             \/ /\ status[r] = "pending" /\ status'[r] = outcome
                /\ \E id \in S \cap DOMAIN streams : streams[id] = r /\ openedAs[r] = id
  BY RequestAssumption DEF Waiting, Inv, OwnersAgree
<1>6. outcome \notin {"new", "pending"}
  BY DEF Outcomes, Refusals
<1>7. Unopened' \subseteq Unopened
  BY <1>2, <1>5, <1>6 DEF Unopened
<1>8. RoomLeft'
  BY <1>7, RoomKept DEF Inv
<1>9. TypeOK'
  <2>1. streams' \in [DOMAIN streams' -> Requests \cup {Nobody}]
    BY <1>4 DEF Inv, TypeOK
  <2>2. DOMAIN streams' \subseteq 1..nextStreamId' - 1 /\ activeClientStreams' \subseteq DOMAIN streams'
    BY <1>4 DEF Inv, TypeOK
  <2>3. status' \in [Requests -> {"new", "pending"} \cup Outcomes]
    BY DEF Inv, TypeOK
  <2>4. jobs' \in Seq([turn : {"recheck", "open"}, request : Requests])
    BY <1>2 DEF Jobs
  <2> QED BY <1>2, <2>1, <2>2, <2>3, <2>4 DEF Inv, TypeOK
<1>10. QueuedWait'
  <2>1. ASSUME NEW r \in InQueue PROVE r \in Requests /\ status'[r] = status[r]
    <3>1. r \in Requests /\ openedAs[r] = 0
      BY QueueInRequests DEF Inv, QueuedWait
    <3>2. 0 \notin DOMAIN streams
      BY DEF Inv, TypeOK
    <3> QED BY <1>5, <3>1, <3>2
  <2> QED BY <1>2, <2>1 DEF Inv, QueuedWait
<1>11. NewUntouched'
  BY <1>5, <1>6 DEF Inv, NewUntouched
<1>12. PendingPlaced'
  <2>1. ASSUME NEW r \in Requests, status'[r] = "pending", r \notin InQueue
        PROVE  \E id \in DOMAIN streams' : streams'[id] = r
    <3>1. r \notin Waiting(S) /\ status[r] = "pending"
      BY <1>5, <1>6, <2>1
    <3>2. PICK id \in DOMAIN streams : streams[id] = r
      BY <2>1, <3>1 DEF Inv, PendingPlaced
    <3>3. id \notin S
      BY <3>1, <3>2 DEF Waiting
    <3> QED BY <1>4, <3>2, <3>3
  <2> QED BY <1>2, <2>1 DEF PendingPlaced
<1>13. OwnersAgree'
  BY <1>4 DEF Inv, OwnersAgree
<1>14. ActiveTracksTable'
  BY <1>4 DEF Inv, ActiveTracksTable, TypeOK
<1>15. GoawayMeansUnprocessed'
  <2>1. ASSUME NEW r \in Requests, status'[r] = "goaway", r \in onWire
        PROVE  openedAs[r] > lowestGoaway'
    <3>1. CASE status'[r] = status[r]
      <4>1. openedAs[r] > lowestGoaway
        BY <2>1, <3>1 DEF Inv, GoawayMeansUnprocessed
      <4>2. openedAs[r] \in Int /\ lowestGoaway \in Int
        BY DEF Inv, TypeOK, Ids
      <4> QED BY <4>1, <4>2
    <3>2. CASE \E id \in S \cap DOMAIN streams : openedAs[r] = id /\ outcome = "goaway"
      BY <3>2
    <3> QED BY <1>5, <2>1, <3>1, <3>2
  <2> QED BY <2>1 DEF GoawayMeansUnprocessed
<1>16. ClosedIsEmpty'
  BY <1>2, <1>3 DEF Inv, ClosedIsEmpty, TypeOK
<1>17. LimitAdvertised'
  BY DEF Inv, LimitAdvertised
<1>18. SomethingWakes'
  <2>1. CASE slotWaiters = <<>> \/ jobs # <<>>
    BY <1>2, <1>3, <2>1 DEF SomethingWakes
  <2>2. CASE slotWaiters # <<>> /\ activeClientStreams \cap S # {}
    BY <1>2, <2>2 DEF SomethingWakes
  <2>3. CASE activeClientStreams \cap S = {}
    BY <1>2, <1>3, <2>3 DEF SomethingWakes, Inv
  <2> QED BY <2>1, <2>2, <2>3
<1> QED BY <1>2, <1>8, <1>9, <1>10, <1>11, <1>12, <1>13, <1>14, <1>15, <1>16, <1>17, <1>18 DEF Inv

LEMMA ActiveFinite ==
  ASSUME Inv, NEW S
  PROVE  /\ Cardinality(activeClientStreams \cap S \cap DOMAIN streams) \in Nat
         /\ activeClientStreams \cap S # {} =>
              Cardinality(activeClientStreams \cap S \cap DOMAIN streams) > 0
<1> DEFINE T == activeClientStreams \cap S \cap DOMAIN streams
<1>1. T = activeClientStreams \cap S /\ T \subseteq 1..nextStreamId - 1
  BY DEF Inv, TypeOK
<1>2. IsFiniteSet(1..nextStreamId - 1)
  <2>1. 1 \in Int /\ nextStreamId - 1 \in Int
    BY DEF Inv, TypeOK
  <2> QED BY <2>1, FS_Interval
<1>3. IsFiniteSet(T)
  BY <1>1, <1>2, FS_Subset
<1> HIDE DEF T
<1>4. Cardinality(T) \in Nat /\ (Cardinality(T) = 0 <=> T = {})
  BY <1>3, FS_CardinalityType, FS_EmptySet
<1> QED BY <1>1, <1>4 DEF T

\* A frame of the peer that ends the streams of S.
LEMMA InvFinalize ==
  ASSUME Inv, NEW S, NEW outcome \in Outcomes, FinalizeStreams(S, outcome), Dispatched,
         UNCHANGED <<closed, maxConcurrentStreams, onWire, openedAs>>,
         closing' \in BOOLEAN, closing => closing', receivedGoaway' \in {NoGoaway} \cup Nat,
         lowestGoaway' \in Nat, lowestGoaway' <= lowestGoaway,
         outcome = "goaway" => \A id \in S \cap DOMAIN streams : id > lowestGoaway'
  PROVE  Inv'
<1> DEFINE n == Cardinality(activeClientStreams \cap S \cap DOMAIN streams)
<1>1. n \in Nat /\ (activeClientStreams \cap S # {} => n > 0)
  BY ActiveFinite
<1> HIDE DEF n
<1>2. /\ streams' = [id \in DOMAIN streams \ S |-> streams[id]]
      /\ status' = [r \in Requests |-> IF r \in Waiting(S) THEN outcome ELSE status[r]]
      /\ activeClientStreams' = activeClientStreams \ S
      /\ Wake(n, jobs) /\ nextStreamId' = nextStreamId
  BY DEF FinalizeStreams, n
<1>3. reading' \in BOOLEAN /\ (reading' \/ closed') /\ closed' \in BOOLEAN /\ (closed' => closing')
  BY DEF Dispatched, Inv, TypeOK
<1> QED BY <1>1, <1>2, <1>3, InvSettle

\* close() and fatal errors.
LEMMA InvTearDown ==
  ASSUME Inv, NEW outcome \in {"fatal", "connectionClosed"}, TearDown(outcome), reading' \in BOOLEAN
  PROVE  Inv'
<1> DEFINE S == DOMAIN streams
           n == Len(slotWaiters)
<1>0. n \in Nat /\ (n = 0 => slotWaiters = <<>>)
  BY DEF Inv, TypeOK
<1>1. /\ streams' = [id \in DOMAIN streams \ S |-> streams[id]]
      /\ status' = [r \in Requests |-> IF r \in Waiting(S) THEN outcome ELSE status[r]]
      /\ activeClientStreams' = activeClientStreams \ S
      /\ Wake(n, jobs)
      /\ closing' = TRUE /\ closed' = TRUE
      /\ UNCHANGED <<receivedGoaway, maxConcurrentStreams, nextStreamId, onWire, openedAs, lowestGoaway>>
  BY DEF TearDown, Inv, TypeOK
<1>2. closed' => DOMAIN streams \subseteq S /\ n >= Len(slotWaiters)
  BY <1>0
<1>3. /\ receivedGoaway' \in {NoGoaway} \cup Nat
      /\ lowestGoaway' \in Nat /\ lowestGoaway' <= lowestGoaway
      /\ outcome \in Outcomes /\ outcome # "goaway"
  BY <1>1 DEF Inv, TypeOK, Outcomes, Refusals
<1>4. slotWaiters # <<>> => n > 0
  BY <1>0
<1> HIDE DEF S, n
<1> QED BY <1>0, <1>1, <1>2, <1>3, <1>4, InvSettle

LEMMA InvNext == ASSUME Inv, [Next]_vars PROVE Inv'
<1>1. ASSUME NEW r \in Requests, Request(r) PROVE Inv'
  BY <1>1, InvRefused, InvAccepted
<1>2. CASE RecheckSlot
  BY <1>2, InvRecheck
<1>3. CASE OpenAndSend
  BY <1>3, InvOpenAndSend
<1>4. CASE OpenAndBail
  BY <1>4, InvOpenAndBail
<1>5. ASSUME NEW id \in Ids, NEW outcome \in {"served", "reset"}, Answer(id, outcome) PROVE Inv'
  <2>1. /\ FinalizeStreams({id}, outcome) /\ Dispatched
        /\ UNCHANGED <<closing, closed, receivedGoaway, maxConcurrentStreams, onWire, openedAs, lowestGoaway>>
    BY <1>5 DEF Answer
  <2>2. outcome \in Outcomes /\ outcome # "goaway"
    BY DEF Outcomes, Refusals
  <2>3. /\ closing' \in BOOLEAN /\ (closing => closing') /\ receivedGoaway' \in {NoGoaway} \cup Nat
        /\ lowestGoaway' \in Nat /\ lowestGoaway' <= lowestGoaway
    BY <2>1 DEF Inv, TypeOK
  <2> QED BY <2>1, <2>2, <2>3, InvFinalize
<1>6. ASSUME NEW last \in {0} \cup Ids, Goaway(last) PROVE Inv'
  <2> DEFINE S == {id \in DOMAIN streams : id > last}
  <2>1. /\ FinalizeStreams(S, "goaway") /\ Dispatched
        /\ receivedGoaway' = last /\ closing' = TRUE /\ lowestGoaway' = Lesser(lowestGoaway, last)
        /\ UNCHANGED <<closed, maxConcurrentStreams, onWire, openedAs>>
    BY <1>6 DEF Goaway
  <2>2. last \in Nat /\ lowestGoaway \in Nat
    BY CountedRequests DEF Ids, Inv, TypeOK
  <2>3. "goaway" \in Outcomes
    BY DEF Outcomes, Refusals
  <2>4. lowestGoaway' \in Nat /\ lowestGoaway' <= lowestGoaway /\ lowestGoaway' <= last
    BY <2>1, <2>2 DEF Lesser
  <2>5. \A id \in S \cap DOMAIN streams : id > lowestGoaway'
    <3>1. \A id \in S : id \in Nat /\ id > last
      BY DEF Inv, TypeOK
    <3> HIDE DEF S
    <3> QED BY <2>2, <2>4, <3>1
  <2> HIDE DEF S
  <2> QED BY <2>1, <2>2, <2>3, <2>4, <2>5, InvFinalize
<1>7. ASSUME NEW max \in AdvertisedMax, Settings(max) PROVE Inv'
  <2>1. /\ UNCHANGED <<closed, receivedGoaway, activeClientStreams, slotWaiters, jobs, table,
                       status, onWire, openedAs, lowestGoaway>>
        /\ closing' = closing /\ maxConcurrentStreams' = max /\ reading' = ~closed
    BY <1>7 DEF Settings, Dispatched
  <2>2. closing' \in BOOLEAN /\ reading' \in BOOLEAN /\ (reading' \/ closed)
    BY <2>1 DEF Inv, TypeOK
  <2> QED BY <2>1, <2>2, InvQuiet
<1>8. CASE Fatal
  <2>1. CASE closed
    <3>1. /\ UNCHANGED <<closed, receivedGoaway, activeClientStreams, slotWaiters, jobs, table,
                         status, onWire, openedAs, lowestGoaway>>
          /\ closing' = closing /\ maxConcurrentStreams' = maxConcurrentStreams /\ reading' = FALSE
      BY <1>8, <2>1 DEF Fatal, slots
    <3>2. closing' \in BOOLEAN
      BY <3>1 DEF Inv, TypeOK
    <3> QED BY <2>1, <3>1, <3>2, InvQuiet
  <2>2. CASE ~closed
    BY <1>8, <2>2, InvTearDown DEF Fatal
  <2> QED BY <2>1, <2>2
<1>9. CASE SendGoaway
  <2>1. /\ UNCHANGED <<closed, receivedGoaway, activeClientStreams, slotWaiters, jobs, table,
                       status, onWire, openedAs, lowestGoaway>>
        /\ closing' = TRUE /\ maxConcurrentStreams' = maxConcurrentStreams /\ reading' = reading
    BY <1>9 DEF SendGoaway, slots
  <2>2. reading' \in BOOLEAN /\ (reading' \/ closed)
    BY <2>1 DEF Inv, TypeOK
  <2> QED BY <2>1, <2>2, InvQuiet
<1>10. CASE Close
  <2>1. TearDown("connectionClosed") /\ reading' \in BOOLEAN
    BY <1>10 DEF Close, Inv, TypeOK
  <2> QED BY <2>1, InvTearDown
<1>11. CASE UNCHANGED vars
  BY <1>11, InvStutter
<1> QED BY <1>1, <1>2, <1>3, <1>4, <1>5, <1>6, <1>7, <1>8, <1>9, <1>10, <1>11 DEF Next

\* Inv is an invariant of the specification.
THEOREM InvAlways == Spec => []Inv
BY InvInit, InvNext, PTL DEF Spec

-----------------------------------------------------------------------------
\* The variables keep the shape the code gives them: in particular no request opens a
\* second stream, and the read loop only ends with the connection (Connection.TypeOK).
THEOREM ConnectionTypeCorrect == Spec => []TypeOK
<1>1. Inv => TypeOK
  BY DEF Inv
<1> QED BY <1>1, InvAlways, PTL

\* The connection's active streams and the manager's table agree, whatever order the
\* "streamClosed" events and the requests' turns come in (connection.ts:99).
THEOREM ActiveAgreesWithTable == Spec => []ActiveTracksTable
<1>1. Inv => ActiveTracksTable
  BY DEF Inv
<1> QED BY <1>1, InvAlways, PTL

\* A request that failed with GoawayReceivedError is safe to send again, for any number
\* of GOAWAY frames with any last stream ids (closingError and the "goaway" handler, connection.ts:374-420).
THEOREM GoawayIsRetryable == Spec => []GoawayMeansUnprocessed
<1>1. Inv => GoawayMeansUnprocessed
  BY DEF Inv
<1> QED BY <1>1, InvAlways, PTL

\* A closed connection leaves nobody waiting (connection.ts:234).
THEOREM ClosingSettlesAll == Spec => []ClosedMeansEmpty
<1>1. ASSUME Inv PROVE ClosedMeansEmpty
  <2>1. ASSUME closed, jobs = <<>>, NEW r \in Requests, status[r] = "pending" PROVE FALSE
    <3>1. InQueue = {}
      BY <1>1, <2>1 DEF Inv, ClosedIsEmpty, InQueue, Queued
    <3>2. PICK id \in DOMAIN streams : streams[id] = r
      BY <1>1, <2>1, <3>1 DEF Inv, PendingPlaced
    <3>3. id \in activeClientStreams
      BY <1>1, <3>2, RequestAssumption DEF Inv, ActiveTracksTable
    <3> QED BY <1>1, <2>1, <3>3 DEF Inv, ClosedIsEmpty
  <2> QED BY <1>1, <2>1 DEF Inv, ClosedIsEmpty, ClosedMeansEmpty
<1> QED BY <1>1, InvAlways, PTL

\* While requests wait for a slot, a stream is open whose end will wake one, or a job is
\* due that will, if the peer never forbids all streams (connection.ts:331-357).
THEOREM WaitersAreWoken ==
  ASSUME 0 \notin {DefaultMaxConcurrentStreams} \cup AdvertisedMax
  PROVE  Spec => []WaitersHaveAWaker
<1>1. ASSUME Inv PROVE WaitersHaveAWaker
  BY <1>1 DEF Inv, SomethingWakes, SlotsInUse, WaitersHaveAWaker
<1> QED BY <1>1, InvAlways, PTL

LEMMA OneOrNone ==
  /\ Cardinality({}) = 0
  /\ \A T : T # {} /\ (\A a, b \in T : a = b) => Cardinality(T) = 1
<1>1. Cardinality({}) = 0
  BY FS_EmptySet
<1>2. ASSUME NEW T, T # {}, \A a, b \in T : a = b PROVE Cardinality(T) = 1
  <2>1. PICK x : x \in T
    BY <1>2
  <2>2. T = {x}
    BY <1>2, <2>1
  <2> QED BY <2>2, FS_Singleton
<1> QED BY <1>1, <1>2

\* A pending request waits in exactly one place, so no wake-up is lost and no request
\* is opened twice, in any interleaving of its turns with frames and with close().
THEOREM PendingInOnePlace == Spec => []InOnePlace
<1>1. ASSUME Inv, NEW r \in Requests, status[r] = "pending" PROVE Places(r) = 1
  <2> DEFINE A == {i \in DOMAIN slotWaiters : slotWaiters[i] = r}
             B == {i \in DOMAIN jobs : jobs[i].request = r}
             C == {id \in activeClientStreams : streams[id] = r}
  <2>1. /\ \A a, b \in A : a = b
        /\ \A a, b \in B : a = b
        /\ A = {} \/ B = {}
        /\ A # {} \/ B # {} <=> r \in InQueue
    BY <1>1 DEF Inv, Apart, Distinct, InQueue, Queued
  <2>2. \A id \in C : openedAs[r] = id /\ id # 0
    BY <1>1, RequestAssumption DEF Inv, OwnersAgree, TypeOK
  <2>3. r \in InQueue => C = {}
    BY <1>1, <2>2 DEF Inv, QueuedWait
  <2>4. ASSUME r \notin InQueue PROVE C # {}
    <3>1. PICK id \in DOMAIN streams : streams[id] = r
      BY <1>1, <2>4 DEF Inv, PendingPlaced
    <3>2. id \in activeClientStreams
      BY <1>1, <3>1, RequestAssumption DEF Inv, ActiveTracksTable
    <3> QED BY <3>1, <3>2
  <2>5. Places(r) = Cardinality(A) + Cardinality(B) + Cardinality(C)
    BY DEF Places
  <2> HIDE DEF A, B, C
  <2>6. CASE A # {}
    <3>1. B = {} /\ C = {}
      BY <2>1, <2>3, <2>6
    <3>2. Cardinality(A) = 1 /\ Cardinality(B) = 0 /\ Cardinality(C) = 0
      BY <2>1, <2>6, <3>1, OneOrNone
    <3> QED BY <2>5, <3>2
  <2>7. CASE B # {}
    <3>1. A = {} /\ C = {}
      BY <2>1, <2>3, <2>7
    <3>2. Cardinality(A) = 0 /\ Cardinality(B) = 1 /\ Cardinality(C) = 0
      BY <2>1, <2>7, <3>1, OneOrNone
    <3> QED BY <2>5, <3>2
  <2>8. CASE A = {} /\ B = {}
    <3>1. C # {} /\ \A a, b \in C : a = b
      BY <2>1, <2>2, <2>4, <2>8
    <3>2. Cardinality(A) = 0 /\ Cardinality(B) = 0 /\ Cardinality(C) = 1
      BY <2>8, <3>1, OneOrNone
    <3> QED BY <2>5, <3>2
  <2> QED BY <2>6, <2>7, <2>8
<1>2. Inv => InOnePlace
  BY <1>1 DEF InOnePlace
<1> QED BY <1>2, InvAlways, PTL

-----------------------------------------------------------------------------
\* Ending the streams of S settles the requests they answer, and no other.
LEMMA SettlesWaiting ==
  ASSUME Inv, NEW S, NEW outcome,
         status' = [r \in Requests |-> IF r \in Waiting(S) THEN outcome ELSE status[r]],
         outcome \in Refusals \/ (outcome \in Outcomes /\ Waiting(S) \subseteq onWire),
         NEW stop \in BOOLEAN, (~closing)' = (~closing /\ ~stop), onWire' = onWire
  PROVE  Service!Next
<1> DEFINE T == Waiting(S)
<1>1. T \subseteq Requests /\ \A r \in T : status[r] = "pending"
  BY DEF Waiting
<1>2. outcome \in Outcomes /\ Service!Outcomes = Outcomes
  BY DEF Outcomes, Service!Outcomes
<1>3. status' \in [Requests -> {"new", "pending"} \cup Outcomes]
  BY <1>2 DEF Inv, TypeOK
<1>4. \A r \in Requests \ T : status'[r] = status[r]
  OBVIOUS
<1>5. \A r \in T : status'[r] \in IF r \in onWire THEN Outcomes ELSE Refusals
  BY <1>1, <1>2
<1> HIDE DEF T
<1>6. Service!Settle(T, stop)
  BY <1>1, <1>2, <1>3, <1>4, <1>5 DEF Service!Settle
<1>7. T \in SUBSET Requests
  BY <1>1
<1> QED BY <1>6, <1>7 DEF Service!Next

\* One request whose stream is never used is settled.
LEMMA SettlesOne ==
  ASSUME Inv, NEW r \in Requests, status[r] = "pending", NEW outcome \in Refusals,
         status' = [status EXCEPT ![r] = outcome], onWire' = onWire, closing' = closing
  PROVE  Service!Next
<1>1. outcome \in Outcomes /\ Service!Outcomes = Outcomes
  BY DEF Outcomes, Service!Outcomes
<1>2. status' \in [Requests -> {"new", "pending"} \cup Outcomes]
  BY <1>1 DEF Inv, TypeOK
<1>3. status'[r] = outcome /\ \A q \in Requests \ {r} : status'[q] = status[q]
  BY DEF Inv, TypeOK
<1>4. Service!Settle({r}, FALSE)
  BY <1>1, <1>2, <1>3 DEF Service!Settle
<1> QED BY <1>4 DEF Service!Next

\* Shutting down without settling anything, or a step the callers do not see.
LEMMA ServiceQuiet ==
  ASSUME Inv, status' = status, onWire' = onWire, closing' \in BOOLEAN, closing => closing'
  PROVE  [Service!Next]_Service!vars
<1>1. CASE closing' = closing
  BY <1>1 DEF Service!vars
<1>2. CASE ~closing /\ closing'
  <2>1. status' \in [Requests -> {"new", "pending"} \cup Service!Outcomes]
    BY DEF Inv, TypeOK, Outcomes, Service!Outcomes
  <2>2. Service!Settle({}, TRUE)
    BY <1>2, <2>1 DEF Service!Settle
  <2> QED BY <2>2 DEF Service!Next
<1> QED BY <1>1, <1>2 DEF Inv, TypeOK

LEMMA ServiceStep == ASSUME Inv, [Next]_vars PROVE [Service!Next]_Service!vars
<1>0. closing \in BOOLEAN
  BY DEF Inv, TypeOK
<1>1. ASSUME NEW r \in Requests, Request(r) PROVE Service!Next
  <2>1. status[r] = "new" /\ onWire' = onWire /\ closing' = closing
    BY <1>1 DEF Request
  <2>2. CASE closing \/ closed
    <3>1. closing /\ status' = [status EXCEPT ![r] = ClosingError]
      BY <1>1, <2>2 DEF Request, Inv, TypeOK
    <3>2. ClosingError \in Refusals
      BY DEF ClosingError, Refusals
    <3> QED BY <2>1, <3>1, <3>2 DEF Service!Next, Service!Refuse
  <2>3. CASE ~closing /\ ~closed
    <3>1. status' = [status EXCEPT ![r] = "pending"]
      BY <1>1, <2>3 DEF Request
    <3> QED BY <2>1, <2>3, <3>1 DEF Service!Next, Service!Submit
  <2> QED BY <2>2, <2>3
<1>2. CASE RecheckSlot
  BY <1>0, <1>2, ServiceQuiet DEF RecheckSlot
<1>3. CASE OpenAndSend
  <2> DEFINE r == Head(jobs).request
  <2>1. jobs # <<>> /\ jobs \in Seq(Jobs) /\ slotWaiters \in Seq(Requests) /\ Distinct(slotWaiters, jobs)
    BY <1>3, JobsTyped DEF OpenAndSend, Inv, Apart
  <2>2. r \in Requests /\ r \in InQueue
    BY <2>1, LeaveJobs DEF InQueue
  <2>3. /\ ~closing /\ closing' = closing
        /\ \/ status' = [status EXCEPT ![r] = "badHeaders"] /\ onWire' = onWire
           \/ status' = status /\ onWire' = onWire \cup {r}
    BY <1>3 DEF OpenAndSend
  <2> HIDE DEF r
  <2>4. status[r] = "pending" /\ r \notin onWire
    BY <2>2 DEF Inv, QueuedWait
  <2>5. CASE status' = [status EXCEPT ![r] = "badHeaders"] /\ onWire' = onWire
    BY <2>2, <2>3, <2>4, <2>5, SettlesOne DEF Refusals
  <2>6. CASE status' = status /\ onWire' = onWire \cup {r}
    BY <2>2, <2>3, <2>4, <2>6 DEF Service!Next, Service!Transmit
  <2> QED BY <2>3, <2>5, <2>6
<1>4. CASE OpenAndBail
  <2> DEFINE r == Head(jobs).request
  <2>1. jobs # <<>> /\ jobs \in Seq(Jobs) /\ slotWaiters \in Seq(Requests) /\ Distinct(slotWaiters, jobs)
    BY <1>4, JobsTyped DEF OpenAndBail, Inv, Apart
  <2>2. r \in Requests /\ r \in InQueue
    BY <2>1, LeaveJobs DEF InQueue
  <2>3. closing' = closing /\ onWire' = onWire /\ status' = [status EXCEPT ![r] = ClosingError]
    BY <1>4 DEF OpenAndBail
  <2> HIDE DEF r
  <2>4. status[r] = "pending" /\ ClosingError \in Refusals
    BY <2>2 DEF Inv, QueuedWait, ClosingError, Refusals
  <2> QED BY <2>2, <2>3, <2>4, SettlesOne
<1>5. ASSUME NEW id \in Ids, NEW outcome \in {"served", "reset"}, Answer(id, outcome)
      PROVE  Service!Next
  <2>1. /\ status' = [r \in Requests |-> IF r \in Waiting({id}) THEN outcome ELSE status[r]]
        /\ streams[id] \in onWire /\ closing' = closing /\ onWire' = onWire
    BY <1>5 DEF Answer, FinalizeStreams
  <2>2. Waiting({id}) \subseteq onWire /\ outcome \in Outcomes
    BY <2>1 DEF Waiting, Outcomes
  <2> QED BY <2>1, <2>2, SettlesWaiting
<1>6. ASSUME NEW last \in {0} \cup Ids, Goaway(last) PROVE Service!Next
  <2> DEFINE S == {id \in DOMAIN streams : id > last}
  <2>1. /\ status' = [r \in Requests |-> IF r \in Waiting(S) THEN "goaway" ELSE status[r]]
        /\ closing' = TRUE /\ onWire' = onWire
    BY <1>6 DEF Goaway, FinalizeStreams
  <2>2. "goaway" \in Refusals
    BY DEF Refusals
  <2> HIDE DEF S
  <2> QED BY <2>1, <2>2, SettlesWaiting
<1>7. ASSUME NEW max \in AdvertisedMax, Settings(max) PROVE [Service!Next]_Service!vars
  BY <1>0, <1>7, ServiceQuiet DEF Settings
<1>8. ASSUME NEW outcome \in {"fatal", "connectionClosed"}, TearDown(outcome) PROVE Service!Next
  <2>1. /\ status' = [r \in Requests |-> IF r \in Waiting(DOMAIN streams) THEN outcome ELSE status[r]]
        /\ closing' = TRUE /\ onWire' = onWire
    BY <1>8 DEF TearDown
  <2>2. outcome \in Refusals
    BY DEF Refusals
  <2> QED BY <2>1, <2>2, SettlesWaiting
<1>9. CASE Fatal
  <2>1. CASE closed
    BY <1>0, <1>9, <2>1, ServiceQuiet DEF Fatal
  <2>2. CASE ~closed
    BY <1>8, <1>9, <2>2 DEF Fatal
  <2> QED BY <2>1, <2>2
<1>10. CASE SendGoaway
  BY <1>10, ServiceQuiet DEF SendGoaway
<1>11. CASE Close
  BY <1>8, <1>11 DEF Close
<1>12. CASE UNCHANGED vars
  BY <1>0, <1>12, ServiceQuiet DEF vars
<1> QED BY <1>1, <1>2, <1>3, <1>4, <1>5, <1>6, <1>7, <1>9, <1>10, <1>11, <1>12 DEF Next

\* The slots, the turns of request() and the shutdown paths implement the promise to
\* callers: a request goes on the wire at most once and never on a connection that has
\* begun to close, only a request on the wire is served or reset, and an outcome is
\* never replaced (the safety half of ImplementsRequestService).
THEOREM ConnectionServesRequests == Spec => Service!SafeSpec
<1>1. Init => Service!Init
  BY DEF Init, Service!Init
<1>2. Inv /\ [Next]_vars => [Service!Next]_Service!vars
  BY ServiceStep
<1> QED BY <1>1, <1>2, InvAlways, PTL DEF Spec, Service!SafeSpec
=============================================================================
