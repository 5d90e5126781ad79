----------------------------- MODULE Connection -----------------------------
(***************************************************************************)
(* The request path of Http2ConnectionImpl (src/connection.ts) over the    *)
(* stream table of its manager (src/stream/stream.ts): the concurrency     *)
(* slots, GOAWAY in both directions, close() and fatal errors.             *)
(*                                                                         *)
(* request() runs in up to three turns.  It checks for a slot when it is   *)
(* called; a request that has to wait checks again when it is woken; the   *)
(* stream is opened one turn after the check that succeeded.  The turns    *)
(* still to come are the jobs of the engine's microtask queue, in order.   *)
(* Calls and inbound frames can fall between any two jobs: callers run in  *)
(* microtasks of their own, and the read loop goes on without a pause when *)
(* one read returned several frames.                                       *)
(***************************************************************************)
EXTENDS Integers, Sequences, FiniteSets

CONSTANTS
  Requests,                     \* the calls of request()
  BadRequests,                  \* those whose headers cannot be encoded
  DefaultMaxConcurrentStreams,  \* DEFAULT_MAX_CONCURRENT_STREAMS, 100
  AdvertisedMax,                \* MAX_CONCURRENT_STREAMS values a peer may send
  Nobody                        \* stands for no request

ASSUME RequestAssumption == 
  IsFiniteSet(Requests) /\ BadRequests \subseteq Requests /\ Nobody \notin Requests
ASSUME LimitAssumption ==
  DefaultMaxConcurrentStreams \in Nat /\ AdvertisedMax \subseteq Nat

VARIABLES
  closing, closed,
  receivedGoaway,        \* lastStreamId of the peer's latest GOAWAY, or NoGoaway
  activeClientStreams,
  slotWaiters,           \* requests waiting for a slot, in order
  maxConcurrentStreams,
  streams,               \* the manager's table: id -> the request it answers, or Nobody
  nextStreamId,
  jobs,                  \* continuations of request() that are due, in order
  reading,               \* the read loop has not returned
  status,                \* what each request() promise is
  onWire,                \* requests whose HEADERS were written
  openedAs,              \* the id each request was given, 0 before
  lowestGoaway           \* the lowest lastStreamId the peer has declared

slots == <<activeClientStreams, slotWaiters, maxConcurrentStreams, jobs>>
table == <<streams, nextStreamId>>
vars == <<closing, closed, receivedGoaway, slots, table, reading,
          status, onWire, openedAs, lowestGoaway>>

NoGoaway == -1
Recheck(r) == [turn |-> "recheck", request |-> r]
Open(r) == [turn |-> "open", request |-> r]

\* Number k is the k-th stream opened, wire id 2k - 1.  A request opens at most one.
Ids == 1..Cardinality(Requests)

Refusals == {"goaway", "connectionClosed", "fatal", "badHeaders"}
Lesser(a, b) == IF a <= b THEN a ELSE b

Outcomes == {"served", "reset"} \cup Refusals

-----------------------------------------------------------------------------
Init ==
  /\ closing = FALSE /\ closed = FALSE
  /\ receivedGoaway = NoGoaway
  /\ activeClientStreams = {}
  /\ slotWaiters = <<>>
  /\ maxConcurrentStreams = DefaultMaxConcurrentStreams
  /\ streams = [id \in {} |-> Nobody]
  /\ nextStreamId = 1
  /\ jobs = <<>>
  /\ reading = TRUE
  /\ status = [r \in Requests |-> "new"]
  /\ onWire = {}
  /\ openedAs = [r \in Requests |-> 0]
  /\ lowestGoaway = Cardinality(Requests)

\* The loop condition of acquireSlot: there is nothing for the caller to do but wait.
MustWait ==
  /\ ~closing /\ ~closed
  /\ Cardinality(activeClientStreams) >= maxConcurrentStreams

\* closingError().
ClosingError == IF receivedGoaway = NoGoaway THEN "connectionClosed" ELSE "goaway"

\* Waking that forgets to schedule the woken request.
WakeLost(n, due) ==
  LET k == Lesser(n, Len(slotWaiters))
  IN /\ jobs' = due
     /\ slotWaiters' = SubSeq(slotWaiters, k + 1, Len(slotWaiters))

\* n calls of releaseSlot while the jobs due are "due": the first n waiters are woken.
Wake(n, due) ==
  LET k == Lesser(n, Len(slotWaiters))
  IN /\ jobs' = due \o [i \in 1..k |-> Recheck(slotWaiters[i])]
     /\ slotWaiters' = SubSeq(slotWaiters, k + 1, Len(slotWaiters))

\* request(): refused on a closing connection; otherwise the first check for a slot.
Request(r) ==
  /\ status[r] = "new"
  /\ IF closing \/ closed
     THEN /\ status' = [status EXCEPT ![r] = ClosingError]
          /\ UNCHANGED slots
     ELSE /\ status' = [status EXCEPT ![r] = "pending"]
          /\ IF MustWait
             THEN slotWaiters' = Append(slotWaiters, r) /\ UNCHANGED jobs
             ELSE jobs' = Append(jobs, Open(r)) /\ UNCHANGED slotWaiters
          /\ UNCHANGED <<activeClientStreams, maxConcurrentStreams>>
  /\ UNCHANGED <<closing, closed, receivedGoaway, table, reading, onWire, openedAs, lowestGoaway>>

\* A woken request evaluates the loop condition again, and may go to the back.
RecheckSlot ==
  /\ jobs # <<>> /\ Head(jobs).turn = "recheck"
  /\ LET r == Head(jobs).request IN
       IF MustWait
       THEN slotWaiters' = Append(slotWaiters, r) /\ jobs' = Tail(jobs)
       ELSE jobs' = Append(Tail(jobs), Open(r)) /\ UNCHANGED slotWaiters
  /\ UNCHANGED <<closing, closed, receivedGoaway, activeClientStreams, maxConcurrentStreams,
                 table, reading, status, onWire, openedAs, lowestGoaway>>

\* The manager's openStream(), for request r or for nobody.
OpenStream(r) ==
  /\ streams' = [id \in DOMAIN streams \cup {nextStreamId} |->
                   IF id = nextStreamId THEN r ELSE streams[id]]
  /\ nextStreamId' = nextStreamId + 1

\* OpenAndSend that trusts the check made one turn earlier.
OpenAndSendBlind ==
  /\ jobs # <<>> /\ Head(jobs).turn = "open"
  /\ LET r == Head(jobs).request IN
       /\ OpenStream(r)
       /\ openedAs' = [openedAs EXCEPT ![r] = nextStreamId]
       /\ onWire' = onWire \cup {r}
  /\ activeClientStreams' = activeClientStreams \cup {nextStreamId}
  /\ jobs' = Tail(jobs)
  /\ UNCHANGED <<closing, closed, receivedGoaway, slotWaiters, maxConcurrentStreams,
                 reading, status, lowestGoaway>>

\* The last turn of request() on a connection that stays open.  A HEADERS block that
\* cannot be encoded rejects the promise and leaves the stream and its slot behind.
OpenAndSend ==
  /\ jobs # <<>> /\ Head(jobs).turn = "open" /\ ~closing /\ ~closed
  /\ LET r == Head(jobs).request IN
       /\ OpenStream(r)
       /\ openedAs' = [openedAs EXCEPT ![r] = nextStreamId]
       /\ IF r \in BadRequests
          THEN status' = [status EXCEPT ![r] = "badHeaders"] /\ UNCHANGED onWire
          ELSE onWire' = onWire \cup {r} /\ UNCHANGED status
  /\ activeClientStreams' = activeClientStreams \cup {nextStreamId}
  /\ jobs' = Tail(jobs)
  /\ UNCHANGED <<closing, closed, receivedGoaway, slotWaiters, maxConcurrentStreams,
                 reading, lowestGoaway>>

\* OpenAndBail without the call of releaseSlot.
OpenAndBailKeeping ==
  /\ jobs # <<>> /\ Head(jobs).turn = "open" /\ (closing \/ closed)
  /\ OpenStream(Nobody)
  /\ status' = [status EXCEPT ![Head(jobs).request] = ClosingError]
  /\ jobs' = Tail(jobs)
  /\ UNCHANGED <<closing, closed, receivedGoaway, activeClientStreams, slotWaiters,
                 maxConcurrentStreams, reading, onWire, openedAs, lowestGoaway>>

\* OpenAndBail that leaves the stream in the set of active ones.
OpenAndBailActive ==
  /\ jobs # <<>> /\ Head(jobs).turn = "open" /\ (closing \/ closed)
  /\ OpenStream(Nobody)
  /\ status' = [status EXCEPT ![Head(jobs).request] = ClosingError]
  /\ activeClientStreams' = activeClientStreams \cup {nextStreamId}
  /\ Wake(1, Tail(jobs))
  /\ UNCHANGED <<closing, closed, receivedGoaway,
                 maxConcurrentStreams, reading, onWire, openedAs, lowestGoaway>>

\* The same turn when the connection began to close meanwhile: the stream has been
\* opened and is never used, the slot passes on, the request is refused.
OpenAndBail ==
  /\ jobs # <<>> /\ Head(jobs).turn = "open" /\ (closing \/ closed)
  /\ OpenStream(Nobody)
  /\ status' = [status EXCEPT ![Head(jobs).request] = ClosingError]
  /\ Wake(1, Tail(jobs))
  /\ UNCHANGED <<closing, closed, receivedGoaway, activeClientStreams,
                 maxConcurrentStreams, reading, onWire, openedAs, lowestGoaway>>

-----------------------------------------------------------------------------
\* The requests of the streams in S that have no outcome yet.
Waiting(S) == {r \in Requests : \E id \in S \cap DOMAIN streams :
                                   streams[id] = r /\ status[r] = "pending"}

\* FinalizeStreams whose "streamClosed" events nobody hears.
FinalizeStreamsUnheard(S, outcome) ==
  /\ streams' = [id \in DOMAIN streams \ S |-> streams[id]]
  /\ status' = [r \in Requests |-> IF r \in Waiting(S) THEN outcome ELSE status[r]]
  /\ UNCHANGED <<activeClientStreams, slotWaiters, jobs, nextStreamId>>

\* finalizeStream for every stream of S, and its effects: the requests get their
\* outcome, each active stream frees its slot and so wakes one waiter.
FinalizeStreams(S, outcome) ==
  /\ streams' = [id \in DOMAIN streams \ S |-> streams[id]]
  /\ status' = [r \in Requests |-> IF r \in Waiting(S) THEN outcome ELSE status[r]]
  /\ activeClientStreams' = activeClientStreams \ S
  /\ Wake(Cardinality(activeClientStreams \cap S \cap DOMAIN streams), jobs)
  /\ UNCHANGED nextStreamId

\* The read loop dispatches a frame, then stops if the connection was closed while
\* it was waiting for that frame.
Dispatched == reading /\ reading' = ~closed

\* A complete response, or RST_STREAM, for a stream of a request on the wire.
Answer(id, outcome) ==
  /\ Dispatched
  /\ id \in DOMAIN streams /\ streams[id] \in onWire
  /\ FinalizeStreams({id}, outcome)
  /\ UNCHANGED <<closing, closed, receivedGoaway, maxConcurrentStreams, onWire, openedAs, lowestGoaway>>

\* GOAWAY that takes lastStreamId for the first stream that will not be served.
GoawayOffByOne(last) ==
  /\ Dispatched
  /\ receivedGoaway' = last /\ closing' = TRUE
  /\ lowestGoaway' = Lesser(lowestGoaway, last)
  /\ FinalizeStreams({id \in DOMAIN streams : id >= last}, "goaway")
  /\ UNCHANGED <<closed, maxConcurrentStreams, onWire, openedAs>>

\* GOAWAY: no new work, and the streams above lastStreamId fail.  Nobody who waits
\* for a slot is woken unless one of them held it.
Goaway(last) ==
  /\ Dispatched
  /\ receivedGoaway' = last /\ closing' = TRUE
  /\ lowestGoaway' = Lesser(lowestGoaway, last)
  /\ FinalizeStreams({id \in DOMAIN streams : id > last}, "goaway")
  /\ UNCHANGED <<closed, maxConcurrentStreams, onWire, openedAs>>

\* SETTINGS with MAX_CONCURRENT_STREAMS.  Nobody who waits for a slot is woken.
Settings(max) ==
  /\ Dispatched
  /\ maxConcurrentStreams' = max
  /\ UNCHANGED <<closing, closed, receivedGoaway, activeClientStreams, slotWaiters, jobs,
                 table, status, onWire, openedAs, lowestGoaway>>

\* TearDown that wakes only those whose turn the closed streams bring.
TearDownUndrained(outcome) ==
  /\ closing' = TRUE /\ closed' = TRUE
  /\ streams' = [id \in {} |-> Nobody]
  /\ status' = [r \in Requests |-> IF r \in Waiting(DOMAIN streams) THEN outcome ELSE status[r]]
  /\ activeClientStreams' = {}
  /\ Wake(Cardinality(activeClientStreams), jobs)
  /\ UNCHANGED <<receivedGoaway, maxConcurrentStreams, nextStreamId, onWire, openedAs, lowestGoaway>>

\* abortAll, activeClientStreams.clear() and drainSlotWaiters(): every stream is
\* finalized and every waiter woken, in order.
TearDown(outcome) ==
  /\ closing' = TRUE /\ closed' = TRUE
  /\ streams' = [id \in {} |-> Nobody]
  /\ status' = [r \in Requests |-> IF r \in Waiting(DOMAIN streams) THEN outcome ELSE status[r]]
  /\ activeClientStreams' = {}
  /\ Wake(Len(slotWaiters), jobs)
  /\ UNCHANGED <<receivedGoaway, maxConcurrentStreams, nextStreamId, onWire, openedAs, lowestGoaway>>

\* transport.read() rejects, or dispatch throws: handleFatal, and the loop returns.
Fatal ==
  /\ reading /\ reading' = FALSE
  /\ IF closed
     THEN UNCHANGED <<closing, closed, receivedGoaway, slots, table, status, onWire,
                      openedAs, lowestGoaway>>
     ELSE TearDown("fatal")

\* goaway() by the application: no new work, the rest goes on.
SendGoaway ==
  /\ closing' = TRUE
  /\ UNCHANGED <<closed, receivedGoaway, slots, table, reading, status, onWire, openedAs, lowestGoaway>>

\* close(), which does nothing on a closed connection.
Close ==
  /\ ~closed
  /\ TearDown("connectionClosed")
  /\ UNCHANGED reading

Next ==
  \/ \E r \in Requests : Request(r)
  \/ RecheckSlot
  \/ OpenAndSend
  \/ OpenAndBail
  \/ \E id \in Ids, outcome \in {"served", "reset"} : Answer(id, outcome)
  \/ \E last \in {0} \cup Ids : Goaway(last)
  \/ \E max \in AdvertisedMax : Settings(max)
  \/ Fatal
  \/ SendGoaway
  \/ Close

Spec == Init /\ [][Next]_vars

\* The engine drains its microtask queue, and the peer answers what it was sent.
Fairness ==
  /\ WF_vars(RecheckSlot \/ OpenAndSend \/ OpenAndBail)
  /\ \A id \in Ids : WF_vars(\E outcome \in {"served", "reset"} : Answer(id, outcome))

FairSpec == Spec /\ Fairness

-----------------------------------------------------------------------------
\* Every variable has the shape the code gives it.  A closed connection is closing, and
\* the read loop only ends with the connection.
TypeOK ==
  /\ closing \in BOOLEAN /\ closed \in BOOLEAN /\ (closed => closing)
  /\ receivedGoaway \in {NoGoaway} \cup Nat
  /\ slotWaiters \in Seq(Requests)
  /\ maxConcurrentStreams \in Nat
  /\ streams \in [DOMAIN streams -> Requests \cup {Nobody}]
  /\ nextStreamId \in 1..Cardinality(Requests) + 1
  /\ DOMAIN streams \subseteq 1..nextStreamId - 1
  /\ activeClientStreams \subseteq DOMAIN streams
  /\ jobs \in Seq([turn : {"recheck", "open"}, request : Requests])
  /\ reading \in BOOLEAN /\ (reading \/ closed)
  /\ status \in [Requests -> {"new", "pending"} \cup Outcomes]
  /\ onWire \subseteq Requests
  /\ openedAs \in [Requests -> {0} \cup Ids]
  /\ lowestGoaway \in Nat

\* Where the rest of request r is: a waiter, a job that is due, or a live stream.
Places(r) ==
  Cardinality({i \in DOMAIN slotWaiters : slotWaiters[i] = r})
  + Cardinality({i \in DOMAIN jobs : jobs[i].request = r})
  + Cardinality({id \in activeClientStreams : streams[id] = r})

\* No request is forgotten and none is run twice: one whose promise is pending waits
\* in exactly one place.  A wake-up that gets lost, or a request woken twice and
\* opened twice, breaks it.
InOnePlace ==
  \A r \in Requests : status[r] = "pending" => Places(r) = 1

\* The connection's set of active streams and the manager's table, kept in step only
\* by the "streamClosed" event, agree.  The streams nobody uses, which a closing
\* connection opens and leaves in the table, are the only difference.
ActiveTracksTable ==
  /\ activeClientStreams = {id \in DOMAIN streams : streams[id] # Nobody}
  /\ (\E id \in DOMAIN streams : streams[id] = Nobody) => closing

\* connection.ts:234: once the connection is closed, nothing waits for a stream or
\* for a slot, whatever was in flight, waiting, or halfway through a turn.
ClosedMeansEmpty ==
  closed => /\ activeClientStreams = {} /\ slotWaiters = <<>>
            /\ jobs = <<>> => \A r \in Requests : status[r] # "pending"

\* A request that failed with GoawayReceivedError can be sent again without being
\* processed twice: it never reached the peer, or the peer declared it unprocessed.
GoawayMeansUnprocessed ==
  \A r \in Requests :
    status[r] = "goaway" /\ r \in onWire => openedAs[r] > lowestGoaway

\* connection.ts:99: "Ids of currently-active client (odd) streams": a slot is taken
\* only by a request that has no outcome yet.
SlotsInUse == \A id \in activeClientStreams : status[streams[id]] = "pending"

\* Nobody waits for ever: while requests wait for a slot there is a stream whose
\* closing will wake one, or a job is due that will.  It needs a peer that allows at
\* least one stream, and headers that can be encoded.
WaitersHaveAWaker ==
  slotWaiters # <<>> /\ SlotsInUse =>
    \/ jobs # <<>>
    \/ \E id \in activeClientStreams : status[streams[id]] = "pending"

\* connection.ts:17: "outbound streams are bounded by the peer's MAX_CONCURRENT_STREAMS".
WithinLimit == Cardinality(activeClientStreams) <= maxConcurrentStreams

\* connection.ts:334: "Resolve when a concurrency slot is free": nobody waits while
\* requests that still expect an answer, and those due to be opened, leave room.
NoIdleSlot ==
  ~closing /\ slotWaiters # <<>> =>
    Cardinality({id \in activeClientStreams : status[streams[id]] = "pending"}) + Len(jobs)
      >= maxConcurrentStreams

-----------------------------------------------------------------------------
\* The promise to callers.
Service == INSTANCE RequestService WITH accepting <- ~closing

\* The slots, the turns and the shutdown paths implement it: nothing is put on the
\* wire by a connection that has begun to close, even when it began between two turns
\* of a request, no outcome changes, and (liveness) every accepted request is settled.
ImplementsRequestService ==
  Service!SafeSpec /\ ([]SlotsInUse => Service!Answered)
=============================================================================
