--------------------------- MODULE ExchangeProofs ---------------------------
(***************************************************************************)
(* The invariants of Exchange and the safety part of what it promises a    *)
(* caller, for any streams, any windows, any padding, any division of      *)
(* header blocks into frames and any optional parts of HTTP/2 in use; an   *)
(* invariant that an optional part breaks says which in its statement.     *)
(*                                                                         *)
(* The first part says what each function on a stream's record does, the   *)
(* second is the invariant, the third shows that every step preserves it.  *)
(***************************************************************************)
EXTENDS Exchange, TLAPS

-----------------------------------------------------------------------------
\* Client and promised streams never share an id, and none is the connection.
LEMMA DisjointIds ==
  /\ ClientIds \cap PromisedIds = {} /\ Ids \subseteq Nat /\ 0 \notin Ids
BY IdAssumption DEF Ids

LEMMA MaxIdIsLast == MaxId \in Ids /\ MaxId \in Nat /\ \A t \in Ids : t <= MaxId
BY LastIdAssumption, DisjointIds DEF MaxId

Piece == Blocks \X Nat \X Nat

LEMMA NewStreamFields ==
  ASSUME NEW promise \in BOOLEAN
  PROVE  LET r == NewStream(promise) IN
         /\ r \in StreamState
         /\ r.awaited = ~promise /\ r.isPushPromise = promise
         /\ ~r.headersComplete /\ ~r.endStreamSeen /\ r.responseOctets = 0
         /\ r.pendingHeaderBytes = <<>> /\ r.state # "closed"
<1>1. <<>> \in Seq(Piece)
  OBVIOUS
<1> QED BY <1>1 DEF NewStream, StreamState, Piece, NoHeaders

LEMMA WithPieceFields ==
  ASSUME NEW r \in StreamState, NEW m, m.piece \in Piece
  PROVE  LET q == WithPiece(r, m) IN
         /\ q \in StreamState
         /\ q.state = r.state /\ q.headersComplete = r.headersComplete
         /\ q.endStreamSeen = r.endStreamSeen /\ q.responseHeaders = r.responseHeaders
         /\ q.responseOctets = r.responseOctets
         /\ q.pendingHeaderBytes = Append(r.pendingHeaderBytes, m.piece)
         /\ q.awaited = r.awaited /\ q.isPushPromise = r.isPushPromise
<1>1. r.pendingHeaderBytes \in Seq(Piece)
  BY DEF StreamState, Piece
<1>2. Append(r.pendingHeaderBytes, m.piece) \in Seq(Piece)
  BY <1>1
<1> QED BY <1>2 DEF WithPiece, StreamState, Piece

LEMMA WithHeadersFields ==
  ASSUME NEW r \in StreamState, r.pendingHeaderBytes # <<>>
  PROVE  LET q == WithHeaders(r) IN
         /\ q \in StreamState /\ q.responseHeaders \in Blocks
         /\ q.state = r.state /\ q.headersComplete
         /\ q.endStreamSeen = r.endStreamSeen
         /\ q.responseHeaders = r.pendingHeaderBytes[1][1]
         /\ q.responseOctets = r.responseOctets
         /\ q.pendingHeaderBytes = <<>>
         /\ q.awaited = r.awaited /\ q.isPushPromise = r.isPushPromise
<1>1. r.pendingHeaderBytes \in Seq(Piece)
  BY DEF StreamState, Piece
<1>2. r.pendingHeaderBytes[1] \in Piece
  BY <1>1
<1>3. r.pendingHeaderBytes[1][1] \in Blocks
  BY <1>2 DEF Piece
<1>4. <<>> \in Seq(Piece)
  OBVIOUS
<1> QED BY <1>3, <1>4 DEF WithHeaders, StreamState, Piece

LEMMA EndStreamFields ==
  ASSUME NEW r \in StreamState
  PROVE  LET q == EndStream(r) IN
         /\ q \in StreamState
         /\ q.headersComplete = r.headersComplete /\ q.endStreamSeen
         /\ q.responseHeaders = r.responseHeaders
         /\ q.responseOctets = r.responseOctets
         /\ q.pendingHeaderBytes = r.pendingHeaderBytes
         /\ q.awaited = r.awaited /\ q.isPushPromise = r.isPushPromise
BY DEF EndStream, StreamState

\* n pieces of one block, in order, decode unless HPACK refuses the block.
LEMMA WholeDecodes ==
  ASSUME NEW b \in Blocks, NEW n \in Nat \ {0}
  PROVE  LET pieces == [i \in 1..n |-> <<b, i, n>>] IN
         /\ Decodes(pieces) <=> b # "undecodable"
         /\ pieces # <<>> /\ pieces[1][1] = b
<1> DEFINE pieces == [i \in 1..n |-> <<b, i, n>>]
<1>1. 1 \in 1..n /\ pieces[1] = <<b, 1, n>>
  OBVIOUS
<1>2. pieces[1][1] = b /\ pieces[1][3] = n /\ pieces # <<>>
  BY <1>1
<1>3. Whole(b, n) = pieces
  BY DEF Whole
<1> QED BY <1>2, <1>3 DEF Decodes

\* One more piece of the block a stream has collected the first k pieces of.
LEMMA PieceAppended ==
  ASSUME NEW b \in Blocks, NEW n \in Nat, NEW k \in Nat
  PROVE  Append([i \in 1..k |-> <<b, i, n>>], <<b, k + 1, n>>)
           = [i \in 1..(k + 1) |-> <<b, i, n>>]
<1> DEFINE old == [i \in 1..k |-> <<b, i, n>>]
           new == [i \in 1..(k + 1) |-> <<b, i, n>>]
<1>1. old \in Seq(Piece) /\ Len(old) = k /\ <<b, k + 1, n>> \in Piece /\ new \in Seq(Piece) /\ Len(new) = k + 1
  BY DEF Piece
<1>2. \A i \in 1..(k + 1) : Append(old, <<b, k + 1, n>>)[i] = new[i]
  BY <1>1
<1>3. Len(Append(old, <<b, k + 1, n>>)) = k + 1 /\ Append(old, <<b, k + 1, n>>) \in Seq(Piece)
  BY <1>1
<1> HIDE DEF old, new
<1> QED BY <1>1, <1>2, <1>3

-----------------------------------------------------------------------------
(***************************************************************************)
(* The inductive invariant.  Its parts are the types, the client's table   *)
(* by itself (TableOK), the block the peer is in the middle of (BlockOK),  *)
(* and for each stream what ties the client's record of it to the peer's   *)
(* (StreamOK).                                                             *)
(***************************************************************************)
BlockState ==
  [stream : Ids, owner : Ids, name : Blocks, next : Nat, of : Nat, left : Nat \ {0}]

Types ==
  /\ DOMAIN pendingPushContinuation \subseteq Ids
  /\ \A s \in DOMAIN pendingPushContinuation : pendingPushContinuation[s] \in PromisedIds
  /\ pushed \in [PromisedIds -> Seq(Blocks)]
  /\ updates \in [Ids \cup {0} -> Nat]
  /\ server \in [Ids -> ServerState]
  /\ window \in [Ids \cup {0} -> Nat]
  /\ accepted \in 0..(MaxId + 1)
  /\ block = NoBlock \/ block \in BlockState

\* A record of the table belongs to its id: only requests are waited for, only
\* promised streams are announced.
RecordOK(s, r) ==
  /\ r \in StreamState
  /\ r.awaited <=> s \in ClientIds
  /\ r.isPushPromise <=> s \in PromisedIds
  /\ r.headersComplete => r.responseHeaders # NoHeaders

TableOK ==
  /\ DOMAIN streams \subseteq Ids
  /\ \A s \in DOMAIN streams : RecordOK(s, streams[s])
  /\ closed \in BOOLEAN
  /\ closed => DOMAIN streams = {}
  /\ outcome \in [ClientIds -> Outcome]
  /\ TableIsPending

Unfinished(s) == block # NoBlock /\ block.owner = s

\* What the client has collected of the block the peer is sending to s.
Collected(s) ==
  IF Unfinished(s) THEN [i \in 1..(block.next - 1) |-> <<block.name, i, block.of>>] ELSE <<>>

\* The client redirects CONTINUATION exactly while a PUSH_PROMISE is unfinished.
Redirected ==
  ~closed =>
    pendingPushContinuation =
      IF block # NoBlock /\ block.owner # block.stream
        THEN [s \in {block.stream} |-> block.owner] ELSE [s \in {} |-> 0]

\* A block on a stream of its own is the headers the peer is sending there; any
\* other is a promise, made on a request's stream.
BlockOK ==
  block # NoBlock =>
    /\ block.next \in 2..block.of /\ block.left = block.of - block.next + 1
    /\ block.owner # block.stream =>
         /\ block.stream \in ClientIds /\ block.owner \in PromisedIds
         /\ block.name \in {"promise", "undecodable"}
         /\ server[block.owner].phase = "asked"
         /\ ~closed => block.owner \in DOMAIN streams
    /\ block.owner = block.stream =>
         /\ block.name # "promise"
         /\ \/ /\ server[block.owner].phase \in {"informed", "headers"}
               /\ block.name = server[block.owner].headers
            \/ /\ server[block.owner].phase = "ended"
               /\ Uses("endStreamBeforeContinuation")

\* What the client holds of a live stream is what the peer has sent on it.
LiveOK(s) ==
  /\ server[s].phase # "none"
  /\ server[s].phase # "ended" => streams[s].state # "closed"
  /\ streams[s].pendingHeaderBytes = Collected(s)
  /\ s \in ClientIds =>
       /\ streams[s].responseOctets = server[s].body
       /\ ~streams[s].endStreamSeen
       /\ server[s].phase \in {"informed", "headers"} /\ ~Unfinished(s) =>
            /\ streams[s].headersComplete
            /\ streams[s].responseHeaders = server[s].headers

\* A resolved request is one the peer has finished, and (headers and END_STREAM
\* in one frame permitting) the other way round.
SettledOK(s) ==
  /\ outcome[s] = New <=> server[s].phase = "none"
  /\ outcome[s].kind = "resolved" =>
       /\ server[s].phase = "ended" /\ ~Unfinished(s)
       /\ ~Uses("trailers") => outcome[s] = Response(server[s].headers, server[s].body)
  /\ server[s].phase = "ended" /\ ~Uses("endStreamBeforeContinuation") =>
       outcome[s].kind = "resolved"

\* The promise is first in what "push" listeners heard, and there once.
AnnouncedOnce(heard) == {i \in DOMAIN heard : heard[i] = "promise"} = {1}

AnnouncedOK(s) ==
  IF server[s].phase = "none" \/ (Unfinished(s) /\ block.stream # s)
    THEN pushed[s] = <<>> ELSE AnnouncedOnce(pushed[s])

StreamOK(s) ==
  /\ server[s].body <= MaxBody
  /\ server[s].phase \in {"none", "asked", "informed"} => server[s].body = 0
  /\ server[s].ended <=> server[s].phase = "ended"
  /\ ~closed /\ Alive(s) /\ (s \in ClientIds \/ s <= accepted) => s \in DOMAIN streams
  /\ s \in DOMAIN streams => LiveOK(s)
  /\ s \in ClientIds => SettledOK(s)
  /\ s \in PromisedIds /\ ~closed => AnnouncedOK(s)

CreditOK ==
  \A s \in Ids \cup {0} :
    /\ window[s] + updates[s] <= Window
    /\ ~closed /\ ~Uses("pushAfterGoaway") => window[s] + updates[s] = Window

Inv ==
  /\ Types /\ TableOK /\ Redirected /\ BlockOK /\ CreditOK
  /\ \A s \in Ids : StreamOK(s)

LEMMA FirstAnnouncement == AnnouncedOnce(Append(<<>>, "promise"))
<1>1. Append(<<>>, "promise") = <<"promise">>
  OBVIOUS
<1>2. DOMAIN <<"promise">> = {1} /\ <<"promise">>[1] = "promise"
  OBVIOUS
<1> QED BY <1>1, <1>2, Zenon DEF AnnouncedOnce

\* A pushed response whose headers take several frames is announced too, after its promise.
LEMMA LaterAnnouncement ==
  ASSUME NEW heard \in Seq(Blocks), NEW b \in Blocks, b # "promise", AnnouncedOnce(heard)
  PROVE  AnnouncedOnce(Append(heard, b))
<1> DEFINE longer == Append(heard, b)
<1>1. /\ Len(heard) \in Nat /\ DOMAIN heard = 1..Len(heard) /\ DOMAIN longer = 1..(Len(heard) + 1)
      /\ \A i \in 1..Len(heard) : longer[i] = heard[i]
      /\ longer[Len(heard) + 1] = b
  OBVIOUS
<1> HIDE DEF longer
<1>2. \A i \in 1..(Len(heard) + 1) : i \in 1..Len(heard) \/ i = Len(heard) + 1
  BY <1>1
<1>3. \A i : i \in DOMAIN longer /\ longer[i] = "promise"
              <=> i \in DOMAIN heard /\ heard[i] = "promise"
  BY <1>1, <1>2
<1>4. {i \in DOMAIN longer : longer[i] = "promise"} = {i \in DOMAIN heard : heard[i] = "promise"}
  BY <1>3, Zenon
<1> QED BY <1>4 DEF AnnouncedOnce, longer

LEMMA InvTypeOK == Inv => ExchangeTypeOK
<1> SUFFICES ASSUME Inv PROVE ExchangeTypeOK
  OBVIOUS
<1>1. TypeOK
  BY DEF Inv, Types, TableOK, RecordOK, TypeOK
<1>2. window \in [Ids \cup {0} -> 0..Window]
  <2>1. ASSUME NEW s \in Ids \cup {0} PROVE window[s] \in 0..Window
    <3>1. window[s] \in Nat /\ updates[s] \in Nat /\ window[s] + updates[s] <= Window /\ Window \in Nat
      BY ExchangeAssumption DEF Inv, CreditOK, Types
    <3> QED BY <3>1
  <2> QED BY <2>1 DEF Inv, Types
<1>3. block = NoBlock \/ block.stream \in ClientIds \cup PromisedIds
  BY DEF Inv, Types, BlockState, Ids
<1> QED BY <1>1, <1>2, <1>3 DEF ExchangeTypeOK, Inv, Types

\* A block in progress is none of the values of a finished one.
LEMMA BlockStateIsSome ==
  ASSUME NEW b \in BlockState
  PROVE  b # NoBlock
BY DEF BlockState, NoBlock

LEMMA InvInit == ExchangeInit => Inv
<1> SUFFICES ASSUME ExchangeInit PROVE Inv
  OBVIOUS
<1> USE DEF ExchangeInit, Init
<1>1. Types
  BY DisjointIds, MaxIdIsLast, ExchangeAssumption DEF Types, ServerState, Phases
<1>2. TableOK
  BY DEF TableOK, TableIsPending, Outcome, New, Pending
<1>3. Redirected /\ BlockOK
  BY DEF Redirected, BlockOK
<1>4. CreditOK
  BY ExchangeAssumption DEF CreditOK
<1>5. ASSUME NEW s \in Ids PROVE StreamOK(s)
  BY ExchangeAssumption DEF StreamOK, SettledOK, AnnouncedOK, LiveOK, Alive, New
<1> QED BY <1>1, <1>2, <1>3, <1>4, <1>5 DEF Inv
-----------------------------------------------------------------------------
(***************************************************************************)
(* What a handler does to the table and the promises: it stores a record,  *)
(* resolves the promise of a finished stream, or fails the streams of S.   *)
(***************************************************************************)
OthersUntouched(S) == \A t \in DOMAIN streams \ S : streams'[t] = streams[t]

Stored(s, r) ==
  /\ DOMAIN streams' = DOMAIN streams \cup {s} /\ streams'[s] = r
  /\ OthersUntouched({s})
  /\ UNCHANGED <<outcome, closed>>

Resolved(s, r) ==
  /\ DOMAIN streams' = DOMAIN streams \ {s}
  /\ OthersUntouched({s})
  /\ outcome' = [outcome EXCEPT ![s] = Response(r.responseHeaders, r.responseOctets)]
  /\ UNCHANGED closed

Failed(S) ==
  /\ DOMAIN streams' = DOMAIN streams \ S
  /\ OthersUntouched(S)
  /\ outcome' = [s \in ClientIds |-> IF s \in S THEN Rejected ELSE outcome[s]]

LEMMA OutcomeKinds ==
  /\ New.kind = "new" /\ Pending.kind = "pending" /\ Rejected.kind = "rejected"
  /\ \A h, n : Response(h, n).kind = "resolved"
  /\ New \in Outcome /\ Pending \in Outcome /\ Rejected \in Outcome
  /\ \A h \in Blocks, n \in Nat : Response(h, n) \in Outcome
BY DEF New, Pending, Rejected, Response, Outcome

LEMMA PutStores ==
  ASSUME NEW s, NEW r, Put(s, r), UNCHANGED <<outcome, closed>>
  PROVE  Stored(s, r)
BY DEF Put, With, Stored, OthersUntouched

LEMMA RejectFails ==
  ASSUME TableOK, NEW S, S \subseteq DOMAIN streams, RejectStreams(S)
  PROVE  Failed(S)
<1>1. \A s \in ClientIds \cap S : streams[s].awaited
  BY DEF TableOK, RecordOK
<1>2. DOMAIN streams' = DOMAIN streams \ S /\ OthersUntouched(S)
  BY DEF RejectStreams, Remove, Restrict, OthersUntouched
<1> QED BY <1>1, <1>2 DEF RejectStreams, Failed

LEMMA FatalFails ==
  ASSUME TableOK, HandleFatal
  PROVE  Failed(DOMAIN streams) /\ closed' = TRUE /\ UNCHANGED <<pushed, updates>>
BY RejectFails DEF HandleFatal

LEMMA MaybeResolves ==
  ASSUME TableOK, NEW s \in DOMAIN streams, NEW r, RecordOK(s, r),
         MaybeResolve(s, r), UNCHANGED closed
  PROVE  IF r.headersComplete /\ r.endStreamSeen /\ s \in ClientIds
           THEN Resolved(s, r) ELSE Stored(s, r)
<1>1. r.awaited <=> s \in ClientIds
  BY DEF RecordOK
<1>2. CASE r.headersComplete /\ r.endStreamSeen /\ s \in ClientIds
  <2>1. DOMAIN streams' = DOMAIN streams \ {s} /\ OthersUntouched({s})
    BY <1>1, <1>2 DEF MaybeResolve, Remove, Restrict, OthersUntouched
  <2> QED BY <1>1, <1>2, <2>1 DEF MaybeResolve, Resolved
<1>3. CASE ~(r.headersComplete /\ r.endStreamSeen /\ s \in ClientIds)
  BY <1>1, <1>3, PutStores DEF MaybeResolve
<1> QED BY <1>2, <1>3

\* Each of them leaves the table and the promises in agreement.
LEMMA StoredTable ==
  ASSUME TableOK, ~closed, NEW s \in Ids, s \in DOMAIN streams \cup PromisedIds,
         NEW r, RecordOK(s, r), Stored(s, r)
  PROVE  TableOK'
<1>1. \A t \in DOMAIN streams' : RecordOK(t, streams'[t])
  BY DEF TableOK, Stored, OthersUntouched
<1>2. ASSUME NEW t \in ClientIds
      PROVE  outcome'[t] = Pending <=> (t \in DOMAIN streams' /\ streams'[t].awaited)
  <2>1. outcome'[t] = outcome[t]
    BY DEF Stored
  <2>2. t \in DOMAIN streams' <=> t \in DOMAIN streams
    BY DisjointIds DEF Stored
  <2>3. t \in DOMAIN streams => (streams'[t].awaited <=> streams[t].awaited)
    BY <1>1, <2>2 DEF TableOK, RecordOK
  <2> QED BY <2>1, <2>2, <2>3 DEF TableOK, TableIsPending
<1>3. TableIsPending'
  BY <1>2 DEF TableIsPending
<1>4. RecordOK(s, streams[s])' <=> RecordOK(s, streams'[s])
  BY DEF RecordOK
<1>5. \A t \in DOMAIN streams' : RecordOK(t, streams[t])'
  BY <1>1 DEF RecordOK
<1> QED BY <1>3, <1>5 DEF TableOK, Stored

LEMMA ResolvedTable ==
  ASSUME TableOK, ~closed, NEW s \in ClientIds, s \in DOMAIN streams,
         NEW r \in StreamState, r.responseHeaders # NoHeaders, Resolved(s, r)
  PROVE  TableOK'
<1>1. Response(r.responseHeaders, r.responseOctets) \in Outcome
  BY OutcomeKinds DEF StreamState
<1>2. outcome' \in [ClientIds -> Outcome] /\ outcome'[s] # Pending
      /\ \A t \in ClientIds \ {s} : outcome'[t] = outcome[t]
  BY <1>1, OutcomeKinds DEF TableOK, Resolved
<1>3. TableIsPending'
  BY <1>2 DEF TableOK, TableIsPending, Resolved, OthersUntouched
<1>4. \A t \in DOMAIN streams' : RecordOK(t, streams[t])'
  BY DEF TableOK, RecordOK, Resolved, OthersUntouched
<1> QED BY <1>2, <1>3, <1>4 DEF TableOK, Resolved

LEMMA FailedTable ==
  ASSUME TableOK, NEW S, S \subseteq DOMAIN streams, Failed(S),
         closed' = closed \/ (closed' = TRUE /\ S = DOMAIN streams)
  PROVE  TableOK'
<1>1. outcome' \in [ClientIds -> Outcome]
  BY OutcomeKinds DEF TableOK, Failed
<1>2. TableIsPending'
  BY OutcomeKinds DEF TableOK, TableIsPending, Failed, OthersUntouched
<1>3. \A t \in DOMAIN streams' : RecordOK(t, streams[t])'
  BY DEF TableOK, RecordOK, Failed, OthersUntouched
<1>4. DOMAIN streams' \subseteq Ids
  BY DEF TableOK, Failed
<1>5. closed' \in BOOLEAN /\ (closed' => DOMAIN streams' = {})
  <2>1. CASE closed' = closed
    <3>1. closed' \in BOOLEAN /\ (closed' => DOMAIN streams = {})
      BY <2>1, Zenon DEF TableOK
    <3>2. DOMAIN streams' \subseteq DOMAIN streams
      BY DEF Failed
    <3> QED BY <3>1, <3>2
  <2>2. CASE closed' = TRUE /\ S = DOMAIN streams
    BY <2>2 DEF Failed
  <2> QED BY <2>1, <2>2
<1> QED BY <1>1, <1>2, <1>3, <1>4, <1>5 DEF TableOK

-----------------------------------------------------------------------------
\* A stream that a step does not touch stays as it was.
LEMMA OtherStream ==
  ASSUME NEW t \in Ids, StreamOK(t),
         server'[t] = server[t],
         t \in DOMAIN streams' <=> t \in DOMAIN streams,
         t \in DOMAIN streams => streams'[t] = streams[t],
         t \in ClientIds => outcome'[t] = outcome[t],
         t \in PromisedIds => pushed'[t] = pushed[t],
         UNCHANGED <<closed, accepted>>,
         block' = block \/ (~Unfinished(t) /\ ~Unfinished(t)')
  PROVE  StreamOK(t)'
<1>1. Unfinished(t)' <=> Unfinished(t)
  BY DEF Unfinished
<1>2. Collected(t)' = Collected(t)
  BY <1>1 DEF Collected, Unfinished
<1>3. LiveOK(t) /\ t \in DOMAIN streams => LiveOK(t)'
  BY <1>1, <1>2 DEF LiveOK
<1>4. t \in ClientIds /\ SettledOK(t) => SettledOK(t)'
  BY <1>1 DEF SettledOK
<1>5. t \in PromisedIds /\ AnnouncedOK(t) => AnnouncedOK(t)'
  BY <1>1 DEF AnnouncedOK, Unfinished
<1> QED BY <1>3, <1>4, <1>5 DEF StreamOK, Alive

\* When the connection is torn down every stream that waits is failed; the peer's
\* side of it is as it was, or has begun a response.
LEMMA FatalStream ==
  ASSUME NEW t \in Ids, StreamOK(t), TableOK,
         Failed(DOMAIN streams), closed' = TRUE,
         \/ server'[t] = server[t]
         \/ /\ server'[t].body = server[t].body /\ ~server'[t].ended
            /\ server[t].phase \notin {"none", "ended"} /\ server'[t].phase = "headers",
         block' = block \/ ~Unfinished(t)'
  PROVE  StreamOK(t)'
<1>1. DOMAIN streams' = {}
  BY DEF Failed
<1>2. ASSUME t \in ClientIds PROVE SettledOK(t)'
  <2>1. SettledOK(t) /\ outcome[t] \in Outcome
    BY <1>2 DEF StreamOK, TableOK
  <2>2. outcome'[t] = IF t \in DOMAIN streams THEN Rejected ELSE outcome[t]
    BY <1>2 DEF Failed
  <2>3. t \in DOMAIN streams => outcome[t] = Pending
    BY <1>2 DEF TableOK, TableIsPending, RecordOK
  <2>4. CASE t \in DOMAIN streams
    BY <2>1, <2>2, <2>3, <2>4, OutcomeKinds DEF SettledOK
  <2>5. CASE t \notin DOMAIN streams
    BY <2>1, <2>2, <2>5, OutcomeKinds DEF SettledOK, Unfinished
  <2> QED BY <2>4, <2>5
<1> QED BY <1>1, <1>2 DEF StreamOK
-----------------------------------------------------------------------------
(***************************************************************************)
(* Every step preserves the invariant.                                     *)
(***************************************************************************)
\* What the invariant says between two header blocks.
LEMMA BetweenBlocks ==
  ASSUME Inv, MaySend
  PROVE  /\ ~closed /\ block = NoBlock
         /\ \A t \in Ids : ~Unfinished(t) /\ Collected(t) = <<>>
         /\ pendingPushContinuation = [t \in {} |-> 0]
         /\ \A t \in DOMAIN streams : streams[t].pendingHeaderBytes = <<>>
<1>1. ~closed /\ block = NoBlock
  BY DEF MaySend
<1>2. \A t \in Ids : ~Unfinished(t) /\ Collected(t) = <<>>
  BY <1>1 DEF Unfinished, Collected
<1>3. pendingPushContinuation = [t \in {} |-> 0]
  BY <1>1 DEF Inv, Redirected
<1>4. \A t \in DOMAIN streams : streams[t].pendingHeaderBytes = <<>>
  BY <1>2 DEF Inv, TableOK, StreamOK, LiveOK
<1> QED BY <1>1, <1>2, <1>3, <1>4

LEMMA RequestInv ==
  ASSUME Inv, NEW s \in ClientIds, Request(s)
  PROVE  Inv'
<1>0. s \in Ids /\ ~closed /\ server[s].phase = "none" /\ s \notin DOMAIN streams
      /\ server \in [Ids -> ServerState]
  BY DEF Inv, StreamOK, SettledOK, LiveOK, Request, Ids, Types
<1>1. /\ streams' = With(streams, s, NewStream(FALSE))
      /\ outcome' = [outcome EXCEPT ![s] = Pending]
      /\ server' = [server EXCEPT ![s].phase = "asked"]
      /\ UNCHANGED <<pendingPushContinuation, closed, pushed, updates, block, window, accepted>>
  BY DEF Request, Open, Put
<1>2. /\ DOMAIN streams' = DOMAIN streams \cup {s} /\ streams'[s] = NewStream(FALSE)
      /\ OthersUntouched({s})
  BY <1>1 DEF With, OthersUntouched
<1>3. /\ server' \in [Ids -> ServerState]
      /\ server'[s] = [server[s] EXCEPT !.phase = "asked"]
      /\ \A t \in Ids \ {s} : server'[t] = server[t]
  BY <1>0, <1>1 DEF ServerState, Phases
<1>4. /\ server'[s].phase = "asked" /\ server'[s].body = server[s].body
      /\ server'[s].ended = server[s].ended /\ server[s].body = 0 /\ ~server[s].ended
  BY <1>0, <1>3 DEF ServerState, Inv, StreamOK
<1>5. TableOK'
  <2>1. RecordOK(s, NewStream(FALSE))
    BY <1>0, DisjointIds, NewStreamFields DEF RecordOK
  <2>2. \A t \in DOMAIN streams' : RecordOK(t, streams[t])'
    BY <1>2, <2>1 DEF Inv, TableOK, RecordOK, OthersUntouched
  <2>3. outcome' \in [ClientIds -> Outcome] /\ outcome'[s] = Pending
        /\ \A t \in ClientIds \ {s} : outcome'[t] = outcome[t]
    BY <1>1, OutcomeKinds DEF Inv, TableOK
  <2>4. streams'[s].awaited
    BY <1>2, NewStreamFields
  <2>5. TableIsPending'
    BY <1>2, <2>3, <2>4 DEF Inv, TableOK, TableIsPending, OthersUntouched
  <2> QED BY <1>0, <1>1, <1>2, <2>2, <2>3, <2>5 DEF Inv, TableOK
<1>6. Types'
  BY <1>1, <1>3 DEF Inv, Types, BlockState, Ids
<1>7. Redirected'
  BY <1>1 DEF Inv, Redirected
<1>8. BlockOK'
  <2>1. block # NoBlock => block.owner \in Ids /\ block.owner # s
    BY <1>0 DEF Inv, Types, BlockOK, BlockState
  <2> QED BY <1>1, <1>2, <1>3, <2>1 DEF Inv, BlockOK, Uses
<1>9. CreditOK'
  BY <1>1 DEF Inv, CreditOK, Uses
<1>10. ASSUME NEW t \in Ids, t # s PROVE StreamOK(t)'
  BY <1>1, <1>2, <1>3, <1>10, OtherStream DEF Inv, OthersUntouched, TableOK
<1>11. StreamOK(s)'
  <2>1. ~Unfinished(s)
    BY <1>0 DEF Inv, Types, BlockOK, BlockState, Unfinished
  <2>2. Collected(s)' = <<>> /\ ~Unfinished(s)'
    BY <1>1, <2>1 DEF Collected, Unfinished
  <2>3. LiveOK(s)'
    BY <1>2, <1>4, <2>2, NewStreamFields DEF LiveOK
  <2>4. SettledOK(s)'
    <3>1. outcome'[s] = Pending
      BY <1>1 DEF Inv, TableOK
    <3> QED BY <1>4, <3>1, OutcomeKinds DEF SettledOK
  <2> QED BY <1>0, <1>2, <1>4, <2>3, <2>4, DisjointIds, ExchangeAssumption DEF StreamOK
<1> QED BY <1>5, <1>6, <1>7, <1>8, <1>9, <1>10, <1>11 DEF Inv
LEMMA ReceiveUpdatesInv ==
  ASSUME Inv, NEW s \in Ids \cup {0}, ReceiveUpdates(s)
  PROVE  Inv'
<1>1. /\ window' = [window EXCEPT ![s] = @ + updates[s]]
      /\ updates' = [updates EXCEPT ![s] = 0]
      /\ UNCHANGED <<streams, pendingPushContinuation, closed, outcome, pushed,
                     server, block, accepted>>
  BY DEF ReceiveUpdates
<1>2. updates \in [Ids \cup {0} -> Nat] /\ window \in [Ids \cup {0} -> Nat]
  BY DEF Inv, Types
<1>3. updates' \in [Ids \cup {0} -> Nat] /\ window' \in [Ids \cup {0} -> Nat]
  BY <1>1, <1>2
<1>4. Types'
  BY <1>1, <1>3 DEF Inv, Types
<1>5. TableOK' /\ Redirected' /\ BlockOK'
  BY <1>1 DEF Inv, TableOK, RecordOK, TableIsPending, Redirected, BlockOK, Uses
<1>6. CreditOK'
  <2>1. ASSUME NEW t \in Ids \cup {0}
        PROVE  window'[t] + updates'[t] = window[t] + updates[t]
    BY <1>1, <1>2
  <2> QED BY <1>1, <2>1 DEF Inv, CreditOK, Uses
<1>7. ASSUME NEW t \in Ids PROVE StreamOK(t)'
  BY <1>1, OtherStream DEF Inv
<1> QED BY <1>4, <1>5, <1>6, <1>7 DEF Inv

\* Everything but the streams survives the connection being torn down.
LEMMA FatalInv ==
  ASSUME Inv, HandleFatal, Types', BlockOK',
         UNCHANGED <<window, accepted>>,
         \A t \in Ids : StreamOK(t)'
  PROVE  Inv'
<1>1. Failed(DOMAIN streams) /\ closed' = TRUE /\ UNCHANGED <<pushed, updates>>
  BY FatalFails DEF Inv
<1>2. TableOK'
  BY <1>1, FailedTable DEF Inv
<1>3. Redirected' /\ CreditOK'
  BY <1>1 DEF Inv, Redirected, CreditOK
<1> QED BY <1>2, <1>3 DEF Inv

LEMMA ConnectionLostInv ==
  ASSUME Inv, ConnectionLost
  PROVE  Inv'
<1>1. /\ HandleFatal
      /\ UNCHANGED <<pendingPushContinuation, server, block, window, accepted>>
  BY DEF ConnectionLost
<1>2. Failed(DOMAIN streams) /\ closed' = TRUE /\ UNCHANGED <<pushed, updates>>
  BY <1>1, FatalFails DEF Inv
<1>3. Types' /\ BlockOK'
  BY <1>1, <1>2 DEF Inv, Types, BlockOK, Uses
<1>4. ASSUME NEW t \in Ids PROVE StreamOK(t)'
  BY <1>1, <1>2, FatalStream DEF Inv
<1> QED BY <1>1, <1>3, <1>4, FatalInv

LEMMA SendResetInv ==
  ASSUME Inv, NEW s \in Ids, SendReset(s)
  PROVE  Inv'
<1> DEFINE S == {s} \cap DOMAIN streams
<1>0. /\ MaySend /\ server[s].phase \in Phases \ {"none", "gone"}
      /\ Dispatch([type |-> "RST_STREAM", stream |-> s])
      /\ server' = [server EXCEPT ![s].phase = IF @ = "ended" THEN @ ELSE "gone"]
      /\ UNCHANGED <<block, window, accepted>>
  BY DEF SendReset
<1>1. /\ Failed(S)
      /\ UNCHANGED <<pendingPushContinuation, closed, pushed, updates>>
  <2>1. CASE s \in DOMAIN streams
    <3>1. HandleRstStream([type |-> "RST_STREAM", stream |-> s])
      BY <1>0, <2>1 DEF Dispatch
    <3>2. RejectStreams(S) /\ UNCHANGED <<pendingPushContinuation, closed, pushed, updates>>
      BY <2>1, <3>1 DEF HandleRstStream
    <3> QED BY <3>2, RejectFails DEF Inv
  <2>2. CASE s \notin DOMAIN streams
    <3>1. UNCHANGED vars
      BY <1>0, <2>2 DEF Dispatch
    <3>2. outcome = [t \in ClientIds |-> IF t \in S THEN Rejected ELSE outcome[t]]
      BY <2>2 DEF Inv, TableOK
    <3> QED BY <2>2, <3>1, <3>2 DEF vars, Failed, OthersUntouched
  <2> QED BY <2>1, <2>2
<1>2. block = NoBlock /\ ~closed /\ \A t \in Ids : ~Unfinished(t)
  BY <1>0, BetweenBlocks
<1>3. /\ server' \in [Ids -> ServerState]
      /\ \A t \in Ids \ {s} : server'[t] = server[t]
      /\ server'[s].body = server[s].body /\ server'[s].ended = server[s].ended
      /\ server'[s].headers = server[s].headers
      /\ server[s].phase # "none"
      /\ server'[s].phase = IF server[s].phase = "ended" THEN "ended" ELSE "gone"
  <2>1. server \in [Ids -> ServerState]
    BY DEF Inv, Types
  <2> QED BY <1>0, <2>1 DEF ServerState, Phases
<1>4. TableOK'
  BY <1>1, FailedTable DEF Inv
<1>5. Types' /\ Redirected' /\ BlockOK' /\ CreditOK'
  BY <1>0, <1>1, <1>2, <1>3 DEF Inv, Types, Redirected, BlockOK, CreditOK, Uses
<1>6. ASSUME NEW t \in Ids, t # s PROVE StreamOK(t)'
  <2>1. /\ t \in DOMAIN streams' <=> t \in DOMAIN streams
        /\ t \in DOMAIN streams => streams'[t] = streams[t]
        /\ t \in ClientIds => outcome'[t] = outcome[t]
    BY <1>1, <1>6 DEF Failed, OthersUntouched
  <2> QED BY <1>0, <1>1, <1>3, <1>6, <2>1, OtherStream DEF Inv
<1>7. StreamOK(s)'
  <2>1. s \notin DOMAIN streams'
    BY <1>1 DEF Failed
  <2>2. ~Unfinished(s)'
    BY <1>0, <1>2 DEF Unfinished
  <2>3. ASSUME s \in ClientIds PROVE SettledOK(s)'
    <3>1. SettledOK(s) /\ outcome[s] # New
      BY <1>3, <2>3 DEF Inv, StreamOK, SettledOK
    <3>2. s \in DOMAIN streams => outcome[s] = Pending
      BY <2>3 DEF Inv, TableOK, TableIsPending, RecordOK
    <3>3. outcome'[s] = IF s \in DOMAIN streams THEN Rejected ELSE outcome[s]
      BY <1>1, <2>3 DEF Failed
    <3> QED BY <1>3, <2>2, <3>1, <3>2, <3>3, OutcomeKinds DEF SettledOK, Uses
  <2>4. ASSUME s \in PromisedIds PROVE AnnouncedOK(s)'
    BY <1>1, <1>2, <1>3, <2>2, <2>4 DEF Inv, StreamOK, AnnouncedOK
  <2> QED BY <1>3, <2>1, <2>3, <2>4 DEF Inv, StreamOK, Alive, Uses
<1> QED BY <1>4, <1>5, <1>6, <1>7 DEF Inv

LEMMA SendGoawayInv ==
  ASSUME Inv, NEW last \in ClientIds \cup {0}, SendGoaway(last)
  PROVE  Inv'
<1> DEFINE S == {t \in DOMAIN streams : t > last}
           Lost(t) == t \in ClientIds /\ t > last /\ Alive(t)
<1>0. /\ MaySend /\ last <= accepted
      /\ Dispatch([type |-> "GOAWAY", last |-> last])
      /\ accepted' = last
      /\ server' = [t \in Ids |-> IF Lost(t) THEN [server[t] EXCEPT !.phase = "gone"]
                                  ELSE server[t]]
      /\ UNCHANGED <<block, window>>
  BY DEF SendGoaway
<1>1. /\ Failed(S)
      /\ UNCHANGED <<pendingPushContinuation, closed, pushed, updates>>
  <2>1. HandleGoaway([type |-> "GOAWAY", last |-> last])
    BY <1>0 DEF Dispatch
  <2>2. RejectStreams(S) /\ UNCHANGED <<pendingPushContinuation, closed, pushed, updates>>
    BY <2>1 DEF HandleGoaway
  <2> QED BY <2>2, RejectFails DEF Inv
<1>2. block = NoBlock /\ ~closed /\ \A t \in Ids : ~Unfinished(t)
  BY <1>0, BetweenBlocks
<1>3. server \in [Ids -> ServerState] /\ last \in Nat /\ accepted \in Nat /\ Ids \subseteq Nat
  BY DisjointIds, MaxIdIsLast DEF Inv, Types, Ids
<1>4. /\ server' \in [Ids -> ServerState]
      /\ \A t \in Ids : ~Lost(t) => server'[t] = server[t]
      /\ \A t \in Ids : Lost(t) =>
           /\ server'[t].body = server[t].body /\ server'[t].ended = server[t].ended
           /\ server[t].phase \in {"asked", "informed", "headers"}
           /\ server'[t].phase = "gone"
  BY <1>0, <1>3 DEF ServerState, Phases, Alive
<1>5. TableOK'
  BY <1>1, FailedTable DEF Inv
<1>6. accepted' \in 0..(MaxId + 1)
  BY <1>0, <1>3, MaxIdIsLast DEF Inv, Types
<1>7. Types' /\ Redirected' /\ BlockOK' /\ CreditOK'
  BY <1>0, <1>1, <1>2, <1>4, <1>6 DEF Inv, Types, Redirected, BlockOK, CreditOK, Uses
<1>8. ASSUME NEW t \in Ids PROVE StreamOK(t)'
  <2>0. ~Unfinished(t)' /\ Collected(t)' = <<>> /\ Collected(t) = <<>>
    BY <1>0, <1>2 DEF Unfinished, Collected
  <2>1. t \in DOMAIN streams' <=> t \in DOMAIN streams /\ t <= last
    <3>1. \A u \in DOMAIN streams : u \in Nat
      BY <1>3 DEF Inv, TableOK
    <3> QED BY <1>1, <1>3, <3>1 DEF Failed
  <2>2. t \in DOMAIN streams' => streams'[t] = streams[t]
    BY <1>1 DEF Failed, OthersUntouched
  <2>3. ASSUME t \in ClientIds PROVE SettledOK(t)'
    <3>1. SettledOK(t)
      BY <2>3 DEF Inv, StreamOK
    <3>2. t \in DOMAIN streams => outcome[t] = Pending
      BY <2>3 DEF Inv, TableOK, TableIsPending, RecordOK
    <3>3. outcome'[t] = IF t \in DOMAIN streams /\ t > last THEN Rejected ELSE outcome[t]
      BY <1>1, <2>3 DEF Failed
    <3>4. CASE Lost(t)
      BY <1>2, <1>4, <2>0, <3>1, <3>2, <3>3, <3>4, OutcomeKinds DEF SettledOK, Uses
    <3>5. CASE ~Lost(t)
      BY <1>2, <1>4, <2>0, <3>1, <3>2, <3>3, <3>5, OutcomeKinds DEF SettledOK, Uses
    <3> QED BY <3>4, <3>5
  <2>4. ASSUME t \in PromisedIds PROVE AnnouncedOK(t)'
    <3>1. ~Lost(t)
      BY <2>4, DisjointIds
    <3> QED BY <1>1, <1>2, <1>4, <2>0, <2>4, <3>1 DEF Inv, StreamOK, AnnouncedOK, Uses
  <2>5. t \in DOMAIN streams' => LiveOK(t)'
    <3> SUFFICES ASSUME t \in DOMAIN streams' PROVE LiveOK(t)'
      OBVIOUS
    <3>1. ~Lost(t) /\ LiveOK(t)
      BY <1>3, <2>1 DEF Inv, StreamOK
    <3> QED BY <1>2, <1>4, <2>0, <2>2, <3>1 DEF LiveOK
  <2>6. Alive(t)' /\ (t \in ClientIds \/ t <= accepted') => t \in DOMAIN streams'
    <3>1. ~Lost(t) /\ Alive(t)' => Alive(t)
      BY <1>4 DEF Alive
    <3>2. Lost(t) => ~Alive(t)'
      BY <1>4 DEF Alive
    <3> QED BY <1>0, <1>2, <1>3, <2>1, <3>1, <3>2 DEF Inv, StreamOK
  <2>7. /\ server'[t].body <= MaxBody
        /\ server'[t].phase \in {"none", "asked", "informed"} => server'[t].body = 0
        /\ server'[t].ended <=> server'[t].phase = "ended"
    BY <1>4 DEF Inv, StreamOK
  <2> QED BY <2>3, <2>4, <2>5, <2>6, <2>7 DEF StreamOK, Uses
<1> QED BY <1>5, <1>7, <1>8 DEF Inv
LEMMA SendDataInv ==
  ASSUME Inv, NEW s \in Ids, NEW n \in 0..MaxBody, NEW e \in BOOLEAN,
         NEW padded \in BOOLEAN, NEW padLength \in Nat,
         SendData(s, n, e, padded, padLength)
  PROVE  Inv'
<1> DEFINE length == IF padded THEN n + padLength + 1 ELSE n
           m == [type |-> "DATA", stream |-> s, length |-> length, padded |-> padded,
                 padLength |-> padLength, endStream |-> e]
           r == [streams[s] EXCEPT !.responseOctets = @ + n]
           q == IF e THEN EndStream(r) ELSE r
<1>0. /\ MaySend /\ server[s].phase = "headers"
      /\ server[s].body + n <= MaxBody
      /\ length <= window[0] /\ length <= window[s]
      /\ s > accepted => Uses("pushAfterGoaway")
      /\ Dispatch(m)
      /\ window' = [window EXCEPT ![0] = @ - length, ![s] = @ - length]
      /\ server' = [server EXCEPT ![s].body = @ + n,
                                  ![s].phase = IF e THEN "ended" ELSE @,
                                  ![s].ended = e]
      /\ UNCHANGED <<block, accepted>>
  BY DEF SendData
<1>1. /\ ~closed /\ block = NoBlock
      /\ \A t \in Ids : ~Unfinished(t) /\ Collected(t) = <<>>
      /\ \A t \in Ids : ~Unfinished(t)' /\ Collected(t)' = <<>>
  BY <1>0, BetweenBlocks DEF Unfinished, Collected
<1>2. MaxBody \in Nat /\ n \in Nat /\ length \in Nat /\ s # 0 /\ Window \in Nat
  BY ExchangeAssumption, DisjointIds
<1>3. server \in [Ids -> ServerState] /\ server[s].body \in Nat
  BY DEF Inv, Types, ServerState
<1>4. /\ server' \in [Ids -> ServerState]
      /\ \A t \in Ids \ {s} : server'[t] = server[t]
      /\ server'[s].body = server[s].body + n /\ server'[s].ended = e
      /\ server'[s].headers = server[s].headers
      /\ server'[s].phase = IF e THEN "ended" ELSE "headers"
  <2> DEFINE one == [server EXCEPT ![s].body = @ + n]
             two == [one EXCEPT ![s].phase = IF e THEN "ended" ELSE @]
             three == [two EXCEPT ![s].ended = e]
  <2>1. /\ one \in [Ids -> ServerState] /\ \A t \in Ids \ {s} : one[t] = server[t]
        /\ one[s].body = server[s].body + n /\ one[s].headers = server[s].headers
        /\ one[s].phase = server[s].phase
    BY <1>2, <1>3 DEF ServerState
  <2>2. server' = three
    BY <1>0
  <2> HIDE DEF one
  <2>3. /\ two \in [Ids -> ServerState] /\ \A t \in Ids \ {s} : two[t] = one[t]
        /\ two[s].body = one[s].body /\ two[s].headers = one[s].headers
        /\ two[s].phase = IF e THEN "ended" ELSE one[s].phase
    BY <2>1 DEF ServerState, Phases
  <2> HIDE DEF two
  <2>4. /\ three \in [Ids -> ServerState] /\ \A t \in Ids \ {s} : three[t] = two[t]
        /\ three[s].body = two[s].body /\ three[s].headers = two[s].headers
        /\ three[s].phase = two[s].phase /\ three[s].ended = e
    BY <2>3 DEF ServerState
  <2> QED BY <1>0, <2>1, <2>2, <2>3, <2>4
<1>5. Stripped(m) = n /\ Consumed(m) = length
  BY <1>2 DEF Stripped, Consumed
<1> HIDE DEF length
<1>6. s \in DOMAIN streams =>
        /\ r \in StreamState /\ q \in StreamState
        /\ RecordOK(s, q)
        /\ q.headersComplete = streams[s].headersComplete
        /\ q.responseHeaders = streams[s].responseHeaders
        /\ q.responseOctets = streams[s].responseOctets + n
        /\ q.pendingHeaderBytes = <<>>
        /\ r.state = streams[s].state
        /\ e => q.endStreamSeen
        /\ ~e => q.endStreamSeen = streams[s].endStreamSeen /\ q.state = streams[s].state
        /\ streams[s].state # "closed"
  <2> SUFFICES ASSUME s \in DOMAIN streams
               PROVE  /\ r \in StreamState /\ q \in StreamState
                      /\ RecordOK(s, q)
                      /\ q.headersComplete = streams[s].headersComplete
                      /\ q.responseHeaders = streams[s].responseHeaders
                      /\ q.responseOctets = streams[s].responseOctets + n
                      /\ q.pendingHeaderBytes = <<>>
                      /\ r.state = streams[s].state
                      /\ e => q.endStreamSeen
                      /\ ~e => q.endStreamSeen = streams[s].endStreamSeen /\ q.state = streams[s].state
                      /\ streams[s].state # "closed"
    OBVIOUS
  <2>1. /\ RecordOK(s, streams[s]) /\ streams[s] \in StreamState
        /\ streams[s].pendingHeaderBytes = <<>> /\ streams[s].state # "closed"
    BY <1>0, <1>1, BetweenBlocks DEF Inv, TableOK, RecordOK, StreamOK, LiveOK
  <2>2. /\ r \in StreamState
        /\ r.state = streams[s].state /\ r.headersComplete = streams[s].headersComplete
        /\ r.endStreamSeen = streams[s].endStreamSeen
        /\ r.responseHeaders = streams[s].responseHeaders
        /\ r.responseOctets = streams[s].responseOctets + n
        /\ r.pendingHeaderBytes = streams[s].pendingHeaderBytes
        /\ r.awaited = streams[s].awaited /\ r.isPushPromise = streams[s].isPushPromise
    BY <1>2, <2>1 DEF StreamState
  <2> HIDE DEF r
  <2>3. CASE e
    BY <2>1, <2>2, <2>3, EndStreamFields DEF RecordOK
  <2>4. CASE ~e
    BY <2>1, <2>2, <2>4 DEF RecordOK
  <2> QED BY <2>1, <2>2, <2>3, <2>4
<1>7. s \in ClientIds => s \in DOMAIN streams
  BY <1>0, <1>1 DEF Inv, StreamOK, Alive
<1>8. s \in ClientIds => /\ streams[s].headersComplete
                         /\ streams[s].responseHeaders = server[s].headers
                         /\ streams[s].responseOctets = server[s].body
                         /\ ~streams[s].endStreamSeen
  BY <1>0, <1>1, <1>7 DEF Inv, StreamOK, LiveOK
<1>9. s \notin DOMAIN streams =>
        UNCHANGED <<streams, pendingPushContinuation, closed, outcome, pushed, updates>>
  BY <1>0 DEF Dispatch, vars
<1>10. s \in DOMAIN streams =>
         /\ updates' = [updates EXCEPT ![0] = @ + length, ![s] = @ + length]
         /\ UNCHANGED <<pendingPushContinuation, closed, pushed>>
         /\ IF e /\ s \in ClientIds THEN Resolved(s, q) ELSE Stored(s, q)
  <2> SUFFICES ASSUME s \in DOMAIN streams
               PROVE  /\ updates' = [updates EXCEPT ![0] = @ + length, ![s] = @ + length]
                      /\ UNCHANGED <<pendingPushContinuation, closed, pushed>>
                      /\ IF e /\ s \in ClientIds THEN Resolved(s, q) ELSE Stored(s, q)
    OBVIOUS
  <2>1. HandleData(m)
    BY <1>0 DEF Dispatch
  <2> HIDE DEF r
  <2>2. /\ updates' = [updates EXCEPT ![0] = @ + length,
                                      ![s] = IF r.state = "closed" THEN @ ELSE @ + length]
        /\ IF e THEN MaybeResolve(s, EndStream(r)) ELSE Put(s, r) /\ UNCHANGED outcome
        /\ UNCHANGED <<pendingPushContinuation, closed, pushed>>
    BY <1>5, <2>1 DEF HandleData, r
  <2>3. updates' = [updates EXCEPT ![0] = @ + length, ![s] = @ + length]
    BY <1>6, <2>2
  <2>4. CASE e
    <3>1. MaybeResolve(s, q) /\ RecordOK(s, q) /\ UNCHANGED closed
      BY <1>6, <2>2, <2>4
    <3> HIDE DEF q
    <3>2. IF q.headersComplete /\ q.endStreamSeen /\ s \in ClientIds
            THEN Resolved(s, q) ELSE Stored(s, q)
      BY <3>1, MaybeResolves DEF Inv
    <3>3. q.endStreamSeen /\ (s \in ClientIds => q.headersComplete)
      BY <1>6, <1>8, <2>4
    <3> QED BY <2>2, <2>3, <2>4, <3>2, <3>3
  <2>5. CASE ~e
    BY <2>2, <2>3, <2>5, PutStores
  <2> QED BY <2>4, <2>5
<1> HIDE DEF r, q, m
<1>11. TableOK'
  <2>1. CASE s \notin DOMAIN streams
    BY <1>9, <2>1 DEF Inv, TableOK, RecordOK, TableIsPending
  <2>2. CASE s \in DOMAIN streams /\ e /\ s \in ClientIds
    <3>1. q.responseHeaders # NoHeaders
      BY <1>6, <1>8, <2>2 DEF Inv, TableOK, RecordOK
    <3> QED BY <1>1, <1>6, <1>10, <2>2, <3>1, ResolvedTable DEF Inv
  <2>3. CASE s \in DOMAIN streams /\ ~(e /\ s \in ClientIds)
    BY <1>1, <1>6, <1>10, <2>3, StoredTable DEF Inv
  <2> QED BY <2>1, <2>2, <2>3
<1>12. UNCHANGED <<pendingPushContinuation, closed, pushed>>
  BY <1>9, <1>10
<1>13. \A t \in Ids \cup {0} :
         /\ window'[t] \in Nat /\ updates'[t] \in Nat
         /\ window'[t] + updates'[t] <= Window
         /\ ~Uses("pushAfterGoaway") => window'[t] + updates'[t] = window[t] + updates[t]
  <2>1. updates \in [Ids \cup {0} -> Nat] /\ window \in [Ids \cup {0} -> Nat]
    BY DEF Inv, Types
  <2>2. \A t \in Ids \cup {0} :
          /\ window'[t] = IF t \in {0, s} THEN window[t] - length ELSE window[t]
          /\ window'[t] \in Nat /\ window'[t] <= window[t]
    BY <1>0, <1>2, <2>1
  <2>3. CASE s \in DOMAIN streams
    <3>1. \A t \in Ids \cup {0} :
            updates'[t] = IF t \in {0, s} THEN updates[t] + length ELSE updates[t]
      BY <1>2, <1>10, <2>1, <2>3
    <3> QED BY <1>2, <2>1, <2>2, <3>1 DEF Inv, CreditOK
  <2>4. CASE s \notin DOMAIN streams
    <3>1. Uses("pushAfterGoaway")
      <4>1. s > accepted
        <5>1. s \in Nat /\ accepted \in Nat
          BY DisjointIds, MaxIdIsLast DEF Inv, Types
        <5> QED BY <1>0, <1>1, <2>4, <5>1 DEF Inv, StreamOK, Alive
      <4> QED BY <1>0, <4>1
    <3> QED BY <1>2, <1>9, <2>1, <2>2, <2>4, <3>1 DEF Inv, CreditOK
  <2> QED BY <2>3, <2>4
<1>14. updates' \in [Ids \cup {0} -> Nat] /\ window' \in [Ids \cup {0} -> Nat]
  <2>1. updates \in [Ids \cup {0} -> Nat] /\ window \in [Ids \cup {0} -> Nat]
    BY DEF Inv, Types
  <2>2. DOMAIN window' = Ids \cup {0} /\ window' = [t \in Ids \cup {0} |-> window'[t]]
    BY <1>0, <2>1
  <2>3. updates' = [t \in Ids \cup {0} |-> updates'[t]]
    BY <1>9, <1>10, <2>1
  <2> HIDE DEF m
  <2> QED BY <1>13, <2>2, <2>3
<1>15. Types'
  BY <1>0, <1>4, <1>12, <1>14 DEF Inv, Types
<1>16. Redirected' /\ BlockOK' /\ CreditOK'
  BY <1>0, <1>1, <1>12, <1>13 DEF Inv, Redirected, BlockOK, CreditOK, Uses
<1>17. ASSUME NEW t \in Ids, t # s PROVE StreamOK(t)'
  <2>1. /\ t \in DOMAIN streams' <=> t \in DOMAIN streams
        /\ t \in DOMAIN streams => streams'[t] = streams[t]
        /\ t \in ClientIds => outcome'[t] = outcome[t]
    BY <1>9, <1>10, <1>17 DEF Stored, Resolved, OthersUntouched, Inv, TableOK
  <2> QED BY <1>0, <1>4, <1>12, <1>17, <2>1, OtherStream DEF Inv
<1>18. StreamOK(s)'
  <2>1. s \in DOMAIN streams' => s \in DOMAIN streams /\ streams'[s] = q /\ ~(e /\ s \in ClientIds)
    BY <1>9, <1>10 DEF Stored, Resolved
  <2>2. s \in DOMAIN streams' => LiveOK(s)'
    BY <1>1, <1>2, <1>4, <1>6, <1>8, <2>1 DEF LiveOK
  <2>3. ASSUME s \in ClientIds PROVE SettledOK(s)'
    <3>1. outcome'[s] = IF e THEN Response(q.responseHeaders, q.responseOctets) ELSE outcome[s]
      BY <1>7, <1>10, <2>3 DEF Stored, Resolved, Inv, TableOK
    <3>2. SettledOK(s)
      BY <2>3 DEF Inv, StreamOK
    <3>3. CASE e
      BY <1>1, <1>4, <1>6, <1>7, <1>8, <2>3, <3>1, <3>3, OutcomeKinds DEF SettledOK
    <3>4. CASE ~e
      BY <1>0, <1>1, <1>4, <3>1, <3>2, <3>4, OutcomeKinds DEF SettledOK
    <3> QED BY <3>3, <3>4
  <2>4. ASSUME s \in PromisedIds PROVE AnnouncedOK(s)'
    BY <1>0, <1>1, <1>4, <1>12, <2>4 DEF Inv, StreamOK, AnnouncedOK
  <2>5. Alive(s)' /\ (s \in ClientIds \/ s <= accepted') => s \in DOMAIN streams'
    <3>1. Alive(s)' => ~e
      BY <1>4 DEF Alive
    <3>2. Alive(s)
      BY <1>0 DEF Alive
    <3> QED BY <1>0, <1>1, <1>9, <1>10, <3>1, <3>2 DEF Inv, StreamOK, Stored
  <2> QED BY <1>0, <1>1, <1>2, <1>3, <1>4, <1>12, <2>2, <2>3, <2>4, <2>5 DEF StreamOK, Uses
<1> QED BY <1>11, <1>15, <1>16, <1>17, <1>18 DEF Inv
\* The first piece of a block, collected by a stream with nothing left over.
LEMMA FirstPiece ==
  ASSUME NEW b \in Blocks, NEW n \in Nat
  PROVE  Append(<<>>, <<b, 1, n>>) = [i \in 1..1 |-> <<b, i, n>>]
<1>1. [i \in 1..0 |-> <<b, i, n>>] = <<>>
  OBVIOUS
<1> QED BY <1>1, PieceAppended, 0 + 1 = 1

\* What the peer's HEADERS frame does to the peer.
LEMMA HeadersSent ==
  ASSUME Inv, NEW s \in Ids, NEW b \in Blocks, NEW n \in Pieces, NEW e \in BOOLEAN,
         SendHeaders(s, b, n, e)
  PROVE  /\ server' \in [Ids -> ServerState]
         /\ \A t \in Ids \ {s} : server'[t] = server[t]
         /\ server[s].phase \in {"asked", "informed", "headers"}
         /\ server'[s].body = server[s].body /\ server'[s].ended = e
         /\ server'[s].headers = IF b = "trailers" THEN server[s].headers ELSE b
         /\ server'[s].phase = IF e THEN "ended"
                               ELSE IF b = "informational" THEN "informed" ELSE "headers"
         /\ b # "promise"
         /\ b \in {"informational", "undecodable"} => ~e /\ server[s].phase = "asked"
         /\ b = "trailers" => e /\ Uses("trailers")
         /\ n \in Nat \ {0}
         /\ block' = NoBlock \/ block' \in BlockState
         /\ n = 1 => block' = NoBlock
         /\ n # 1 => /\ block' # NoBlock /\ block'.stream = s /\ block'.owner = s
                     /\ block'.name = b /\ block'.next = 2 /\ block'.of = n
                     /\ block'.left = n - 1
<1>0. /\ MaySend /\ Alive(s)
      /\ CASE b = "informational" -> server[s].phase = "asked" /\ ~e
           [] b = "final" -> server[s].phase \in {"asked", "informed"}
           [] b = "trailers" -> Uses("trailers") /\ server[s].phase = "headers" /\ e
           [] b = "undecodable" -> Uses("undecodable") /\ server[s].phase = "asked" /\ ~e
           [] OTHER -> FALSE
      /\ server' = [server EXCEPT ![s].phase = CASE e -> "ended"
                                                 [] b = "informational" -> "informed"
                                                 [] OTHER -> "headers",
                                  ![s].headers = IF b = "trailers" THEN @ ELSE b,
                                  ![s].ended = e]
      /\ Begin(s, s, b, n)
  BY DEF SendHeaders
<1>1. /\ b # "promise" /\ server[s].phase \in {"asked", "informed", "headers"}
      /\ b \in {"informational", "undecodable"} => ~e /\ server[s].phase = "asked"
      /\ b = "trailers" => e /\ Uses("trailers")
  BY <1>0 DEF Blocks, Alive
<1>2. n \in Nat \ {0}
  BY ExchangeAssumption
<1>3. server \in [Ids -> ServerState]
  BY DEF Inv, Types
<1> DEFINE phase == IF e THEN "ended" ELSE IF b = "informational" THEN "informed" ELSE "headers"
           one == [server EXCEPT ![s].phase = phase]
           two == [one EXCEPT ![s].headers = IF b = "trailers" THEN @ ELSE b]
           three == [two EXCEPT ![s].ended = e]
<1>4. phase \in Phases
      /\ phase = CASE e -> "ended" [] b = "informational" -> "informed" [] OTHER -> "headers"
  <2>1. phase \in Phases
    BY DEF Phases
  <2>2. CASE e
    BY <1>1, <2>1, <2>2
  <2>3. CASE ~e /\ b = "informational"
    BY <2>1, <2>3
  <2>4. CASE ~e /\ b # "informational"
    BY <2>1, <2>4
  <2> QED BY <2>2, <2>3, <2>4
<1>5. server' = three
  BY <1>0, <1>4
<1> HIDE DEF phase
<1>6. /\ one \in [Ids -> ServerState] /\ \A t \in Ids \ {s} : one[t] = server[t]
      /\ one[s].body = server[s].body /\ one[s].headers = server[s].headers
      /\ one[s].phase = phase
  BY <1>3, <1>4 DEF ServerState
<1> HIDE DEF one
<1>7. /\ two \in [Ids -> ServerState] /\ \A t \in Ids \ {s} : two[t] = one[t]
      /\ two[s].body = one[s].body /\ two[s].phase = one[s].phase
      /\ two[s].headers = IF b = "trailers" THEN one[s].headers ELSE b
  BY <1>6 DEF ServerState
<1> HIDE DEF two
<1>8. /\ three \in [Ids -> ServerState] /\ \A t \in Ids \ {s} : three[t] = two[t]
      /\ three[s].body = two[s].body /\ three[s].headers = two[s].headers
      /\ three[s].phase = two[s].phase /\ three[s].ended = e
  BY <1>7 DEF ServerState
<1>9. n = 1 => block' = NoBlock
  BY <1>0 DEF Begin
<1>10. ASSUME n # 1
       PROVE  /\ block' \in BlockState /\ block'.stream = s /\ block'.owner = s
              /\ block'.name = b /\ block'.next = 2 /\ block'.of = n /\ block'.left = n - 1
  <2>1. n - 1 \in Nat \ {0}
    BY <1>2, <1>10
  <2> QED BY <1>0, <1>2, <1>10, <2>1 DEF Begin, BlockState
<1>11. n # 1 => block' # NoBlock
  BY <1>10, BlockStateIsSome
<1> QED BY <1>1, <1>2, <1>5, <1>6, <1>7, <1>8, <1>9, <1>10, <1>11 DEF phase

\* What it does to the client: nothing when the stream is gone; it is collected;
\* it completes the headers, and with END_STREAM the response; or HPACK refuses it.
LEMMA HeadersHandled ==
  ASSUME Inv, NEW s \in Ids, NEW b \in Blocks, NEW n \in Pieces, NEW e \in BOOLEAN,
         SendHeaders(s, b, n, e), s \in DOMAIN streams
  PROVE  /\ UNCHANGED <<pendingPushContinuation, pushed, updates>>
         /\ \/ /\ n = 1 /\ b = "undecodable" /\ HandleFatal
            \/ /\ n # 1
               /\ \E r \in StreamState :
                    /\ Stored(s, r) /\ RecordOK(s, r)
                    /\ r.state = streams[s].state /\ r.responseOctets = streams[s].responseOctets
                    /\ r.endStreamSeen = streams[s].endStreamSeen
                    /\ r.pendingHeaderBytes = [i \in 1..1 |-> <<b, i, n>>]
            \/ /\ n = 1 /\ b # "undecodable"
               /\ \E r \in StreamState :
                    /\ IF e /\ s \in ClientIds THEN Resolved(s, r) ELSE Stored(s, r)
                    /\ RecordOK(s, r)
                    /\ r.headersComplete /\ r.responseHeaders = b /\ b # NoHeaders
                    /\ r.responseOctets = streams[s].responseOctets
                    /\ ~e => /\ r.endStreamSeen = streams[s].endStreamSeen
                             /\ streams[s].state # "closed" => r.state # "closed"
                    /\ r.pendingHeaderBytes = <<>>
<1> DEFINE m == [type |-> "HEADERS", stream |-> s, piece |-> <<b, 1, n>>,
                 endHeaders |-> n = 1, endStream |-> e]
           r == WithPiece(streams[s], m)
           d == WithHeaders(r)
           o == IF d.state = "remote_reserved" THEN [d EXCEPT !.state = "open"] ELSE d
           q == IF e THEN EndStream(o) ELSE o
<1>0. MaySend /\ Dispatch(m)
  BY DEF SendHeaders
<1>1. HandleHeaders(m)
  BY <1>0 DEF Dispatch
<1>2. n \in Nat \ {0} /\ (b = "undecodable" => ~e)
  BY HeadersSent
<1>3. /\ streams[s] \in StreamState /\ RecordOK(s, streams[s]) /\ ~closed
      /\ streams[s].pendingHeaderBytes = <<>>
      /\ s \in ClientIds => ~streams[s].endStreamSeen
  BY <1>0, BetweenBlocks DEF Inv, TableOK, RecordOK, StreamOK, LiveOK
<1>4. m.stream = s /\ m.endStream = e /\ m.endHeaders = (n = 1)
      /\ m.piece = <<b, 1, n>> /\ m.piece \in Piece
  BY <1>2 DEF Piece
<1> HIDE DEF m
<1>5. /\ r \in StreamState
      /\ r.state = streams[s].state /\ r.headersComplete = streams[s].headersComplete
      /\ r.endStreamSeen = streams[s].endStreamSeen
      /\ r.responseHeaders = streams[s].responseHeaders
      /\ r.responseOctets = streams[s].responseOctets
      /\ r.pendingHeaderBytes = [i \in 1..1 |-> <<b, i, n>>]
      /\ r.awaited = streams[s].awaited /\ r.isPushPromise = streams[s].isPushPromise
  <2>1. /\ r \in StreamState
        /\ r.state = streams[s].state /\ r.headersComplete = streams[s].headersComplete
        /\ r.endStreamSeen = streams[s].endStreamSeen
        /\ r.responseHeaders = streams[s].responseHeaders
        /\ r.responseOctets = streams[s].responseOctets
        /\ r.pendingHeaderBytes = Append(streams[s].pendingHeaderBytes, m.piece)
        /\ r.awaited = streams[s].awaited /\ r.isPushPromise = streams[s].isPushPromise
    BY <1>3, <1>4, WithPieceFields
  <2>2. Append(streams[s].pendingHeaderBytes, m.piece) = Append(<<>>, <<b, 1, n>>)
    BY <1>3, <1>4
  <2>3. Append(<<>>, <<b, 1, n>>) = [i \in 1..1 |-> <<b, i, n>>]
    BY <1>2, FirstPiece
  <2> HIDE DEF r
  <2> QED BY <2>1, <2>2, <2>3
<1>6. UNCHANGED <<pendingPushContinuation, pushed, updates>>
  BY <1>1 DEF HandleHeaders, HandleFatal
<1>7. CASE n # 1
  <2>1. Put(s, r) /\ UNCHANGED <<closed, outcome>>
    BY <1>1, <1>4, <1>7 DEF HandleHeaders
  <2>2. Stored(s, r)
    BY <2>1, PutStores
  <2>3. RecordOK(s, r)
    BY <1>3, <1>5 DEF RecordOK
  <2> HIDE DEF r
  <2> QED BY <1>5, <1>6, <1>7, <2>2, <2>3
<1>8. CASE n = 1
  <2>1. /\ r.pendingHeaderBytes = [i \in 1..n |-> <<b, i, n>>]
        /\ r.pendingHeaderBytes # <<>> /\ r.pendingHeaderBytes[1][1] = b
        /\ Decodes(r.pendingHeaderBytes) <=> b # "undecodable"
    <3> DEFINE pieces == [i \in 1..n |-> <<b, i, n>>]
    <3>1. r.pendingHeaderBytes = pieces
      BY <1>5, <1>8
    <3>2. (Decodes(pieces) <=> b # "undecodable") /\ pieces # <<>> /\ pieces[1][1] = b
      BY <1>2, WholeDecodes
    <3> HIDE DEF pieces, r
    <3>3. /\ r.pendingHeaderBytes # <<>> /\ r.pendingHeaderBytes[1][1] = b
          /\ Decodes(r.pendingHeaderBytes) <=> b # "undecodable"
      BY <3>1, <3>2
    <3> QED BY <3>1, <3>3 DEF pieces
  <2>2. CASE b = "undecodable"
    <3>1. HandleFatal
      BY <1>1, <1>4, <1>8, <2>1, <2>2 DEF HandleHeaders
    <3> QED BY <1>6, <1>8, <2>2, <3>1
  <2>3. CASE b # "undecodable"
    <3>1. MaybeResolve(s, q) /\ UNCHANGED closed
      BY <1>1, <1>4, <1>8, <2>1, <2>3 DEF HandleHeaders
    <3> HIDE DEF r
    <3>2. /\ d \in StreamState /\ d.state = r.state /\ d.headersComplete
          /\ d.endStreamSeen = r.endStreamSeen /\ d.responseHeaders = b
          /\ d.responseOctets = r.responseOctets /\ d.pendingHeaderBytes = <<>>
          /\ d.awaited = r.awaited /\ d.isPushPromise = r.isPushPromise
      BY <1>5, <2>1, WithHeadersFields
    <3> HIDE DEF d
    <3>3. /\ o \in StreamState /\ o.headersComplete
          /\ d.state # "closed" => o.state # "closed"
          /\ o.endStreamSeen = d.endStreamSeen /\ o.responseHeaders = b
          /\ o.responseOctets = d.responseOctets /\ o.pendingHeaderBytes = <<>>
          /\ o.awaited = d.awaited /\ o.isPushPromise = d.isPushPromise
      BY <3>2 DEF StreamState
    <3> HIDE DEF o
    <3>4. /\ q \in StreamState /\ q.headersComplete /\ q.responseHeaders = b
          /\ q.responseOctets = o.responseOctets /\ q.pendingHeaderBytes = <<>>
          /\ q.awaited = o.awaited /\ q.isPushPromise = o.isPushPromise
          /\ e => q.endStreamSeen
          /\ ~e => q = o
      <4>1. CASE e
        BY <3>3, <4>1, EndStreamFields
      <4>2. CASE ~e
        BY <3>3, <4>2
      <4> QED BY <4>1, <4>2
    <3> HIDE DEF q
    <3>5. b # NoHeaders
      BY DEF Blocks, NoHeaders
    <3>6. RecordOK(s, q)
      BY <1>3, <1>5, <3>2, <3>3, <3>4, <3>5 DEF RecordOK
    <3>7. IF q.headersComplete /\ q.endStreamSeen /\ s \in ClientIds
            THEN Resolved(s, q) ELSE Stored(s, q)
      BY <3>1, <3>6, MaybeResolves DEF Inv
    <3>8. IF e /\ s \in ClientIds THEN Resolved(s, q) ELSE Stored(s, q)
      BY <1>3, <1>5, <3>2, <3>3, <3>4, <3>7
    <3>9. ~e => /\ q.endStreamSeen = streams[s].endStreamSeen
                /\ streams[s].state # "closed" => q.state # "closed"
      BY <1>5, <3>2, <3>3, <3>4
    <3>10. q.responseOctets = streams[s].responseOctets
      BY <1>5, <3>2, <3>3, <3>4
    <3> QED BY <1>6, <1>8, <2>3, <3>4, <3>5, <3>6, <3>8, <3>9, <3>10
  <2> QED BY <2>2, <2>3
<1> QED BY <1>7, <1>8
LEMMA SendHeadersInv ==
  ASSUME Inv, NEW s \in Ids, NEW b \in Blocks, NEW n \in Pieces, NEW e \in BOOLEAN,
         SendHeaders(s, b, n, e)
  PROVE  Inv'
<1>0. /\ MaySend /\ Alive(s)
      /\ e /\ n > 1 => Uses("endStreamBeforeContinuation")
      /\ s \in PromisedIds /\ n > 1 => Uses("pushedContinuation")
      /\ UNCHANGED <<window, accepted>>
  BY DEF SendHeaders
<1>1. /\ ~closed /\ block = NoBlock
      /\ \A t \in Ids : ~Unfinished(t) /\ Collected(t) = <<>>
  BY <1>0, BetweenBlocks
<1>2. /\ server' \in [Ids -> ServerState]
      /\ \A t \in Ids \ {s} : server'[t] = server[t]
      /\ server[s].phase \in {"asked", "informed", "headers"}
      /\ server'[s].body = server[s].body /\ server'[s].ended = e
      /\ server'[s].headers = IF b = "trailers" THEN server[s].headers ELSE b
      /\ server'[s].phase = IF e THEN "ended"
                            ELSE IF b = "informational" THEN "informed" ELSE "headers"
      /\ b # "promise"
      /\ b \in {"informational", "undecodable"} => ~e /\ server[s].phase = "asked"
      /\ b = "trailers" => e /\ Uses("trailers")
      /\ n \in Nat \ {0}
      /\ block' = NoBlock \/ block' \in BlockState
      /\ n = 1 => block' = NoBlock
      /\ n # 1 => /\ block' # NoBlock /\ block'.stream = s /\ block'.owner = s
                  /\ block'.name = b /\ block'.next = 2 /\ block'.of = n
                  /\ block'.left = n - 1
  BY HeadersSent
<1>3. n = 1 => \A t \in Ids : ~Unfinished(t)' /\ Collected(t)' = <<>>
  BY <1>2 DEF Unfinished, Collected
<1>4. n # 1 => /\ \A t \in Ids \ {s} : ~Unfinished(t)'
               /\ Unfinished(s)' /\ Collected(s)' = [i \in 1..1 |-> <<b, i, n>>]
  BY <1>2, 2 - 1 = 1 DEF Unfinished, Collected
<1>5. BlockOK'
  <2>1. CASE n = 1
    BY <1>2, <2>1 DEF BlockOK
  <2>2. CASE n # 1
    <3>1. n > 1 /\ 2 \in 2..n /\ n - 1 = n - 2 + 1
      BY <1>2, <2>2
    <3>2. CASE e
      BY <1>0, <1>2, <2>2, <3>1, <3>2 DEF BlockOK, Uses
    <3>3. CASE ~e
      BY <1>0, <1>2, <2>2, <3>1, <3>3 DEF BlockOK, Uses
    <3> QED BY <3>2, <3>3
  <2> QED BY <2>1, <2>2
<1>6. s \notin DOMAIN streams =>
        UNCHANGED <<streams, pendingPushContinuation, closed, outcome, pushed, updates>>
  <2>1. Dispatch([type |-> "HEADERS", stream |-> s, piece |-> <<b, 1, n>>,
                  endHeaders |-> n = 1, endStream |-> e])
    BY DEF SendHeaders
  <2> QED BY <2>1 DEF Dispatch, vars
<1>7. UNCHANGED <<pendingPushContinuation, pushed, updates>>
  BY <1>6, HeadersHandled
<1>8. Types'
  BY <1>0, <1>2, <1>7 DEF Inv, Types
<1>9. ~closed' => Redirected' /\ CreditOK'
  <2>1. block' # NoBlock => block'.owner = block'.stream
    BY <1>2
  <2> QED BY <1>0, <1>1, <1>7, <2>1 DEF Inv, Redirected, CreditOK, Uses
<1>10. CASE s \in DOMAIN streams /\ n = 1 /\ b = "undecodable" /\ HandleFatal
  <2>1. Failed(DOMAIN streams) /\ closed' = TRUE
    BY <1>10, FatalFails DEF Inv
  <2>2. /\ server'[s].phase = "headers" /\ ~server'[s].ended
        /\ server'[s].body = server[s].body
        /\ server[s].phase \notin {"none", "ended"}
    BY <1>2, <1>10
  <2>3. ASSUME NEW t \in Ids PROVE StreamOK(t)'
    <3>1. StreamOK(t) /\ TableOK /\ ~Unfinished(t)'
      BY <1>3, <1>10 DEF Inv
    <3>2. CASE t = s
      BY <2>1, <2>2, <3>1, <3>2, FatalStream
    <3>3. CASE t # s
      <4>1. server'[t] = server[t]
        BY <1>2, <3>3
      <4> QED BY <2>1, <3>1, <4>1, FatalStream
    <3> QED BY <3>2, <3>3
  <2> QED BY <1>0, <1>5, <1>8, <1>10, <2>3, FatalInv
\* In what follows the table of the client has at most a new record for s.
<1>11. CASE ~(s \in DOMAIN streams /\ n = 1 /\ b = "undecodable" /\ HandleFatal)
  <2> DEFINE Done == e /\ s \in ClientIds /\ n = 1
             Effect(r) ==
               /\ r \in StreamState /\ RecordOK(s, r)
               /\ IF Done THEN Resolved(s, r) ELSE Stored(s, r)
               /\ r.responseOctets = streams[s].responseOctets
               /\ ~e => /\ r.endStreamSeen = streams[s].endStreamSeen
                        /\ streams[s].state # "closed" => r.state # "closed"
               /\ n # 1 => /\ r.endStreamSeen = streams[s].endStreamSeen
                           /\ r.state = streams[s].state
                           /\ r.pendingHeaderBytes = [i \in 1..1 |-> <<b, i, n>>]
               /\ n = 1 => /\ r.headersComplete /\ r.responseHeaders = b /\ b # NoHeaders
                           /\ r.pendingHeaderBytes = <<>>
  <2>1. s \notin DOMAIN streams => s \notin ClientIds
    BY <1>0, <1>1 DEF Inv, StreamOK
  <2>2. ASSUME s \in DOMAIN streams PROVE \E r : Effect(r)
    <3>1. CASE n # 1
      <4>1. PICK r \in StreamState :
              /\ Stored(s, r) /\ RecordOK(s, r)
              /\ r.state = streams[s].state
              /\ r.responseOctets = streams[s].responseOctets
              /\ r.endStreamSeen = streams[s].endStreamSeen
              /\ r.pendingHeaderBytes = [i \in 1..1 |-> <<b, i, n>>]
        BY <2>2, <3>1, HeadersHandled
      <4>2. Effect(r)
        BY <3>1, <4>1
      <4> QED BY <4>2
    <3>2. CASE n = 1
      BY <1>11, <2>2, <3>2, HeadersHandled
    <3> QED BY <3>1, <3>2
  <2>3. PICK r : s \in DOMAIN streams => Effect(r)
    BY <2>2
  <2>4. UNCHANGED closed
    BY <1>6, <2>3 DEF Resolved, Stored
  <2>5. TableOK'
    <3>1. CASE s \notin DOMAIN streams
      BY <1>6, <3>1 DEF Inv, TableOK, RecordOK, TableIsPending
    <3>2. CASE s \in DOMAIN streams /\ Done
      BY <1>1, <2>3, <3>2, ResolvedTable DEF Inv
    <3>3. CASE s \in DOMAIN streams /\ ~Done
      BY <1>1, <2>3, <3>3, StoredTable DEF Inv
    <3> QED BY <3>1, <3>2, <3>3
  <2>6. ASSUME NEW t \in Ids, t # s PROVE StreamOK(t)'
    <3>1. /\ t \in DOMAIN streams' <=> t \in DOMAIN streams
          /\ t \in DOMAIN streams => streams'[t] = streams[t]
          /\ t \in ClientIds => outcome'[t] = outcome[t]
      BY <1>6, <2>3, <2>6 DEF Stored, Resolved, OthersUntouched, Inv, TableOK
    <3>2. ~Unfinished(t) /\ ~Unfinished(t)'
      BY <1>1, <1>3, <1>4, <2>6
    <3> QED BY <1>0, <1>2, <1>7, <2>4, <2>6, <3>1, <3>2, OtherStream DEF Inv
  <2>7. StreamOK(s)'
    <3>1. s \in DOMAIN streams' => s \in DOMAIN streams /\ streams'[s] = r /\ ~Done
      BY <1>6, <2>3 DEF Stored, Resolved
    <3>2. s \in DOMAIN streams => LiveOK(s)
      BY DEF Inv, StreamOK
    <3>3. ASSUME s \in DOMAIN streams' PROVE LiveOK(s)'
      <4>1. CASE n # 1
        BY <1>2, <1>4, <2>3, <3>1, <3>2, <3>3, <4>1 DEF LiveOK
      <4>2. CASE n = 1
        BY <1>2, <1>3, <2>3, <3>1, <3>2, <3>3, <4>2 DEF LiveOK
      <4> QED BY <4>1, <4>2
    <3>4. ASSUME s \in ClientIds PROVE SettledOK(s)'
      <4>1. SettledOK(s) /\ s \in DOMAIN streams /\ LiveOK(s)
        BY <2>1, <3>2, <3>4 DEF Inv, StreamOK
      <4>2. outcome'[s] = IF Done THEN Response(r.responseHeaders, r.responseOctets)
                          ELSE outcome[s]
        BY <2>3, <3>4, <4>1 DEF Stored, Resolved, Inv, TableOK
      <4>3. outcome[s] # New /\ outcome[s].kind # "resolved"
        BY <1>2, <4>1 DEF SettledOK
      <4>4. CASE Done
        <5>1. outcome'[s] = Response(b, server[s].body) /\ ~Unfinished(s)'
          BY <1>3, <2>3, <3>4, <4>1, <4>2, <4>4 DEF LiveOK
        <5> QED BY <1>2, <4>4, <5>1, OutcomeKinds DEF SettledOK, Uses
      <4>5. CASE ~Done
        <5>1. e => Uses("endStreamBeforeContinuation")
          <6>1. e => n > 1
            BY <1>2, <3>4, <4>5
          <6> QED BY <1>0, <6>1
        <5> QED BY <1>2, <4>2, <4>3, <4>5, <5>1 DEF SettledOK, Uses
      <4> QED BY <4>4, <4>5
    <3>5. ASSUME s \in PromisedIds PROVE AnnouncedOK(s)'
      <4>1. block' # NoBlock => block'.stream = s
        BY <1>2
      <4> QED BY <1>1, <1>2, <1>7, <3>5, <4>1 DEF Inv, StreamOK, AnnouncedOK, Unfinished
    <3>6. Alive(s)' /\ (s \in ClientIds \/ s <= accepted') => s \in DOMAIN streams'
      <4>1. Alive(s)' => ~e
        BY <1>2 DEF Alive
      <4> QED BY <1>0, <1>1, <1>6, <2>3, <4>1 DEF Inv, StreamOK, Stored
    <3>7. /\ server'[s].body <= MaxBody
          /\ server'[s].phase \in {"none", "asked", "informed"} => server'[s].body = 0
          /\ server'[s].ended <=> server'[s].phase = "ended"
      BY <1>2 DEF Inv, StreamOK
    <3> QED BY <3>3, <3>4, <3>5, <3>6, <3>7 DEF StreamOK, Uses
  <2> QED BY <1>1, <1>5, <1>8, <1>9, <2>4, <2>5, <2>6, <2>7 DEF Inv
<1> QED BY <1>10, <1>11
\* What a PUSH_PROMISE does to the client: the promised stream is in the table with
\* the first piece of its block, or announced at once, or HPACK refuses the block.
LEMMA PushPromiseHandled ==
  ASSUME Inv, NEW s \in ClientIds, NEW p \in PromisedIds, NEW b \in Blocks, NEW n \in Pieces,
         SendPushPromise(s, p, b, n)
  PROVE  /\ UNCHANGED updates
         /\ \/ /\ n = 1 /\ b = "undecodable" /\ HandleFatal
               /\ UNCHANGED <<pendingPushContinuation, pushed>>
            \/ \E r \in StreamState :
                 /\ Stored(p, r) /\ RecordOK(p, r) /\ r.state # "closed"
                 /\ \/ /\ n # 1
                       /\ r.pendingHeaderBytes = [i \in 1..1 |-> <<b, i, n>>]
                       /\ pendingPushContinuation' = [x \in {s} |-> p]
                       /\ UNCHANGED pushed
                    \/ /\ n = 1 /\ b # "undecodable"
                       /\ r.pendingHeaderBytes = <<>>
                       /\ pushed' = [pushed EXCEPT ![p] = Append(@, b)]
                       /\ UNCHANGED pendingPushContinuation
<1> DEFINE m == [type |-> "PUSH_PROMISE", stream |-> s, promised |-> p,
                 piece |-> <<b, 1, n>>, endHeaders |-> n = 1]
           r == WithPiece(NewStream(TRUE), m)
           d == WithHeaders(r)
<1>0. MaySend /\ Dispatch(m) /\ n \in Nat \ {0} /\ p \in Ids
  BY ExchangeAssumption DEF SendPushPromise, Ids
<1>1. HandlePushPromise(m)
  BY <1>0 DEF Dispatch
<1>2. m.stream = s /\ m.promised = p /\ m.endHeaders = (n = 1)
      /\ m.piece = <<b, 1, n>> /\ m.piece \in Piece
  BY <1>0 DEF Piece
<1> HIDE DEF m
<1>3. /\ r \in StreamState /\ r.state # "closed" /\ ~r.headersComplete
      /\ r.pendingHeaderBytes = [i \in 1..1 |-> <<b, i, n>>]
      /\ ~r.awaited /\ r.isPushPromise
  <2>1. /\ NewStream(TRUE) \in StreamState /\ NewStream(TRUE).state # "closed"
        /\ ~NewStream(TRUE).headersComplete /\ NewStream(TRUE).pendingHeaderBytes = <<>>
        /\ ~NewStream(TRUE).awaited /\ NewStream(TRUE).isPushPromise
    BY NewStreamFields
  <2>2. /\ r \in StreamState /\ r.state = NewStream(TRUE).state
        /\ r.headersComplete = NewStream(TRUE).headersComplete
        /\ r.pendingHeaderBytes = Append(NewStream(TRUE).pendingHeaderBytes, m.piece)
        /\ r.awaited = NewStream(TRUE).awaited
        /\ r.isPushPromise = NewStream(TRUE).isPushPromise
    BY <1>2, <2>1, WithPieceFields
  <2>3. Append(NewStream(TRUE).pendingHeaderBytes, m.piece) = [i \in 1..1 |-> <<b, i, n>>]
    BY <1>0, <1>2, <2>1, FirstPiece
  <2> HIDE DEF r
  <2> QED BY <2>1, <2>2, <2>3
<1>4. p \in PromisedIds /\ p \notin ClientIds
  BY DisjointIds
<1>5. CASE n # 1
  <2>1. /\ Put(p, r) /\ UNCHANGED <<closed, outcome, pushed, updates>>
        /\ pendingPushContinuation' = With(pendingPushContinuation, s, p)
    BY <1>1, <1>2, <1>5 DEF HandlePushPromise
  <2>2. pendingPushContinuation = [x \in {} |-> 0]
    BY <1>0, BetweenBlocks
  <2>3. pendingPushContinuation' = [x \in {s} |-> p]
    BY <2>1, <2>2 DEF With
  <2>4. Stored(p, r)
    BY <2>1, PutStores
  <2>5. RecordOK(p, r)
    BY <1>3, <1>4 DEF RecordOK
  <2> HIDE DEF r
  <2> QED BY <1>3, <1>5, <2>1, <2>3, <2>4, <2>5
<1>6. CASE n = 1
  <2>1. /\ r.pendingHeaderBytes # <<>> /\ r.pendingHeaderBytes[1][1] = b
        /\ Decodes(r.pendingHeaderBytes) <=> b # "undecodable"
    <3> DEFINE pieces == [i \in 1..n |-> <<b, i, n>>]
    <3>1. r.pendingHeaderBytes = pieces
      BY <1>3, <1>6
    <3>2. (Decodes(pieces) <=> b # "undecodable") /\ pieces # <<>> /\ pieces[1][1] = b
      BY <1>0, WholeDecodes
    <3> HIDE DEF pieces, r
    <3> QED BY <3>1, <3>2
  <2>2. CASE b = "undecodable"
    <3>1. HandleFatal /\ UNCHANGED pendingPushContinuation
      BY <1>1, <1>2, <1>6, <2>1, <2>2 DEF HandlePushPromise
    <3> QED BY <1>6, <2>2, <3>1 DEF HandleFatal
  <2>3. CASE b # "undecodable"
    <3>1. /\ Put(p, d) /\ UNCHANGED <<pendingPushContinuation, closed, outcome, updates>>
          /\ pushed' = [pushed EXCEPT ![p] = Append(@, d.responseHeaders)]
      BY <1>1, <1>2, <1>6, <2>1, <2>3 DEF HandlePushPromise
    <3> HIDE DEF r
    <3>2. /\ d \in StreamState /\ d.state = r.state /\ d.responseHeaders = b
          /\ d.pendingHeaderBytes = <<>>
          /\ d.awaited = r.awaited /\ d.isPushPromise = r.isPushPromise
      BY <1>3, <2>1, WithHeadersFields
    <3> HIDE DEF d
    <3>3. Stored(p, d)
      BY <3>1, PutStores
    <3>4. RecordOK(p, d)
      BY <1>3, <1>4, <3>2 DEF RecordOK, Blocks, NoHeaders
    <3> QED BY <1>3, <1>6, <2>3, <3>1, <3>2, <3>3, <3>4
  <2> QED BY <2>2, <2>3
<1> QED BY <1>5, <1>6

LEMMA SendPushPromiseInv ==
  ASSUME Inv, NEW s \in ClientIds, NEW p \in PromisedIds, NEW b \in Blocks, NEW n \in Pieces,
         SendPushPromise(s, p, b, n)
  PROVE  Inv'
<1>0. /\ MaySend /\ server[p].phase = "none" /\ accepted > MaxId
      /\ b = "promise" \/ b = "undecodable"
      /\ server' = [server EXCEPT ![p].phase = "asked"]
      /\ Begin(s, p, b, n)
      /\ UNCHANGED <<window, accepted>>
  BY DEF SendPushPromise
<1>1. /\ ~closed /\ block = NoBlock
      /\ \A t \in Ids : ~Unfinished(t) /\ Collected(t) = <<>>
      /\ pendingPushContinuation = [t \in {} |-> 0]
  BY <1>0, BetweenBlocks
<1>2. p \in Ids /\ s \in Ids /\ p # s /\ p \notin ClientIds /\ n \in Nat \ {0}
  BY DisjointIds, ExchangeAssumption DEF Ids
<1>3. /\ server' \in [Ids -> ServerState]
      /\ \A t \in Ids \ {p} : server'[t] = server[t]
      /\ server'[p].phase = "asked" /\ server'[p].body = server[p].body
      /\ server'[p].ended = server[p].ended
  <2>1. server \in [Ids -> ServerState]
    BY DEF Inv, Types
  <2> QED BY <1>0, <1>2, <2>1 DEF ServerState, Phases
<1>4. n = 1 => block' = NoBlock
  BY <1>0 DEF Begin
<1>5. n # 1 => /\ block' \in BlockState /\ block' # NoBlock
               /\ block'.stream = s /\ block'.owner = p /\ block'.name = b
               /\ block'.next = 2 /\ block'.of = n /\ block'.left = n - 1
  <2> SUFFICES ASSUME n # 1
               PROVE  /\ block' \in BlockState /\ block' # NoBlock
                      /\ block'.stream = s /\ block'.owner = p /\ block'.name = b
                      /\ block'.next = 2 /\ block'.of = n /\ block'.left = n - 1
    OBVIOUS
  <2>1. n - 1 \in Nat \ {0}
    BY <1>2
  <2>2. /\ block' \in BlockState
        /\ block'.stream = s /\ block'.owner = p /\ block'.name = b
        /\ block'.next = 2 /\ block'.of = n /\ block'.left = n - 1
    BY <1>0, <1>2, <2>1 DEF Begin, BlockState
  <2> QED BY <2>2, BlockStateIsSome
<1>6. UNCHANGED updates
  BY PushPromiseHandled
<1>7. p \notin DOMAIN streams
  BY <1>0, <1>2 DEF Inv, StreamOK, LiveOK
<1>8. CASE n = 1 /\ b = "undecodable" /\ HandleFatal
           /\ UNCHANGED <<pendingPushContinuation, pushed>>
  <2>1. Failed(DOMAIN streams) /\ closed' = TRUE
    BY <1>8, FatalFails DEF Inv
  <2>2. Types' /\ BlockOK'
    BY <1>0, <1>3, <1>4, <1>6, <1>8 DEF Inv, Types, BlockOK
  <2>3. ASSUME NEW t \in Ids PROVE StreamOK(t)'
    <3>1. CASE t = p
      <4>1. t \notin DOMAIN streams' /\ t \notin ClientIds
        BY <1>2, <2>1, <3>1 DEF Failed
      <4>2. StreamOK(p)
        BY <1>2 DEF Inv
      <4> QED BY <1>0, <1>3, <2>1, <3>1, <4>1, <4>2 DEF StreamOK
    <3>2. CASE t # p
      <4>1. server'[t] = server[t] /\ ~Unfinished(t)'
        BY <1>3, <1>4, <1>8, <3>2 DEF Unfinished
      <4> QED BY <2>1, <4>1, FatalStream DEF Inv
    <3> QED BY <3>1, <3>2
  <2> QED BY <1>0, <1>8, <2>2, <2>3, FatalInv
<1> DEFINE Effect(r) ==
             /\ Stored(p, r) /\ RecordOK(p, r) /\ r.state # "closed"
             /\ \/ /\ n # 1
                   /\ r.pendingHeaderBytes = [i \in 1..1 |-> <<b, i, n>>]
                   /\ pendingPushContinuation' = [x \in {s} |-> p]
                   /\ UNCHANGED pushed
                \/ /\ n = 1 /\ b # "undecodable"
                   /\ r.pendingHeaderBytes = <<>>
                   /\ pushed' = [pushed EXCEPT ![p] = Append(@, b)]
                   /\ UNCHANGED pendingPushContinuation
<1>9. ASSUME NEW r \in StreamState, Effect(r)
      PROVE  Inv'
  <2>1. UNCHANGED closed /\ streams'[p] = r /\ p \in DOMAIN streams'
    BY <1>9 DEF Stored
  <2>2. TableOK'
    BY <1>1, <1>2, <1>9, StoredTable DEF Inv
  <2>3. /\ pushed' \in [PromisedIds -> Seq(Blocks)]
        /\ \A t \in PromisedIds \ {p} : pushed'[t] = pushed[t]
        /\ n # 1 => pushed'[p] = pushed[p]
        /\ n = 1 => pushed'[p] = Append(pushed[p], b) /\ b = "promise"
    <3>1. pushed \in [PromisedIds -> Seq(Blocks)]
      BY DEF Inv, Types
    <3>2. Append(pushed[p], b) \in Seq(Blocks)
      BY <3>1
    <3> QED BY <1>0, <1>9, <3>1, <3>2
  <2>4. /\ n # 1 => pendingPushContinuation' = [x \in {s} |-> p]
        /\ n = 1 => UNCHANGED pendingPushContinuation
    BY <1>9
  <2>5. Types'
    <3>1. block' = NoBlock \/ block' \in BlockState
      BY <1>4, <1>5
    <3>2. /\ DOMAIN pendingPushContinuation' \subseteq Ids
          /\ \A t \in DOMAIN pendingPushContinuation' : pendingPushContinuation'[t] \in PromisedIds
      BY <1>2, <2>4 DEF Inv, Types
    <3> QED BY <1>0, <1>3, <1>6, <2>3, <3>1, <3>2 DEF Inv, Types
  <2>6. Redirected'
    <3>1. CASE n = 1
      BY <1>1, <1>4, <2>4, <3>1 DEF Redirected
    <3>2. CASE n # 1
      <4>1. block' # NoBlock /\ block'.owner = p /\ block'.stream = s
        BY <1>5, <3>2
      <4>2. pendingPushContinuation' = [x \in {block'.stream} |-> block'.owner]
        BY <2>4, <3>2, <4>1
      <4> QED BY <1>2, <4>1, <4>2 DEF Redirected
    <3> QED BY <3>1, <3>2
  <2>7. BlockOK'
    <3>1. CASE n = 1
      BY <1>4, <3>1 DEF BlockOK
    <3>2. CASE n # 1
      <4>1. 2 \in 2..n /\ n - 1 = n - 2 + 1
        BY <1>2, <3>2
      <4> QED BY <1>0, <1>2, <1>3, <1>5, <2>1, <3>2, <4>1 DEF BlockOK
    <3> QED BY <3>1, <3>2
  <2>8. CreditOK'
    BY <1>0, <1>6, <2>1 DEF Inv, CreditOK, Uses
  <2>9. ASSUME NEW t \in Ids, t # p PROVE StreamOK(t)'
    <3>1. /\ t \in DOMAIN streams' <=> t \in DOMAIN streams
          /\ t \in DOMAIN streams => streams'[t] = streams[t]
          /\ t \in ClientIds => outcome'[t] = outcome[t]
          /\ t \in PromisedIds => pushed'[t] = pushed[t]
      BY <1>9, <2>3, <2>9 DEF Stored, OthersUntouched
    <3>2. ~Unfinished(t) /\ ~Unfinished(t)'
      BY <1>1, <1>4, <1>5, <2>9 DEF Unfinished
    <3> QED BY <1>0, <1>3, <2>1, <2>9, <3>1, <3>2, OtherStream DEF Inv
  <2>10. StreamOK(p)'
    <3>1. Collected(p)' = IF n = 1 THEN <<>> ELSE [i \in 1..1 |-> <<b, i, n>>]
      BY <1>4, <1>5, 2 - 1 = 1 DEF Collected, Unfinished
    <3>2. LiveOK(p)'
      BY <1>2, <1>3, <1>9, <2>1, <3>1 DEF LiveOK
    <3>3. AnnouncedOK(p)'
      <4>1. pushed[p] = <<>>
        BY <1>0, <1>1, <1>2 DEF Inv, StreamOK, AnnouncedOK
      <4>2. AnnouncedOnce(Append(<<>>, "promise"))
        BY FirstAnnouncement
      <4>3. CASE n = 1
        BY <1>3, <1>4, <2>3, <4>1, <4>2, <4>3 DEF AnnouncedOK, Unfinished
      <4>4. CASE n # 1
        BY <1>2, <1>5, <2>3, <4>1, <4>4 DEF AnnouncedOK, Unfinished
      <4> QED BY <4>3, <4>4
    <3>4. StreamOK(p)
      BY <1>2 DEF Inv
    <3> QED BY <1>0, <1>2, <1>3, <2>1, <3>2, <3>3, <3>4 DEF StreamOK, Uses
  <2> QED BY <2>2, <2>5, <2>6, <2>7, <2>8, <2>9, <2>10 DEF Inv
<1>10. \/ /\ n = 1 /\ b = "undecodable" /\ HandleFatal
          /\ UNCHANGED <<pendingPushContinuation, pushed>>
       \/ \E r \in StreamState : Effect(r)
  BY PushPromiseHandled
<1> HIDE DEF Effect
<1> QED BY <1>8, <1>9, <1>10
\* What a CONTINUATION does to the client: the stream the block belongs to collects
\* one more piece, or completes its headers, or HPACK refuses the block.
LEMMA ContinuationHandled ==
  ASSUME Inv, SendContinuation, NEW s, s = block.owner
  PROVE  /\ UNCHANGED updates
         /\ s \notin DOMAIN streams =>
              UNCHANGED <<streams, pendingPushContinuation, closed, outcome, pushed>>
         /\ s \in DOMAIN streams =>
              \/ /\ block.left = 1 /\ block.name = "undecodable" /\ HandleFatal
                 /\ pendingPushContinuation' = [x \in {} |-> 0]
              \/ \E r \in StreamState :
                   /\ Stored(s, r) /\ RecordOK(s, r)
                   /\ r.state = streams[s].state
                   /\ r.endStreamSeen = streams[s].endStreamSeen
                   /\ r.responseOctets = streams[s].responseOctets
                   /\ \/ /\ block.left # 1
                         /\ r.pendingHeaderBytes =
                              [i \in 1..block.next |-> <<block.name, i, block.of>>]
                         /\ UNCHANGED <<pendingPushContinuation, pushed>>
                      \/ /\ block.left = 1 /\ block.name # "undecodable"
                         /\ r.pendingHeaderBytes = <<>>
                         /\ r.headersComplete /\ r.responseHeaders = block.name
                         /\ pendingPushContinuation' = [x \in {} |-> 0]
                         /\ pushed' = IF s \in PromisedIds
                                        THEN [pushed EXCEPT ![s] = Append(@, block.name)]
                                        ELSE pushed
<1> DEFINE b == block.name
           k == block.next - 1
           n == block.of
           m == [type |-> "CONTINUATION", stream |-> block.stream,
                 piece |-> <<block.name, block.next, block.of>>,
                 endHeaders |-> block.left = 1]
           r == WithPiece(streams[s], m)
           d == WithHeaders(r)
<1>0. ~closed /\ block # NoBlock /\ Dispatch(m)
  BY DEF SendContinuation
<1>1. /\ block \in BlockState /\ block.next \in 2..n /\ block.left = n - block.next + 1
      /\ s \in Ids /\ b \in Blocks /\ k \in Nat /\ n \in Nat \ {0} /\ k + 1 = block.next
      /\ Unfinished(s)
  BY <1>0, SMTT(30) DEF Inv, Types, BlockOK, BlockState, Unfinished
<1>2. m.stream = block.stream /\ m.endHeaders = (block.left = 1)
      /\ m.piece = <<b, k + 1, n>> /\ m.piece \in Piece /\ m.type = "CONTINUATION"
  BY <1>1 DEF Piece, BlockState
<1> HIDE DEF m
<1>3. Continued(m) = s
  BY <1>0, <1>2 DEF Continued, Inv, Redirected
<1>4. Restrict(pendingPushContinuation, DOMAIN pendingPushContinuation \ {m.stream})
        = [x \in {} |-> 0]
  <2>1. DOMAIN pendingPushContinuation \ {m.stream} = {}
    BY <1>0, <1>2 DEF Inv, Redirected
  <2> QED BY <2>1 DEF Restrict
<1>5. s \notin DOMAIN streams =>
        UNCHANGED <<streams, pendingPushContinuation, closed, outcome, pushed, updates>>
  BY <1>0, <1>2, <1>3 DEF Dispatch, vars
<1>6. ASSUME s \in DOMAIN streams
      PROVE  /\ UNCHANGED updates
             /\ \/ /\ block.left = 1 /\ b = "undecodable" /\ HandleFatal
                   /\ pendingPushContinuation' = [x \in {} |-> 0]
                \/ \E q \in StreamState :
                     /\ Stored(s, q) /\ RecordOK(s, q)
                     /\ q.state = streams[s].state
                     /\ q.endStreamSeen = streams[s].endStreamSeen
                     /\ q.responseOctets = streams[s].responseOctets
                     /\ \/ /\ block.left # 1
                           /\ q.pendingHeaderBytes = [i \in 1..(k + 1) |-> <<b, i, n>>]
                           /\ UNCHANGED <<pendingPushContinuation, pushed>>
                        \/ /\ block.left = 1 /\ b # "undecodable"
                           /\ q.pendingHeaderBytes = <<>>
                           /\ q.headersComplete /\ q.responseHeaders = b
                           /\ pendingPushContinuation' = [x \in {} |-> 0]
                           /\ pushed' = IF s \in PromisedIds
                                          THEN [pushed EXCEPT ![s] = Append(@, b)]
                                          ELSE pushed
  <2>1. HandleContinuation(m)
    BY <1>0, <1>2, <1>3, <1>6 DEF Dispatch
  <2>2. /\ streams[s] \in StreamState /\ RecordOK(s, streams[s])
        /\ streams[s].pendingHeaderBytes = [i \in 1..k |-> <<b, i, n>>]
        /\ s \in ClientIds => ~streams[s].endStreamSeen
    BY <1>1, <1>6 DEF Inv, TableOK, RecordOK, StreamOK, LiveOK, Collected
  <2>3. /\ r \in StreamState
        /\ r.state = streams[s].state /\ r.headersComplete = streams[s].headersComplete
        /\ r.endStreamSeen = streams[s].endStreamSeen
        /\ r.responseHeaders = streams[s].responseHeaders
        /\ r.responseOctets = streams[s].responseOctets
        /\ r.pendingHeaderBytes = Append(streams[s].pendingHeaderBytes, m.piece)
        /\ r.awaited = streams[s].awaited /\ r.isPushPromise = streams[s].isPushPromise
    <3>1. streams[s] \in StreamState
      BY <2>2
    <3>2. m.piece \in Piece
      BY <1>2
    <3> HIDE DEF b, k, n
    <3> QED BY <3>1, <3>2, WithPieceFields
  <2>4. r.pendingHeaderBytes = [i \in 1..(k + 1) |-> <<b, i, n>>]
    <3>1. Append([i \in 1..k |-> <<b, i, n>>], <<b, k + 1, n>>) = [i \in 1..(k + 1) |-> <<b, i, n>>]
      BY <1>1, PieceAppended
    <3> HIDE DEF r, k, b, n
    <3> QED BY <1>2, <2>2, <2>3, <3>1
  <2>5. CASE block.left # 1
    <3>1. Put(s, r) /\ UNCHANGED <<pendingPushContinuation, closed, outcome, pushed, updates>>
      BY <1>2, <1>3, <2>1, <2>5 DEF HandleContinuation
    <3>2. Stored(s, r)
      BY <3>1, PutStores
    <3>3. RecordOK(s, r)
      BY <2>2, <2>3 DEF RecordOK
    <3> HIDE DEF r
    <3> QED BY <2>3, <2>4, <2>5, <3>1, <3>2, <3>3
  <2>6. CASE block.left = 1
    <3>1. k + 1 = n
      BY <1>1, <2>6
    <3>2. /\ r.pendingHeaderBytes # <<>> /\ r.pendingHeaderBytes[1][1] = b
          /\ Decodes(r.pendingHeaderBytes) <=> b # "undecodable"
      <4> DEFINE pieces == [i \in 1..n |-> <<b, i, n>>]
      <4>1. r.pendingHeaderBytes = pieces
        BY <2>4, <3>1
      <4>2. (Decodes(pieces) <=> b # "undecodable") /\ pieces # <<>> /\ pieces[1][1] = b
        BY <1>1, WholeDecodes
      <4> HIDE DEF pieces, r
      <4> QED BY <4>1, <4>2
    <3>3. pendingPushContinuation' = [x \in {} |-> 0]
      BY <1>2, <1>4, <2>1, <2>6 DEF HandleContinuation
    <3>4. CASE b = "undecodable"
      <4>1. HandleFatal
        BY <1>2, <1>3, <2>1, <2>6, <3>2, <3>4 DEF HandleContinuation
      <4> QED BY <2>6, <3>3, <3>4, <4>1 DEF HandleFatal
    <3>5. CASE b # "undecodable"
      <4>1. /\ MaybeResolve(s, d)
            /\ pushed' = IF d.isPushPromise
                           THEN [pushed EXCEPT ![s] = Append(@, d.responseHeaders)]
                           ELSE pushed
            /\ UNCHANGED <<closed, updates>>
        BY <1>2, <1>3, <2>1, <2>6, <3>2, <3>5 DEF HandleContinuation
      <4> HIDE DEF r
      <4>2. /\ d \in StreamState /\ d.state = r.state /\ d.headersComplete
            /\ d.endStreamSeen = r.endStreamSeen /\ d.responseHeaders = b
            /\ d.responseOctets = r.responseOctets /\ d.pendingHeaderBytes = <<>>
            /\ d.awaited = r.awaited /\ d.isPushPromise = r.isPushPromise
        BY <2>3, <3>2, WithHeadersFields
      <4> HIDE DEF d
      <4>3. RecordOK(s, d)
        BY <1>1, <2>2, <2>3, <4>2 DEF RecordOK, Blocks, NoHeaders
      <4>4. IF d.headersComplete /\ d.endStreamSeen /\ s \in ClientIds
              THEN Resolved(s, d) ELSE Stored(s, d)
        BY <1>6, <4>1, <4>3, MaybeResolves DEF Inv
      <4>5. Stored(s, d)
        BY <2>2, <2>3, <4>2, <4>4
      <4>6. d.isPushPromise <=> s \in PromisedIds
        BY <4>3 DEF RecordOK
      <4>7. pushed' = IF s \in PromisedIds THEN [pushed EXCEPT ![s] = Append(@, b)] ELSE pushed
        BY <4>1, <4>2, <4>6
      <4> QED BY <2>3, <2>6, <3>3, <3>5, <4>1, <4>2, <4>3, <4>5, <4>7
    <3> QED BY <3>4, <3>5
  <2> QED BY <2>5, <2>6
<1>7. k + 1 = block.next
  BY <1>1
<1> QED BY <1>5, <1>6, <1>7

LEMMA SendContinuationInv ==
  ASSUME Inv, SendContinuation, NEW s, s = block.owner
  PROVE  Inv'
<1>0. /\ ~closed /\ block # NoBlock
      /\ block' = IF block.left = 1 THEN NoBlock
                  ELSE [block EXCEPT !.next = @ + 1, !.left = @ - 1]
      /\ UNCHANGED <<server, window, accepted>>
  BY DEF SendContinuation
<1>1. block \in BlockState /\ s \in Ids /\ Unfinished(s)
      /\ \A t \in Ids \ {s} : ~Unfinished(t)
  BY <1>0 DEF Inv, Types, BlockState, Unfinished
<1>2. block.left = 1 => block' = NoBlock /\ \A t \in Ids : ~Unfinished(t)'
  BY <1>0 DEF Unfinished
<1>3. block.left # 1 =>
        /\ block' \in BlockState /\ block' # NoBlock
        /\ block'.stream = block.stream /\ block'.owner = s /\ block'.name = block.name
        /\ block'.next = block.next + 1 /\ block'.of = block.of
        /\ block'.left = block.left - 1
        /\ Unfinished(s)' /\ \A t \in Ids \ {s} : ~Unfinished(t)'
  <2> SUFFICES ASSUME block.left # 1
               PROVE  /\ block' \in BlockState /\ block' # NoBlock
                      /\ block'.stream = block.stream /\ block'.owner = s
                      /\ block'.name = block.name
                      /\ block'.next = block.next + 1 /\ block'.of = block.of
                      /\ block'.left = block.left - 1
                      /\ Unfinished(s)' /\ \A t \in Ids \ {s} : ~Unfinished(t)'
    OBVIOUS
  <2>1. /\ block' \in BlockState
        /\ block'.stream = block.stream /\ block'.owner = s /\ block'.name = block.name
        /\ block'.next = block.next + 1 /\ block'.of = block.of
        /\ block'.left = block.left - 1
    <3> DEFINE one == [block EXCEPT !.next = @ + 1]
    <3>1. block' = [one EXCEPT !.left = @ - 1]
      BY <1>0
    <3>2. /\ one \in BlockState /\ one.stream = block.stream /\ one.owner = block.owner
          /\ one.name = block.name /\ one.next = block.next + 1 /\ one.of = block.of
          /\ one.left = block.left
      BY <1>1 DEF BlockState
    <3>3. block.left - 1 \in Nat \ {0}
      BY <1>1 DEF BlockState
    <3> HIDE DEF one
    <3> QED BY <3>1, <3>2, <3>3 DEF BlockState
  <2>2. block' # NoBlock
    BY <2>1, BlockStateIsSome
  <2>3. Unfinished(s)' /\ \A t \in Ids \ {s} : ~Unfinished(t)'
    BY <2>1, <2>2 DEF Unfinished
  <2> QED BY <2>1, <2>2, <2>3
<1>4. /\ block.next \in 2..block.of /\ block.left = block.of - block.next + 1
      /\ block.next \in Nat /\ block.of \in Nat /\ block.left \in Nat
  BY <1>0, <1>1 DEF Inv, BlockOK, BlockState
<1>5. UNCHANGED updates
  BY ContinuationHandled
<1>6. block' = NoBlock \/ block' \in BlockState
  BY <1>2, <1>3
\* While the block goes on, what is said of it stays true.
<1>7. DOMAIN streams \subseteq DOMAIN streams' \/ closed' = TRUE => BlockOK'
  <2>1. CASE block.left = 1
    BY <1>2, <2>1 DEF BlockOK
  <2>2. CASE block.left # 1
    <3>1. block.next + 1 \in 2..block.of
          /\ block.left - 1 = block.of - (block.next + 1) + 1
      BY <1>4, <2>2
    <3>2. ASSUME block.owner # block.stream,
                 DOMAIN streams \subseteq DOMAIN streams' \/ closed' = TRUE
          PROVE  ~closed' => block.owner \in DOMAIN streams'
      BY <1>0, <3>2 DEF Inv, BlockOK
    <3> QED BY <1>0, <1>3, <2>2, <3>1, <3>2 DEF Inv, BlockOK, Uses
  <2> QED BY <2>1, <2>2
<1>8. ~closed' => CreditOK'
  BY <1>0, <1>5 DEF Inv, CreditOK, Uses
<1>9. CASE s \notin DOMAIN streams
  <2>1. UNCHANGED <<streams, pendingPushContinuation, closed, outcome, pushed>>
    BY <1>9, ContinuationHandled
  <2>2. block.owner = block.stream
    BY <1>0, <1>9 DEF Inv, BlockOK
  <2>3. TableOK' /\ Types' /\ BlockOK' /\ CreditOK'
    BY <1>0, <1>5, <1>6, <1>7, <1>8, <2>1
       DEF Inv, TableOK, RecordOK, TableIsPending, Types
  <2>4. Redirected'
    <3>1. block' # NoBlock => block'.owner = block'.stream
      BY <1>2, <1>3, <2>2
    <3> QED BY <1>0, <2>1, <2>2, <3>1 DEF Inv, Redirected
  <2>5. ASSUME NEW t \in Ids, t # s PROVE StreamOK(t)'
    BY <1>0, <1>1, <1>2, <1>3, <2>1, <2>5, OtherStream DEF Inv
  <2>6. StreamOK(s)'
    <3>1. s \in PromisedIds => AnnouncedOK(s)'
      BY <1>0, <1>1, <1>2, <1>3, <2>1, <2>2 DEF Inv, StreamOK, AnnouncedOK, Unfinished
    <3>2. s \in ClientIds => SettledOK(s)'
      BY <1>0, <1>1, <2>1 DEF Inv, StreamOK, SettledOK, Uses
    <3> QED BY <1>0, <1>1, <1>9, <2>1, <3>1, <3>2 DEF Inv, StreamOK, Alive, Uses
  <2> QED BY <2>3, <2>4, <2>5, <2>6 DEF Inv
<1>10. CASE s \in DOMAIN streams /\ block.left = 1 /\ HandleFatal
            /\ pendingPushContinuation' = [x \in {} |-> 0]
  <2>1. Failed(DOMAIN streams) /\ closed' = TRUE /\ UNCHANGED pushed
    BY <1>10, FatalFails DEF Inv
  <2>2. Types' /\ BlockOK'
    BY <1>0, <1>5, <1>6, <1>7, <1>10, <2>1 DEF Inv, Types
  <2>3. ASSUME NEW t \in Ids PROVE StreamOK(t)'
    <3>1. ~Unfinished(t)' /\ server'[t] = server[t]
      BY <1>0, <1>2, <1>10
    <3> QED BY <2>1, <3>1, FatalStream DEF Inv
  <2> QED BY <1>0, <1>10, <2>2, <2>3, FatalInv
<1> DEFINE Effect(r) ==
             /\ Stored(s, r) /\ RecordOK(s, r)
             /\ r.state = streams[s].state
             /\ r.endStreamSeen = streams[s].endStreamSeen
             /\ r.responseOctets = streams[s].responseOctets
             /\ \/ /\ block.left # 1
                   /\ r.pendingHeaderBytes =
                        [i \in 1..block.next |-> <<block.name, i, block.of>>]
                   /\ UNCHANGED <<pendingPushContinuation, pushed>>
                \/ /\ block.left = 1 /\ block.name # "undecodable"
                   /\ r.pendingHeaderBytes = <<>>
                   /\ r.headersComplete /\ r.responseHeaders = block.name
                   /\ pendingPushContinuation' = [x \in {} |-> 0]
                   /\ pushed' = IF s \in PromisedIds
                                  THEN [pushed EXCEPT ![s] = Append(@, block.name)]
                                  ELSE pushed
<1>11. ASSUME s \in DOMAIN streams, NEW r \in StreamState, Effect(r)
       PROVE  Inv'
  <2>1. UNCHANGED closed /\ DOMAIN streams' = DOMAIN streams /\ streams'[s] = r
        /\ UNCHANGED outcome
    BY <1>11 DEF Stored
  <2>2. TableOK'
    BY <1>0, <1>1, <1>11, StoredTable DEF Inv
  <2>3. BlockOK' /\ CreditOK'
    BY <1>0, <1>7, <1>8, <2>1
  <2>4. /\ pushed' \in [PromisedIds -> Seq(Blocks)]
        /\ \A t \in PromisedIds \ {s} : pushed'[t] = pushed[t]
        /\ s \in PromisedIds =>
             pushed'[s] = IF block.left = 1 THEN Append(pushed[s], block.name) ELSE pushed[s]
    <3>1. pushed \in [PromisedIds -> Seq(Blocks)] /\ block.name \in Blocks
      BY <1>1 DEF Inv, Types, BlockState
    <3>2. s \in PromisedIds => Append(pushed[s], block.name) \in Seq(Blocks)
      BY <3>1
    <3> QED BY <1>11, <3>1, <3>2
  <2>5. /\ block.left # 1 => UNCHANGED pendingPushContinuation
        /\ block.left = 1 => pendingPushContinuation' = [x \in {} |-> 0]
    BY <1>11
  <2>6. Types'
    <3>1. /\ DOMAIN pendingPushContinuation' \subseteq Ids
          /\ \A t \in DOMAIN pendingPushContinuation' : pendingPushContinuation'[t] \in PromisedIds
      BY <2>5 DEF Inv, Types
    <3> QED BY <1>0, <1>5, <1>6, <2>4, <3>1 DEF Inv, Types
  <2>7. Redirected'
    <3>1. CASE block.left = 1
      BY <1>2, <2>5, <3>1 DEF Redirected
    <3>2. CASE block.left # 1
      BY <1>0, <1>3, <2>1, <2>5, <3>2 DEF Inv, Redirected
    <3> QED BY <3>1, <3>2
  <2>8. ASSUME NEW t \in Ids, t # s PROVE StreamOK(t)'
    <3>1. /\ t \in DOMAIN streams => streams'[t] = streams[t]
          /\ t \in PromisedIds => pushed'[t] = pushed[t]
      BY <1>11, <2>4, <2>8 DEF Stored, OthersUntouched
    <3>2. ~Unfinished(t) /\ ~Unfinished(t)'
      BY <1>1, <1>2, <1>3, <2>8
    <3> QED BY <1>0, <2>1, <3>1, <3>2, OtherStream DEF Inv
  <2>9. StreamOK(s)'
    <3>1. LiveOK(s) /\ StreamOK(s)
      BY <1>1, <1>11 DEF Inv, StreamOK
    <3>2. LiveOK(s)'
      <4>1. CASE block.left # 1
        <5>1. Collected(s)' = [i \in 1..block.next |-> <<block.name, i, block.of>>]
          <6>1. block'.next - 1 = block.next
            BY <1>3, <1>4, <4>1
          <6>2. Collected(s)' = [i \in 1..(block'.next - 1) |-> <<block'.name, i, block'.of>>]
            BY <1>3, <4>1 DEF Collected
          <6> QED BY <1>3, <4>1, <6>1, <6>2
        <5>2. r.pendingHeaderBytes = Collected(s)'
          BY <1>11, <4>1, <5>1
        <5> QED BY <1>0, <1>3, <1>11, <2>1, <3>1, <4>1, <5>2 DEF LiveOK
      <4>2. CASE block.left = 1
        <5>1. Collected(s)' = <<>> /\ r.pendingHeaderBytes = <<>>
          BY <1>1, <1>2, <1>11, <4>2 DEF Collected
        <5>2. s \in ClientIds /\ server[s].phase \in {"informed", "headers"} =>
                block.name = server[s].headers
          BY <1>0, DisjointIds DEF Inv, BlockOK
        <5>3. r.headersComplete /\ r.responseHeaders = block.name
          BY <1>11, <4>2
        <5> QED BY <1>0, <1>11, <2>1, <3>1, <5>1, <5>2, <5>3 DEF LiveOK
      <4> QED BY <4>1, <4>2
    <3>3. s \in ClientIds => SettledOK(s)'
      BY <1>0, <1>1, <2>1, <3>1 DEF StreamOK, SettledOK, Uses
    <3>4. ASSUME s \in PromisedIds PROVE AnnouncedOK(s)'
      <4>1. CASE block.stream # s
        <5>1. /\ block.name \in {"promise", "undecodable"}
              /\ server[s].phase = "asked" /\ pushed[s] = <<>>
          BY <1>0, <1>1, <3>1, <3>4, <4>1 DEF Inv, BlockOK, StreamOK, AnnouncedOK
        <5>2. CASE block.left # 1
          BY <1>3, <2>4, <3>4, <4>1, <5>1, <5>2 DEF AnnouncedOK
        <5>3. CASE block.left = 1
          <6>1. block.name = "promise"
            BY <1>11, <5>1, <5>3
          <6>2. AnnouncedOnce(pushed'[s])
            BY <2>4, <3>4, <5>1, <5>3, <6>1, FirstAnnouncement
          <6> QED BY <1>0, <1>1, <1>2, <5>1, <5>3, <6>2 DEF AnnouncedOK
        <5> QED BY <5>2, <5>3
      <4>2. CASE block.stream = s
        <5>1. /\ block.name # "promise" /\ server[s].phase # "none"
              /\ AnnouncedOnce(pushed[s])
          BY <1>0, <1>1, <3>1, <3>4, <4>2 DEF Inv, BlockOK, StreamOK, AnnouncedOK
        <5>2. AnnouncedOnce(pushed'[s])
          <6>1. pushed[s] \in Seq(Blocks) /\ block.name \in Blocks
            BY <1>1, <3>4 DEF Inv, Types, BlockState
          <6> QED BY <2>4, <3>4, <5>1, <6>1, LaterAnnouncement
        <5>3. server'[s].phase # "none" /\ ~(Unfinished(s)' /\ block'.stream # s)
          BY <1>0, <1>1, <1>2, <1>3, <4>2, <5>1
        <5> QED BY <5>2, <5>3 DEF AnnouncedOK
      <4> QED BY <4>1, <4>2
    <3> QED BY <1>0, <1>11, <2>1, <3>1, <3>2, <3>3, <3>4 DEF StreamOK, Alive, Uses
  <2> QED BY <2>2, <2>3, <2>6, <2>7, <2>8, <2>9 DEF Inv
<1>12. ASSUME s \in DOMAIN streams
       PROVE  \/ /\ block.left = 1 /\ HandleFatal
                 /\ pendingPushContinuation' = [x \in {} |-> 0]
              \/ \E r \in StreamState : Effect(r)
  BY <1>12, ContinuationHandled
<1> HIDE DEF Effect
<1> QED BY <1>9, <1>10, <1>11, <1>12
-----------------------------------------------------------------------------
LEMMA InvStutter ==
  ASSUME Inv, UNCHANGED exchangeVars
  PROVE  Inv'
<1>1. /\ UNCHANGED <<streams, pendingPushContinuation, closed, outcome, pushed, updates>>
      /\ UNCHANGED <<server, block, window, accepted>>
  BY DEF exchangeVars, vars
<1>2. Types' /\ TableOK'
  BY <1>1 DEF Inv, Types, TableOK, RecordOK, TableIsPending
<1>3. Redirected' /\ BlockOK' /\ CreditOK'
  BY <1>1 DEF Inv, Redirected, BlockOK, CreditOK, Uses
<1>4. ASSUME NEW t \in Ids PROVE StreamOK(t)'
  BY <1>1, OtherStream DEF Inv
<1> QED BY <1>2, <1>3, <1>4 DEF Inv

LEMMA InvNext == Inv /\ [ExchangeNext]_exchangeVars => Inv'
<1> SUFFICES ASSUME Inv, [ExchangeNext]_exchangeVars PROVE Inv'
  OBVIOUS
<1>1. ASSUME NEW s \in ClientIds, Request(s) PROVE Inv'
  BY <1>1, RequestInv
<1>2. ASSUME NEW s \in Ids, NEW b \in Blocks, NEW n \in Pieces, NEW e \in BOOLEAN,
             SendHeaders(s, b, n, e)
      PROVE  Inv'
  BY <1>2, SendHeadersInv
<1>3. CASE SendContinuation
  BY <1>3, SendContinuationInv
<1>4. ASSUME NEW s \in ClientIds, NEW p \in PromisedIds, NEW b \in Blocks, NEW n \in Pieces,
             SendPushPromise(s, p, b, n)
      PROVE  Inv'
  BY <1>4, SendPushPromiseInv
<1>5. ASSUME NEW s \in Ids, NEW n \in 0..MaxBody, NEW e \in BOOLEAN,
             SendData(s, n, e, FALSE, 0)
      PROVE  Inv'
  BY <1>5, SendDataInv
<1>6. ASSUME NEW s \in Ids, NEW n \in 0..MaxBody, NEW e \in BOOLEAN, NEW p \in PadLengths,
             SendData(s, n, e, TRUE, p)
      PROVE  Inv'
  BY <1>6, ExchangeAssumption, SendDataInv
<1>7. ASSUME NEW s \in Ids, SendReset(s) PROVE Inv'
  BY <1>7, SendResetInv
<1>8. ASSUME NEW last \in ClientIds \cup {0}, SendGoaway(last) PROVE Inv'
  BY <1>8, SendGoawayInv
<1>9. ASSUME NEW s \in Ids \cup {0}, ReceiveUpdates(s) PROVE Inv'
  BY <1>9, ReceiveUpdatesInv
<1>10. CASE ConnectionLost
  BY <1>10, ConnectionLostInv
<1>11. CASE UNCHANGED exchangeVars
  BY <1>11, InvStutter
<1> QED BY <1>1, <1>2, <1>3, <1>4, <1>5, <1>6, <1>7, <1>8, <1>9, <1>10, <1>11
        DEF ExchangeNext

LEMMA InvAlways == ExchangeSpec => []Inv
<1>1. ExchangeInit => Inv
  BY InvInit
<1>2. Inv /\ [ExchangeNext]_exchangeVars => Inv'
  BY InvNext
<1> QED BY <1>1, <1>2, PTL DEF ExchangeSpec

-----------------------------------------------------------------------------
\* The types, and that a stream never has more credit than it began with: nothing the
\* peer may send makes the client return more octets than DATA frames cost.
THEOREM ExchangeIsTyped == ExchangeSpec => []ExchangeTypeOK
BY InvAlways, InvTypeOK, PTL

\* finalizeStream, rejectStream and maybeResolveResponse touch the table and the promise
\* together, on every path: a request waits exactly as long as its stream is in the table.
THEOREM TableIsAlwaysPending == ExchangeSpec => []TableIsPending
<1>1. Inv => TableIsPending
  BY DEF Inv, TableOK
<1> QED BY <1>1, InvAlways, PTL

\* handleHeaders, handleContinuation and handlePushPromise collect exactly the pieces of
\* the block the peer is sending, on the stream it is sent for, and redirect CONTINUATION
\* exactly while a promise is unfinished: whatever resets, GOAWAYs and pushes go between.
THEOREM BlocksStayInStep == ExchangeSpec => []BlocksInStep
<1>1. ASSUME Inv PROVE BlocksInStep
  <2>1. \A s \in DOMAIN streams : streams[s].pendingHeaderBytes = Collected(s)
    BY <1>1 DEF Inv, TableOK, StreamOK, LiveOK
  <2> QED BY <1>1, <2>1 DEF Inv, Redirected, BlocksInStep, Collected, Unfinished
<1> QED BY <1>1, InvAlways, PTL

\* handleData returns, with WINDOW_UPDATE, what every DATA frame cost, padding included:
\* no credit is lost while GOAWAY ends pushed responses as it ends refused requests.
THEOREM CreditIsConserved ==
  ASSUME ~Uses("pushAfterGoaway")
  PROVE  ExchangeSpec => []CreditConserved
<1>1. Inv => CreditConserved
  BY DEF Inv, CreditOK, CreditConserved
<1> QED BY <1>1, InvAlways, PTL

\* "push" listeners hear of a promise when its block is complete, not before; once, and
\* before anything of the pushed response: whatever the peer sends, in however many frames.
THEOREM PromisesAreAnnounced == ExchangeSpec => []PromiseAnnounced
<1>1. ASSUME Inv PROVE PromiseAnnounced
  BY <1>1 DEF Inv, StreamOK, AnnouncedOK, AnnouncedOnce, PromiseAnnounced, PromiseMade, Unfinished, Ids
<1> QED BY <1>1, InvAlways, PTL

\* Without trailers, a promise that is resolved is resolved with the headers and the body
\* the peer sent and finished.
THEOREM ResponsesAreFaithful ==
  ASSUME ~Uses("trailers")
  PROVE  ExchangeSpec => []Faithful
<1>1. ASSUME Inv PROVE Faithful
  BY <1>1 DEF Inv, StreamOK, SettledOK, Unfinished, Finished, Faithful, Ids
<1> QED BY <1>1, InvAlways, PTL

\* And a response that is finished in the usual way, END_STREAM on the last frame, has
\* resolved its promise.
THEOREM ResponsesAreResolved ==
  ASSUME ~Uses("trailers"), ~Uses("endStreamBeforeContinuation")
  PROVE  ExchangeSpec => []ResolvedInFull
<1>1. ASSUME Inv PROVE ResolvedInFull
  BY <1>1 DEF Inv, StreamOK, SettledOK, Unfinished, Finished, ResolvedInFull, Ids
<1> QED BY <1>1, InvAlways, PTL
-----------------------------------------------------------------------------
(***************************************************************************)
(* The refinement.  When responses are finished in the usual way, what the *)
(* peer has finished for a request is what its promise is resolved with,   *)
(* so a step of the receiving half is told by what it does to the          *)
(* promises: nothing, one answered, or several failed.                     *)
(***************************************************************************)
LEMMA FinishedIsResolved ==
  ASSUME Inv, ~Uses("trailers"), ~Uses("endStreamBeforeContinuation"), NEW s \in ClientIds
  PROVE  /\ Finished(s) = IF outcome[s].kind = "resolved" THEN {outcome[s]} ELSE {}
         /\ outcome[s].kind = "resolved" =>
              outcome[s] \in [kind : {"resolved"}, headers : Blocks, body : 0..MaxBody]
<1>1. /\ server[s].ended <=> server[s].phase = "ended"
      /\ outcome[s].kind = "resolved" => server[s].phase = "ended" /\ ~Unfinished(s)
      /\ outcome[s].kind = "resolved" =>
           outcome[s] = Response(server[s].headers, server[s].body)
      /\ server[s].phase = "ended" => outcome[s].kind = "resolved"
      /\ server[s].body <= MaxBody
  BY DEF Inv, StreamOK, SettledOK, Ids
<1>2. outcome[s] \in Outcome /\ server[s].body \in Nat
  BY DEF Inv, TableOK, Types, ServerState, Ids
<1>3. outcome[s].kind = "resolved" =>
        outcome[s] \in [kind : {"resolved"}, headers : Blocks, body : Nat]
  BY <1>2, OutcomeKinds DEF Outcome
<1>4. outcome[s].kind = "resolved" => outcome[s].body = server[s].body
  BY <1>1 DEF Response
<1>5. outcome[s].kind = "resolved" => outcome[s].body \in 0..MaxBody
  BY <1>1, <1>2, <1>4, ExchangeAssumption
<1> QED BY <1>1, <1>3, <1>5 DEF Finished, Unfinished

Answered ==
  \E s \in ClientIds : \E b, n :
    outcome[s] = Pending /\ outcome' = [outcome EXCEPT ![s] = Response(b, n)]

GivenUp ==
  \E S \in SUBSET ClientIds :
    /\ \A s \in S : outcome[s] = Pending
    /\ outcome' = [s \in ClientIds |-> IF s \in S THEN Rejected ELSE outcome[s]]

Promised == UNCHANGED outcome \/ Answered \/ GivenUp

LEMMA WaitingIsPending ==
  ASSUME TableOK
  PROVE  \A s \in ClientIds \cap DOMAIN streams : outcome[s] = Pending
BY DEF TableOK, RecordOK, TableIsPending

LEMMA FailedGivesUp ==
  ASSUME TableOK, NEW S \in SUBSET DOMAIN streams, Failed(S)
  PROVE  Promised
<1>1. outcome' = [s \in ClientIds |-> IF s \in S \cap ClientIds THEN Rejected ELSE outcome[s]]
  BY DEF Failed
<1>2. \A s \in S \cap ClientIds : outcome[s] = Pending
  BY WaitingIsPending
<1>3. S \cap ClientIds \in SUBSET ClientIds
  OBVIOUS
<1> QED BY <1>1, <1>2, <1>3 DEF Promised, GivenUp

LEMMA FatalGivesUp ==
  ASSUME TableOK, HandleFatal
  PROVE  Promised
BY FatalFails, FailedGivesUp

LEMMA ResolvedAnswers ==
  ASSUME TableOK, NEW s \in ClientIds \cap DOMAIN streams, NEW r, Resolved(s, r)
  PROVE  Promised
BY WaitingIsPending DEF Resolved, Promised, Answered

LEMMA HeadersPromised ==
  ASSUME Inv, NEW s \in Ids, NEW b \in Blocks, NEW n \in Pieces, NEW e \in BOOLEAN,
         SendHeaders(s, b, n, e)
  PROVE  Promised
<1>1. CASE s \in DOMAIN streams
  <2>1. CASE n # 1
    <3>1. PICK r \in StreamState :
            /\ Stored(s, r) /\ RecordOK(s, r)
            /\ r.state = streams[s].state
            /\ r.responseOctets = streams[s].responseOctets
            /\ r.endStreamSeen = streams[s].endStreamSeen
            /\ r.pendingHeaderBytes = [i \in 1..1 |-> <<b, i, n>>]
      BY <1>1, <2>1, HeadersHandled
    <3> QED BY <3>1 DEF Stored, Promised
  <2>2. CASE HandleFatal
    BY <2>2, FatalGivesUp DEF Inv
  <2>3. CASE n = 1 /\ ~HandleFatal
    <3>1. PICK r \in StreamState :
            /\ IF e /\ s \in ClientIds THEN Resolved(s, r) ELSE Stored(s, r)
            /\ RecordOK(s, r)
            /\ r.headersComplete /\ r.responseHeaders = b /\ b # NoHeaders
            /\ r.responseOctets = streams[s].responseOctets
            /\ ~e => /\ r.endStreamSeen = streams[s].endStreamSeen
                     /\ streams[s].state # "closed" => r.state # "closed"
            /\ r.pendingHeaderBytes = <<>>
      BY <1>1, <2>3, HeadersHandled
    <3>2. CASE e /\ s \in ClientIds
      BY <1>1, <3>1, <3>2, ResolvedAnswers DEF Inv
    <3>3. CASE ~(e /\ s \in ClientIds)
      BY <3>1, <3>3 DEF Stored, Promised
    <3> QED BY <3>2, <3>3
  <2> QED BY <2>1, <2>2, <2>3
<1>2. CASE s \notin DOMAIN streams
  BY <1>2 DEF SendHeaders, Dispatch, vars, Promised
<1> QED BY <1>1, <1>2

LEMMA ContinuationPromised ==
  ASSUME Inv, SendContinuation, NEW s, s = block.owner
  PROVE  Promised
<1>1. HandleFatal \/ UNCHANGED outcome
  BY ContinuationHandled DEF Stored
<1> QED BY <1>1, FatalGivesUp DEF Inv, Promised

LEMMA PushPromisePromised ==
  ASSUME Inv, NEW s \in ClientIds, NEW p \in PromisedIds, NEW b \in Blocks, NEW n \in Pieces,
         SendPushPromise(s, p, b, n)
  PROVE  Promised
<1>1. HandleFatal \/ UNCHANGED outcome
  BY PushPromiseHandled DEF Stored
<1> QED BY <1>1, FatalGivesUp DEF Inv, Promised

LEMMA DataPromised ==
  ASSUME Inv, NEW s \in Ids, NEW n \in 0..MaxBody, NEW e \in BOOLEAN,
         NEW padded \in BOOLEAN, NEW padLength \in Nat,
         SendData(s, n, e, padded, padLength)
  PROVE  Promised
<1> DEFINE m == [type |-> "DATA", stream |-> s,
                 length |-> IF padded THEN n + padLength + 1 ELSE n,
                 padded |-> padded, padLength |-> padLength, endStream |-> e]
           r == [streams[s] EXCEPT !.responseOctets = @ + Stripped(m)]
           q == EndStream(r)
<1>1. Dispatch(m)
  BY DEF SendData
<1>2. CASE s \in DOMAIN streams
  <2>1. HandleData(m)
    BY <1>1, <1>2 DEF Dispatch
  <2>2. UNCHANGED outcome \/ MaybeResolve(s, q)
    BY <2>1 DEF HandleData
  <2>3. q.awaited <=> s \in ClientIds
    <3>1. streams[s] \in StreamState /\ (streams[s].awaited <=> s \in ClientIds)
      BY <1>2 DEF Inv, TableOK, RecordOK
    <3>2. r.awaited = streams[s].awaited
      BY <3>1 DEF StreamState
    <3>3. q.awaited = r.awaited
      BY DEF EndStream
    <3> QED BY <3>1, <3>2, <3>3
  <2> HIDE DEF q
  <2>4. \/ UNCHANGED outcome
        \/ s \in ClientIds
           /\ outcome' = [outcome EXCEPT ![s] = Response(q.responseHeaders, q.responseOctets)]
    BY <2>2, <2>3 DEF MaybeResolve
  <2> QED BY <1>2, <2>4, WaitingIsPending DEF Inv, Promised, Answered
<1>3. CASE s \notin DOMAIN streams
  BY <1>1, <1>3 DEF Dispatch, vars, Promised
<1> QED BY <1>2, <1>3

LEMMA ResetPromised ==
  ASSUME Inv, NEW s \in Ids, SendReset(s)
  PROVE  Promised
<1>1. Dispatch([type |-> "RST_STREAM", stream |-> s])
  BY DEF SendReset
<1>2. CASE s \in DOMAIN streams
  <2>1. RejectStreams({s})
    BY <1>1, <1>2 DEF Dispatch, HandleRstStream
  <2> QED BY <1>2, <2>1, RejectFails, FailedGivesUp DEF Inv
<1>3. CASE s \notin DOMAIN streams
  BY <1>1, <1>3 DEF Dispatch, vars, Promised
<1> QED BY <1>2, <1>3

LEMMA GoawayPromised ==
  ASSUME Inv, NEW last \in ClientIds \cup {0}, SendGoaway(last)
  PROVE  Promised
<1>1. Dispatch([type |-> "GOAWAY", last |-> last])
  BY DEF SendGoaway
<1>2. RejectStreams({s \in DOMAIN streams : s > last})
  BY <1>1 DEF Dispatch, HandleGoaway
<1> QED BY <1>2, RejectFails, FailedGivesUp DEF Inv

LEMMA PromisedOrAsked ==
  ASSUME Inv, [ExchangeNext]_exchangeVars
  PROVE  \/ Promised
         \/ \E s \in ClientIds :
              outcome[s] = New /\ outcome' = [outcome EXCEPT ![s] = Pending]
<1>1. ASSUME NEW s \in ClientIds, Request(s)
      PROVE  outcome[s] = New /\ outcome' = [outcome EXCEPT ![s] = Pending]
  BY <1>1 DEF Request, Open
<1>2. ASSUME NEW s \in Ids, NEW b \in Blocks, NEW n \in Pieces, NEW e \in BOOLEAN,
             SendHeaders(s, b, n, e)
      PROVE  Promised
  BY <1>2, HeadersPromised
<1>3. CASE SendContinuation
  BY <1>3, ContinuationPromised
<1>4. ASSUME NEW s \in ClientIds, NEW p \in PromisedIds, NEW b \in Blocks, NEW n \in Pieces,
             SendPushPromise(s, p, b, n)
      PROVE  Promised
  BY <1>4, PushPromisePromised
<1>5. ASSUME NEW s \in Ids, NEW n \in 0..MaxBody, NEW e \in BOOLEAN,
             SendData(s, n, e, FALSE, 0)
      PROVE  Promised
  BY <1>5, DataPromised
<1>6. ASSUME NEW s \in Ids, NEW n \in 0..MaxBody, NEW e \in BOOLEAN, NEW p \in PadLengths,
             SendData(s, n, e, TRUE, p)
      PROVE  Promised
  BY <1>6, ExchangeAssumption, DataPromised
<1>7. ASSUME NEW s \in Ids, SendReset(s) PROVE Promised
  BY <1>7, ResetPromised
<1>8. ASSUME NEW last \in ClientIds \cup {0}, SendGoaway(last) PROVE Promised
  BY <1>8, GoawayPromised
<1>9. ASSUME NEW s \in Ids \cup {0}, ReceiveUpdates(s) PROVE Promised
  BY <1>9 DEF ReceiveUpdates, Promised
<1>10. CASE ConnectionLost
  BY <1>10, FatalGivesUp DEF ConnectionLost, Inv
<1>11. CASE UNCHANGED exchangeVars
  BY <1>11 DEF exchangeVars, vars, Promised
<1> HIDE DEF Promised
<1> QED BY <1>1, <1>2, <1>3, <1>4, <1>5, <1>6, <1>7, <1>8, <1>9, <1>10, <1>11
        DEF ExchangeNext

LEMMA ServiceStep ==
  ASSUME ~Uses("trailers"), ~Uses("endStreamBeforeContinuation"),
         Inv, Inv', [ExchangeNext]_exchangeVars
  PROVE  [Service!Next]_Service!vars
<1> DEFINE finished == [s \in ClientIds |-> Finished(s)]
<1>1. /\ \A s \in ClientIds :
           Finished(s) = IF outcome[s].kind = "resolved" THEN {outcome[s]} ELSE {}
      /\ \A s \in ClientIds :
           Finished(s)' = IF outcome'[s].kind = "resolved" THEN {outcome'[s]} ELSE {}
      /\ \A s \in ClientIds : outcome'[s].kind = "resolved" =>
           outcome'[s] \in [kind : {"resolved"}, headers : Blocks, body : 0..MaxBody]
  <2>1. ASSUME NEW s \in ClientIds
        PROVE  (/\ Finished(s) = IF outcome[s].kind = "resolved" THEN {outcome[s]} ELSE {}
                /\ outcome[s].kind = "resolved" =>
                     outcome[s] \in [kind : {"resolved"}, headers : Blocks, body : 0..MaxBody])'
    BY FinishedIsResolved, PTL DEF Uses
  <2> QED BY <2>1, FinishedIsResolved
<1>2. outcome \in [ClientIds -> Outcome]
  BY DEF Inv, TableOK
\* A step that changes no promise's kind to resolved finishes nothing.
<1>3. (\A s \in ClientIds : outcome'[s] = outcome[s] \/
         (outcome[s].kind # "resolved" /\ outcome'[s].kind # "resolved"))
        => finished' = finished
  BY <1>1
<1>4. CASE UNCHANGED outcome
  BY <1>3, <1>4 DEF Service!vars
<1>5. ASSUME NEW s \in ClientIds,
             outcome[s] = New, outcome' = [outcome EXCEPT ![s] = Pending]
      PROVE  Service!Ask(s)
  <2>1. outcome'[s] = Pending /\ \A t \in ClientIds \ {s} : outcome'[t] = outcome[t]
    BY <1>2, <1>5
  <2>2. finished' = finished
    BY <1>3, <1>5, <2>1, OutcomeKinds
  <2> QED BY <1>5, <2>2 DEF Service!Ask, Service!New, Service!Pending, New, Pending
<1>6. ASSUME NEW s \in ClientIds, NEW b, NEW n,
             outcome[s] = Pending, outcome' = [outcome EXCEPT ![s] = Response(b, n)]
      PROVE  \E response \in [kind : {"resolved"}, headers : Blocks, body : 0..MaxBody] :
               Service!Answer(s, response)
  <2>1. /\ outcome'[s] = Response(b, n) /\ outcome'[s].kind = "resolved"
        /\ \A t \in ClientIds \ {s} : outcome'[t] = outcome[t]
    BY <1>2, <1>6, OutcomeKinds
  <2>2. Response(b, n) \in [kind : {"resolved"}, headers : Blocks, body : 0..MaxBody]
    BY <1>1, <2>1
  <2>3. finished' = [finished EXCEPT ![s] = {Response(b, n)}]
    BY <1>1, <2>1
  <2> QED BY <1>6, <2>2, <2>3 DEF Service!Answer, Service!Pending, Pending
<1>7. ASSUME NEW S \in SUBSET ClientIds, \A s \in S : outcome[s] = Pending,
             outcome' = [s \in ClientIds |-> IF s \in S THEN Rejected ELSE outcome[s]]
      PROVE  Service!Fail(S)
  <2>1. finished' = finished
    BY <1>3, <1>7, OutcomeKinds
  <2> QED BY <1>7, <2>1
          DEF Service!Fail, Service!Pending, Service!Rejected, Pending, Rejected
<1> QED BY <1>4, <1>5, <1>6, <1>7, PromisedOrAsked
        DEF Promised, Answered, GivenUp, Service!Next

\* The promise of request() is settled at most once, with the response the peer finished,
\* in the turn its last frame is handled, or with an error, and then stays as it is,
\* when responses carry no trailers and END_STREAM comes with the last frame of a block
\* (the safety half of ImplementsResponseService).
THEOREM ExchangeServesResponses ==
  ASSUME ~Uses("trailers"), ~Uses("endStreamBeforeContinuation")
  PROVE  ExchangeSpec => Service!SafeSpec
<1>1. ExchangeInit => Service!Init
  <2>1. ExchangeInit => \A s \in ClientIds : Finished(s) = {}
    BY DEF ExchangeInit, Finished, Ids
  <2> QED BY <2>1 DEF ExchangeInit, Init, Service!Init, Service!New, New
<1>2. Inv /\ Inv' /\ [ExchangeNext]_exchangeVars => [Service!Next]_Service!vars
  BY ServiceStep
<1> QED BY <1>1, <1>2, InvAlways, PTL DEF ExchangeSpec, Service!SafeSpec
=============================================================================
