----------------------------- MODULE Responses -----------------------------
(***************************************************************************)
(* The receiving half of the stream manager (src/stream/stream.ts): how    *)
(* response frames become the value of a request's promise.  Streams keep  *)
(* their wire ids: odd ones are the client's requests, even ones promises. *)
(*                                                                         *)
(* A header block is one of Blocks, sent in pieces <<block, i, n>>.  What  *)
(* was collected decodes when it is the n pieces of one block, in order,   *)
(* and the block is not one that HPACK refuses.                            *)
(* A body is the number of its octets.                                     *)
(***************************************************************************)
EXTENDS Integers, Sequences, Functions

CONSTANTS
  ClientIds,     \* ids of requests: odd
  PromisedIds    \* ids of server pushes: even

ASSUME IdAssumption ==
  /\ \A s \in ClientIds : s \in Nat /\ s % 2 = 1
  /\ \A s \in PromisedIds : s \in Nat \ {0} /\ s % 2 = 0

VARIABLES
  streams,                   \* the table: id -> StreamState
  pendingPushContinuation,   \* id of a PUSH_PROMISE's frame -> the promised id
  closed,                    \* handleFatal has run
  outcome,                   \* what the promise of each request is
  pushed,                    \* blocks given to "push" listeners, per promised id
  updates                    \* WINDOW_UPDATE octets on their way to the peer; 0 is the connection

vars == <<streams, pendingPushContinuation, closed, outcome, pushed, updates>>

Ids == ClientIds \cup PromisedIds
Blocks == {"informational", "final", "trailers", "promise", "undecodable"}
NoHeaders == "none"

\* NewStream that does not mark promised streams.
NewStreamUnmarked(promise) ==
  [state |-> IF promise THEN "remote_reserved" ELSE "open",
   headersComplete |-> FALSE, endStreamSeen |-> FALSE,
   responseHeaders |-> NoHeaders, responseOctets |-> 0,
   pendingHeaderBytes |-> <<>>, awaited |-> ~promise, isPushPromise |-> FALSE]

NewStream(promise) ==
  [state |-> IF promise THEN "remote_reserved" ELSE "open",
   headersComplete |-> FALSE, endStreamSeen |-> FALSE,
   responseHeaders |-> NoHeaders, responseOctets |-> 0,
   pendingHeaderBytes |-> <<>>,
   awaited |-> ~promise,          \* a resolver is registered
   isPushPromise |-> promise]

New == [kind |-> "new"]
Pending == [kind |-> "pending"]
Rejected == [kind |-> "rejected"]
Response(b, n) == [kind |-> "resolved", headers |-> b, body |-> n]

-----------------------------------------------------------------------------
Init ==
  /\ streams = [s \in {} |-> NewStream(FALSE)]
  /\ pendingPushContinuation = [s \in {} |-> 0]
  /\ closed = FALSE
  /\ outcome = [s \in ClientIds |-> New]
  /\ pushed = [s \in PromisedIds |-> <<>>]
  /\ updates = [s \in Ids \cup {0} |-> 0]

\* Map.set.
With(map, key, value) ==
  [k \in DOMAIN map \cup {key} |-> IF k = key THEN value ELSE map[k]]

Put(s, r) == streams' = With(streams, s, r)
Remove(S) == streams' = Restrict(streams, DOMAIN streams \ S)

\* openStream and expectResponse, which request() calls in one turn.
Open(s) ==
  /\ Put(s, NewStream(FALSE))
  /\ outcome' = [outcome EXCEPT ![s] = Pending]
  /\ UNCHANGED <<pendingPushContinuation, closed, pushed, updates>>

\* Finalize the streams of S and reject the promises waiting on them.
RejectStreams(S) ==
  /\ Remove(S)
  /\ outcome' = [s \in ClientIds |->
                   IF s \in S /\ streams[s].awaited THEN Rejected ELSE outcome[s]]

\* The connection is torn down: transport failure, or dispatch threw.
HandleFatal ==
  /\ RejectStreams(DOMAIN streams)
  /\ closed' = TRUE
  /\ UNCHANGED <<pushed, updates>>

\* MaybeResolve that does not finalize the stream.
MaybeResolveOnly(s, r) ==
  /\ Put(s, r)
  /\ outcome' = IF r.headersComplete /\ r.endStreamSeen /\ r.awaited
                  THEN [outcome EXCEPT ![s] = Response(r.responseHeaders, r.responseOctets)]
                  ELSE outcome

\* MaybeResolve that waits for both halves of the stream to be closed.
MaybeResolveClosed(s, r) ==
  IF r.headersComplete /\ r.state = "closed" /\ r.awaited
    THEN /\ Remove({s})
         /\ outcome' = [outcome EXCEPT ![s] = Response(r.responseHeaders, r.responseOctets)]
    ELSE Put(s, r) /\ UNCHANGED outcome

\* Resolve and forget a stream whose response is complete.
MaybeResolve(s, r) ==
  IF r.headersComplete /\ r.endStreamSeen /\ r.awaited
    THEN /\ Remove({s})
         /\ outcome' = [outcome EXCEPT ![s] = Response(r.responseHeaders, r.responseOctets)]
    ELSE Put(s, r) /\ UNCHANGED outcome

\* EndStream that closes the wrong half.
EndStreamLocal(r) ==
  [r EXCEPT !.endStreamSeen = TRUE,
            !.state = IF @ = "open" THEN "local_half_closed" ELSE "closed"]

\* END_STREAM.  The client never records that its own half is closed.
EndStream(r) ==
  [r EXCEPT !.endStreamSeen = TRUE,
            !.state = CASE @ = "open" -> "remote_half_closed"
                        [] @ = "remote_reserved" -> "closed"
                        [] OTHER -> @]

Whole(b, n) == [i \in 1..n |-> <<b, i, n>>]
Decodes(pieces) ==
  /\ pieces = Whole(pieces[1][1], pieces[1][3])
  /\ pieces[1][1] # "undecodable"

WithPiece(r, m) == [r EXCEPT !.pendingHeaderBytes = Append(@, m.piece)]

\* WithHeaders that keeps the first block of a stream.
WithFirstHeaders(r) ==
  [r EXCEPT !.responseHeaders = IF r.headersComplete THEN @ ELSE r.pendingHeaderBytes[1][1],
            !.headersComplete = TRUE,
            !.pendingHeaderBytes = <<>>]

\* decodePendingHeaders on a block that decodes: a later block replaces an earlier one.
WithHeaders(r) ==
  [r EXCEPT !.responseHeaders = r.pendingHeaderBytes[1][1],
            !.headersComplete = TRUE,
            !.pendingHeaderBytes = <<>>]

-----------------------------------------------------------------------------
\* Stripped that leaves the padding in the body.
StrippedNothing(m) == m.length

\* The octets of application data in a DATA frame: the pad length octet and the
\* padding are removed, whatever the payload.
Stripped(m) ==
  IF ~m.padded THEN m.length
  ELSE IF m.length - m.padLength > 0 THEN m.length - m.padLength - 1 ELSE 0

\* Consumed that returns only the octets of application data.
ConsumedData(m) == Stripped(m)

\* What a DATA frame costs and is returned as credit: all of its payload.
Consumed(m) == m.length

HandleData(m) ==
  LET s == m.stream
      r == [streams[s] EXCEPT !.responseOctets = @ + Stripped(m)]
  IN /\ updates' = [updates EXCEPT ![0] = @ + Consumed(m),
                                   ![s] = IF r.state = "closed" THEN @ ELSE @ + Consumed(m)]
     /\ IF m.endStream THEN MaybeResolve(s, EndStream(r)) ELSE Put(s, r) /\ UNCHANGED outcome
     /\ UNCHANGED <<pendingPushContinuation, closed, pushed>>

\* END_STREAM is read only when the block ends in this frame.
HandleHeaders(m) ==
  LET s == m.stream
      r == WithPiece(streams[s], m)
      d == WithHeaders(r)
      o == IF d.state = "remote_reserved" THEN [d EXCEPT !.state = "open"] ELSE d
  IN /\ UNCHANGED pendingPushContinuation
     /\ \/ /\ ~m.endHeaders
           /\ Put(s, r)
           /\ UNCHANGED <<closed, outcome, pushed, updates>>
        \/ /\ m.endHeaders /\ Decodes(r.pendingHeaderBytes)
           /\ MaybeResolve(s, IF m.endStream THEN EndStream(o) ELSE o)
           /\ UNCHANGED <<closed, pushed, updates>>
        \/ m.endHeaders /\ ~Decodes(r.pendingHeaderBytes) /\ HandleFatal

\* Continued that looks only at the frame's own stream.
ContinuedHere(m) == m.stream

\* The stream whose block a CONTINUATION carries on.
Continued(m) ==
  IF m.stream \in DOMAIN pendingPushContinuation
    THEN pendingPushContinuation[m.stream] ELSE m.stream

HandleContinuation(m) ==
  LET s == Continued(m)
      r == WithPiece(streams[s], m)
      d == WithHeaders(r)
  IN \/ /\ ~m.endHeaders
        /\ Put(s, r)
        /\ UNCHANGED <<pendingPushContinuation, closed, outcome, pushed, updates>>
     \/ /\ m.endHeaders
        /\ pendingPushContinuation' =
             Restrict(pendingPushContinuation, DOMAIN pendingPushContinuation \ {m.stream})
        /\ IF Decodes(r.pendingHeaderBytes)
             THEN /\ MaybeResolve(s, d)
                  /\ pushed' = IF d.isPushPromise
                                 THEN [pushed EXCEPT ![s] = Append(@, d.responseHeaders)]
                                 ELSE pushed
                  /\ UNCHANGED <<closed, updates>>
             ELSE HandleFatal

HandlePushPromise(m) ==
  LET r == WithPiece(NewStream(TRUE), m)
      d == WithHeaders(r)
  IN \/ /\ ~m.endHeaders
        /\ Put(m.promised, r)
        /\ pendingPushContinuation' = With(pendingPushContinuation, m.stream, m.promised)
        /\ UNCHANGED <<closed, outcome, pushed, updates>>
     \/ /\ m.endHeaders /\ Decodes(r.pendingHeaderBytes)
        /\ Put(m.promised, d)
        /\ pushed' = [pushed EXCEPT ![m.promised] = Append(@, d.responseHeaders)]
        /\ UNCHANGED <<pendingPushContinuation, closed, outcome, updates>>
     \/ /\ m.endHeaders /\ ~Decodes(r.pendingHeaderBytes)
        /\ HandleFatal
        /\ UNCHANGED pendingPushContinuation

HandleRstStream(m) ==
  /\ RejectStreams({m.stream})
  /\ UNCHANGED <<pendingPushContinuation, closed, pushed, updates>>

\* Every stream above lastStreamId is failed, promised ones included.
HandleGoaway(m) ==
  /\ RejectStreams({s \in DOMAIN streams : s > m.last})
  /\ UNCHANGED <<pendingPushContinuation, closed, pushed, updates>>

\* What the table says of a frame's stream decides; frames on no stream are dropped.
Dispatch(m) ==
  CASE m.type = "PUSH_PROMISE" -> HandlePushPromise(m)
    [] m.type = "GOAWAY" -> HandleGoaway(m)
    [] m.type = "CONTINUATION" /\ Continued(m) \in DOMAIN streams -> HandleContinuation(m)
    [] m.type = "DATA" /\ m.stream \in DOMAIN streams -> HandleData(m)
    [] m.type = "HEADERS" /\ m.stream \in DOMAIN streams -> HandleHeaders(m)
    [] m.type = "RST_STREAM" /\ m.stream \in DOMAIN streams -> HandleRstStream(m)
    [] OTHER -> UNCHANGED vars

-----------------------------------------------------------------------------
StreamState ==
  [state : {"remote_reserved", "open", "remote_half_closed", "closed"},
   headersComplete : BOOLEAN, endStreamSeen : BOOLEAN,
   responseHeaders : Blocks \cup {NoHeaders}, responseOctets : Nat,
   pendingHeaderBytes : Seq(Blocks \X Nat \X Nat),
   awaited : BOOLEAN, isPushPromise : BOOLEAN]

Outcome ==
  {New, Pending, Rejected} \cup [kind : {"resolved"}, headers : Blocks, body : Nat]

TypeOK ==
  /\ DOMAIN streams \subseteq Ids
  /\ \A s \in DOMAIN streams : streams[s] \in StreamState
  /\ DOMAIN pendingPushContinuation \subseteq Ids
  /\ \A s \in DOMAIN pendingPushContinuation : pendingPushContinuation[s] \in PromisedIds
  /\ closed \in BOOLEAN
  /\ outcome \in [ClientIds -> Outcome]
  /\ pushed \in [PromisedIds -> Seq(Blocks)]
  /\ updates \in [Ids \cup {0} -> Nat]

\* The table and the promises never part: a request waits exactly as long as its
\* stream is in the table with a resolver; a settled one leaves nothing behind
\* (finalizeStream, rejectStream and maybeResolveResponse each touch both).
TableIsPending ==
  \A s \in ClientIds :
    outcome[s] = Pending <=> (s \in DOMAIN streams /\ streams[s].awaited)
=============================================================================
