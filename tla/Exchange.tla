------------------------------ MODULE Exchange ------------------------------
(***************************************************************************)
(* Responses with the peer that sends them.  The peer is external: it      *)
(* sends the frames an HTTP/2 server may send, in a legal order, within    *)
(* the credit it has.  A frame arrives in the step that sends it: nothing  *)
(* the client does in between would change how it is handled.  Credit, in  *)
(* the other direction, takes its time.                                    *)
(***************************************************************************)
EXTENDS Responses

CONSTANTS
  Window,       \* the peer's initial credit, per stream and for the connection
  MaxBody,      \* bound: octets of a response body
  PadLengths,   \* padding the peer may put in a DATA frame
  Pieces,       \* numbers of frames a header block may be sent in
  Features      \* optional parts of HTTP/2 the peer uses, see Uses

ASSUME ExchangeAssumption ==
  /\ {Window, MaxBody} \subseteq Nat /\ PadLengths \subseteq Nat
  /\ Pieces \subseteq Nat \ {0}
ASSUME LastIdAssumption == \E s \in Ids : \A t \in Ids : t <= s

VARIABLES
  server,       \* per stream: how far the peer is, and what it has sent
  block,        \* the header block the peer has begun and not finished
  window,       \* the peer's credit
  accepted      \* the lastStreamId the peer has declared; above MaxId before GOAWAY

exchangeVars == <<vars, server, block, window, accepted>>

Phases == {"none", "asked", "informed", "headers", "ended", "gone"}
ServerState == [phase : Phases, headers : Blocks \cup {NoHeaders}, body : Nat, ended : BOOLEAN]
NoBlock == [left |-> 0]
MaxId == CHOOSE s \in Ids : \A t \in Ids : t <= s

\* The peer's habits beyond a plain response.
\*   "endStreamBeforeContinuation": HEADERS with END_STREAM and without END_HEADERS
\*   "trailers": a second header block, after the body
\*   "pushedContinuation": a pushed response's headers in several frames
\*   "pushAfterGoaway": GOAWAY does not interrupt a pushed response
\*   "undecodable": a header block that HPACK refuses
Uses(feature) == feature \in Features

ExchangeInit ==
  /\ Init
  /\ server = [s \in Ids |-> [phase |-> "none", headers |-> NoHeaders, body |-> 0, ended |-> FALSE]]
  /\ block = NoBlock
  /\ window = [s \in Ids \cup {0} |-> Window]
  /\ accepted = MaxId + 1

\* request() opens the next stream and writes HEADERS; the peer sees it at once.
\* After GOAWAY there are no new requests.
Request(s) ==
  /\ ~closed /\ accepted > MaxId
  /\ outcome[s] = New
  /\ \A t \in ClientIds : t < s => outcome[t] # New
  /\ Open(s)
  /\ server' = [server EXCEPT ![s].phase = "asked"]
  /\ UNCHANGED <<block, window, accepted>>

-----------------------------------------------------------------------------
\* Only CONTINUATION may follow an unfinished header block.
MaySend == ~closed /\ block = NoBlock
Alive(s) == server[s].phase \in {"asked", "informed", "headers"}

\* The first piece of a block for owner went out in a frame on stream.
Begin(stream, owner, b, n) ==
  block' = IF n = 1 THEN NoBlock
           ELSE [stream |-> stream, owner |-> owner, name |-> b,
                 next |-> 2, of |-> n, left |-> n - 1]

SendHeaders(s, b, n, e) ==
  /\ MaySend /\ Alive(s)
  /\ CASE b = "informational" -> server[s].phase = "asked" /\ ~e
       [] b = "final" -> server[s].phase \in {"asked", "informed"}
       [] b = "trailers" -> Uses("trailers") /\ server[s].phase = "headers" /\ e
       [] b = "undecodable" -> Uses("undecodable") /\ server[s].phase = "asked" /\ ~e
       [] OTHER -> FALSE
  /\ e /\ n > 1 => Uses("endStreamBeforeContinuation")
  /\ s \in PromisedIds /\ n > 1 => Uses("pushedContinuation")
  /\ s > accepted => Uses("pushAfterGoaway")
  /\ Dispatch([type |-> "HEADERS", stream |-> s, piece |-> <<b, 1, n>>,
               endHeaders |-> n = 1, endStream |-> e])
  /\ server' = [server EXCEPT ![s].phase = CASE e -> "ended"
                                             [] b = "informational" -> "informed"
                                             [] OTHER -> "headers",
                              ![s].headers = IF b = "trailers" THEN @ ELSE b,
                              ![s].ended = e]
  /\ Begin(s, s, b, n)
  /\ UNCHANGED <<window, accepted>>

SendContinuation ==
  /\ ~closed /\ block # NoBlock
  /\ Dispatch([type |-> "CONTINUATION", stream |-> block.stream,
               piece |-> <<block.name, block.next, block.of>>,
               endHeaders |-> block.left = 1])
  /\ block' = IF block.left = 1 THEN NoBlock
              ELSE [block EXCEPT !.next = @ + 1, !.left = @ - 1]
  /\ UNCHANGED <<server, window, accepted>>

\* Promises are made on a request's stream before its response ends.
SendPushPromise(s, p, b, n) ==
  /\ MaySend /\ Alive(s) /\ s \in ClientIds
  /\ server[p].phase = "none"
  /\ b = "promise" \/ (b = "undecodable" /\ Uses("undecodable"))
  /\ \A q \in PromisedIds : q < p => server[q].phase # "none"
  /\ accepted > MaxId
  /\ Dispatch([type |-> "PUSH_PROMISE", stream |-> s, promised |-> p,
               piece |-> <<b, 1, n>>, endHeaders |-> n = 1])
  /\ server' = [server EXCEPT ![p].phase = "asked"]
  /\ Begin(s, p, b, n)
  /\ UNCHANGED <<window, accepted>>

\* n octets of the body in a frame of length octets: with padding, one more for the
\* pad length and the padding itself.
SendData(s, n, e, padded, padLength) ==
  LET length == IF padded THEN n + padLength + 1 ELSE n IN
  /\ MaySend /\ server[s].phase = "headers"
  /\ server[s].body + n <= MaxBody
  /\ length <= window[0] /\ length <= window[s]
  /\ n > 0 \/ e
  /\ s > accepted => Uses("pushAfterGoaway")
  /\ Dispatch([type |-> "DATA", stream |-> s, length |-> length, padded |-> padded,
               padLength |-> padLength, endStream |-> e])
  /\ window' = [window EXCEPT ![0] = @ - length, ![s] = @ - length]
  /\ server' = [server EXCEPT ![s].body = @ + n,
                              ![s].phase = IF e THEN "ended" ELSE @,
                              ![s].ended = e]
  /\ UNCHANGED <<block, accepted>>

\* A reset may also follow a complete response.
SendReset(s) ==
  /\ MaySend /\ server[s].phase \in Phases \ {"none", "gone"}
  /\ Dispatch([type |-> "RST_STREAM", stream |-> s])
  /\ server' = [server EXCEPT ![s].phase = IF @ = "ended" THEN @ ELSE "gone"]
  /\ UNCHANGED <<block, window, accepted>>

\* The peer keeps the requests it has begun to answer.
SendGoaway(last) ==
  /\ MaySend /\ last <= accepted
  /\ \A s \in ClientIds : server[s].phase \in {"informed", "headers"} => s <= last
  /\ Dispatch([type |-> "GOAWAY", last |-> last])
  /\ accepted' = last
  /\ server' = [s \in Ids |-> IF s \in ClientIds /\ s > last /\ Alive(s)
                                THEN [server[s] EXCEPT !.phase = "gone"] ELSE server[s]]
  /\ UNCHANGED <<block, window>>

\* The WINDOW_UPDATEs of a stream, or of the connection, reach the peer.
ReceiveUpdates(s) ==
  /\ updates[s] > 0
  /\ window' = [window EXCEPT ![s] = @ + updates[s]]
  /\ updates' = [updates EXCEPT ![s] = 0]
  /\ UNCHANGED <<streams, pendingPushContinuation, closed, outcome, pushed,
                 server, block, accepted>>

ConnectionLost ==
  /\ ~closed
  /\ HandleFatal
  /\ UNCHANGED <<pendingPushContinuation, server, block, window, accepted>>

ExchangeNext ==
  \/ \E s \in ClientIds : Request(s)
  \/ \E s \in Ids, b \in Blocks, n \in Pieces, e \in BOOLEAN : SendHeaders(s, b, n, e)
  \/ SendContinuation
  \/ \E s \in ClientIds, p \in PromisedIds, b \in Blocks, n \in Pieces :
       SendPushPromise(s, p, b, n)
  \/ \E s \in Ids, n \in 0..MaxBody, e \in BOOLEAN : SendData(s, n, e, FALSE, 0)
  \/ \E s \in Ids, n \in 0..MaxBody, e \in BOOLEAN, p \in PadLengths : SendData(s, n, e, TRUE, p)
  \/ \E s \in Ids : SendReset(s)
  \/ \E last \in ClientIds \cup {0} : SendGoaway(last)
  \/ \E s \in Ids \cup {0} : ReceiveUpdates(s)
  \/ ConnectionLost

ExchangeSpec == ExchangeInit /\ [][ExchangeNext]_exchangeVars

\* The next frame of a response to s with a body of MaxBody octets.
Advance(s) ==
  \/ \E n \in Pieces, e \in BOOLEAN : SendHeaders(s, "final", n, e)
  \/ \E n \in 0..MaxBody, e \in BOOLEAN :
       (e => server[s].body + n = MaxBody) /\ SendData(s, n, e, FALSE, 0)

(***************************************************************************)
(* The peer finishes the header blocks and the responses it owes when it   *)
(* has the credit for them, and WINDOW_UPDATEs arrive.  Nothing is assumed *)
(* of pushed responses, resets or GOAWAY.                                  *)
(***************************************************************************)
ExchangeFairness ==
  /\ WF_exchangeVars(SendContinuation)
  /\ WF_exchangeVars(\E s \in ClientIds : Advance(s))
  /\ WF_exchangeVars(\E s \in Ids \cup {0} : ReceiveUpdates(s))

ExchangeFairSpec == ExchangeSpec /\ ExchangeFairness

-----------------------------------------------------------------------------
\* The response the peer has finished for s, the last header block included.
Finished(s) ==
  IF server[s].ended /\ (block # NoBlock => block.owner # s)
    THEN {Response(server[s].headers, server[s].body)} ELSE {}

ExchangeTypeOK ==
  /\ TypeOK
  /\ server \in [Ids -> ServerState]
  /\ block = NoBlock \/ block.stream \in ClientIds \cup PromisedIds
  /\ window \in [Ids \cup {0} -> 0..Window]
  /\ accepted \in 0..(MaxId + 1)

\* Reassembly is never stale: what a stream has collected of a header block is exactly
\* what the peer has sent of the block it is in the middle of, and a CONTINUATION is
\* redirected to a promised stream exactly while its PUSH_PROMISE is unfinished.
BlocksInStep ==
  ~closed =>
    /\ \A s \in DOMAIN streams :
         streams[s].pendingHeaderBytes =
           IF block # NoBlock /\ block.owner = s
             THEN [i \in 1..(block.next - 1) |-> <<block.name, i, block.of>>] ELSE <<>>
    /\ pendingPushContinuation =
         IF block # NoBlock /\ block.owner # block.stream
           THEN [s \in {block.stream} |-> block.owner] ELSE [s \in {} |-> 0]

\* stream.ts:547-556: the full payload of a DATA frame counts against the window, and is
\* given back to keep the peer's credit flowing.  The peer's credit is never lost: what it
\* has, and what is on its way back, is what it started with, on each stream and on the
\* connection, padding included.
CreditConserved ==
  ~closed => \A s \in Ids \cup {0} : window[s] + updates[s] = Window

\* The promise to p has been made, and all of its block sent.
PromiseMade(p) ==
  server[p].phase # "none" /\ ~(block # NoBlock /\ block.owner = p /\ block.stream # p)

\* stream.ts:609-612: "push" listeners hear of a promise when its block is complete, not
\* before, with the headers of the promised request; they hear of it once, and before
\* anything of the pushed response, on whichever stream its CONTINUATIONs came.
PromiseAnnounced ==
  ~closed => \A p \in PromisedIds :
    IF PromiseMade(p) THEN {i \in DOMAIN pushed[p] : pushed[p][i] = "promise"} = {1}
    ELSE pushed[p] = <<>>

\* stream.ts:647-648 and 718-719: "push" is emitted exactly once per promise.
PushedOnce ==
  ~closed => \A p \in PromisedIds :
    pushed[p] = IF PromiseMade(p) THEN <<"promise">> ELSE <<>>

\* connection.ts:15-16, stream.ts:73-75: once the response HEADERS and END_STREAM have
\* arrived the request is resolved, and with the response the peer sent; it is not left
\* waiting, and no later block takes the place of the headers.
ResolvedInFull ==
  \A s \in ClientIds : Finished(s) # {} => outcome[s] \in Finished(s)

\* A response is the one the peer sent: its final headers, the body without padding.
Faithful ==
  \A s \in ClientIds : outcome[s].kind = "resolved" => outcome[s] \in Finished(s)

\* The abstract promise, and that the receiving half keeps it: nothing but the finished
\* response, once, and (liveness) every request is settled although the peer's credit
\* is smaller than a body.
Service == INSTANCE ResponseService WITH
  Requests <- ClientIds,
  Responses <- [kind : {"resolved"}, headers : Blocks, body : 0..MaxBody],
  finished <- [s \in ClientIds |-> Finished(s)]

ImplementsResponseService == Service!Spec
=============================================================================
