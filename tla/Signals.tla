------------------------------ MODULE Signals ------------------------------
(***************************************************************************)
(* What a connection awaits besides responses: the ACKs of its PINGs and   *)
(* of its SETTINGS (ping and waitForSettingsAck in src/connection.ts), the *)
(* listeners it registers for them with the emitter                        *)
(* (src/internal-emitter.ts), the timer, and the two ways a connection     *)
(* ends.  A listener runs inside the dispatch of the frame; emit works on  *)
(* a snapshot, so that one emission reaches every listener registered then.*)
(* The peer is external: it echoes PINGs in order and may acknowledge the  *)
(* SETTINGS, once, or never.                                               *)
(***************************************************************************)
EXTENDS Integers, Sequences

CONSTANTS
  Pings,        \* the calls of ping()
  Waits,        \* the calls of waitForSettingsAck: connectHttp2's own, and its users'
  OpaqueData,   \* PING payloads
  Nothing       \* no argument, no callback

ASSUME NothingAssumption == Nothing \notin Waits \cup OpaqueData

VARIABLES
  closed,
  reading,            \* the read loop has not returned
  pings,              \* each ping() promise, and its opaque data
  waits,              \* each waitForSettingsAck promise
  timers,             \* waits whose timer is set
  settingsAckReject,  \* the wait that handleFatal would reject, or Nothing
  onPingAck,          \* pings whose handler is registered
  onSettingsAck,      \* waits whose handler is registered
  toPeer, toClient,   \* frames under way
  settingsAcked,      \* the peer has acknowledged the SETTINGS
  failed,             \* the connection ended in handleFatal
  echoed,             \* data the peer has echoed
  overlapped          \* waits that were pending beside another one

promises == <<pings, waits>>
listeners == <<onPingAck, onSettingsAck>>
wire == <<toPeer, toClient, settingsAcked, echoed>>
vars == <<closed, reading, failed, promises, timers, settingsAckReject, listeners, wire,
          overlapped>>

PingAck(d) == [type |-> "PING_ACK", data |-> d]
SettingsAck == [type |-> "SETTINGS_ACK"]

Init ==
  /\ closed = FALSE /\ reading = TRUE /\ failed = FALSE
  /\ pings = [p \in Pings |-> [state |-> "new", data |-> Nothing]]
  /\ waits = [w \in Waits |-> "new"]
  /\ timers = {} /\ settingsAckReject = Nothing
  /\ onPingAck = {} /\ onSettingsAck = {}
  /\ toPeer = <<>> /\ toClient = <<>>
  /\ settingsAcked = FALSE /\ echoed = {} /\ overlapped = {}

-----------------------------------------------------------------------------
\* Chosen without the random default.
ChosenGiven(given, random) == given

\* The opaque data of a PING: the caller's, or a random value.
Chosen(given, random) == IF given = Nothing THEN random ELSE given

Ping(p, given, random) ==
  LET d == Chosen(given, random) IN
  /\ pings[p].state = "new" /\ ~closed
  /\ pings' = [pings EXCEPT ![p] = [state |-> "pending", data |-> d]]
  /\ onPingAck' = onPingAck \cup {p}
  /\ toPeer' = Append(toPeer, d)
  /\ UNCHANGED <<closed, reading, failed, waits, timers, settingsAckReject, onSettingsAck,
                 toClient, settingsAcked, echoed, overlapped>>

PingRefused(p, given, random) ==
  /\ pings[p].state = "new" /\ closed
  /\ pings' = [pings EXCEPT ![p] = [state |-> "rejected", data |-> Chosen(given, random)]]
  /\ UNCHANGED <<closed, reading, failed, waits, timers, settingsAckReject, listeners, wire,
                 overlapped>>

PendingWaits == {w \in Waits : waits[w] = "pending"}

\* Wait that sets no timer.
WaitUntimed(w) ==
  /\ waits[w] = "new"
  /\ waits' = [waits EXCEPT ![w] = "pending"]
  /\ settingsAckReject' = w
  /\ onSettingsAck' = onSettingsAck \cup {w}
  /\ overlapped' = IF PendingWaits = {} THEN overlapped ELSE overlapped \cup PendingWaits \cup {w}
  /\ UNCHANGED <<closed, reading, failed, pings, timers, onPingAck, wire>>

\* waitForSettingsAck does not ask whether the connection is open.
Wait(w) ==
  /\ waits[w] = "new"
  /\ waits' = [waits EXCEPT ![w] = "pending"]
  /\ settingsAckReject' = w
  /\ timers' = timers \cup {w}
  /\ onSettingsAck' = onSettingsAck \cup {w}
  /\ overlapped' = IF PendingWaits = {} THEN overlapped ELSE overlapped \cup PendingWaits \cup {w}
  /\ UNCHANGED <<closed, reading, failed, pings, onPingAck, wire>>

\* TimeOut that leaves the listener registered.
TimeOutListening(w) ==
  /\ w \in timers
  /\ timers' = timers \ {w}
  /\ settingsAckReject' = Nothing
  /\ waits' = [waits EXCEPT ![w] = IF @ = "pending" THEN "timedOut" ELSE @]
  /\ UNCHANGED <<closed, reading, failed, pings, listeners, wire, overlapped>>

\* The timer fires.  It forgets the callback of whichever wait is the latest, and a
\* promise that is settled already stays as it is.
TimeOut(w) ==
  /\ w \in timers
  /\ timers' = timers \ {w}
  /\ settingsAckReject' = Nothing
  /\ onSettingsAck' = onSettingsAck \ {w}
  /\ waits' = [waits EXCEPT ![w] = IF @ = "pending" THEN "timedOut" ELSE @]
  /\ UNCHANGED <<closed, reading, failed, pings, onPingAck, wire, overlapped>>

-----------------------------------------------------------------------------
\* Matching that resolves every ping at any ACK.
MatchingAny(d) == onPingAck

\* The registered pings that wait for this echo.
Matching(d) == {p \in onPingAck : pings[p].data = d}

\* HandlePingAck with handlers that any ACK removes, as once would register them.
HandlePingAckOnce(d) ==
  /\ pings' = [p \in Pings |-> IF p \in Matching(d)
                                 THEN [pings[p] EXCEPT !.state = "resolved"] ELSE pings[p]]
  /\ onPingAck' = {}
  /\ UNCHANGED <<waits, timers, settingsAckReject, onSettingsAck>>

\* An echo resolves every ping it matches and removes their handlers, and no others.
HandlePingAck(d) ==
  /\ pings' = [p \in Pings |-> IF p \in Matching(d)
                                 THEN [pings[p] EXCEPT !.state = "resolved"] ELSE pings[p]]
  /\ onPingAck' = onPingAck \ Matching(d)
  /\ UNCHANGED <<waits, timers, settingsAckReject, onSettingsAck>>

\* HandleSettingsAck that leaves the timers running.
HandleSettingsAckTimed ==
  /\ waits' = [w \in Waits |-> IF w \in onSettingsAck /\ waits[w] = "pending"
                                 THEN "resolved" ELSE waits[w]]
  /\ settingsAckReject' = IF onSettingsAck = {} THEN settingsAckReject ELSE Nothing
  /\ onSettingsAck' = {}
  /\ UNCHANGED <<pings, onPingAck, timers>>

\* Every registered wait is resolved; one that was rejected before stays rejected.
HandleSettingsAck ==
  /\ waits' = [w \in Waits |-> IF w \in onSettingsAck /\ waits[w] = "pending"
                                 THEN "resolved" ELSE waits[w]]
  /\ timers' = timers \ onSettingsAck
  /\ settingsAckReject' = IF onSettingsAck = {} THEN settingsAckReject ELSE Nothing
  /\ onSettingsAck' = {}
  /\ UNCHANGED <<pings, onPingAck>>

\* The read loop dispatches the next frame, then looks whether to go on.  A frame it
\* awaited when close() was called is still dispatched.
Receive ==
  /\ reading /\ toClient # <<>>
  /\ LET m == Head(toClient) IN
       \/ m.type = "PING_ACK" /\ HandlePingAck(m.data)
       \/ m.type = "SETTINGS_ACK" /\ HandleSettingsAck
  /\ toClient' = Tail(toClient)
  /\ reading' = ~closed
  /\ UNCHANGED <<closed, failed, toPeer, settingsAcked, echoed, overlapped>>

\* A read fails, or a dispatch: the loop ends.  Unless the connection was closed, the
\* latest wait is rejected with the error.  Pings are not.
HandleFatal ==
  /\ reading
  /\ IF closed THEN UNCHANGED <<settingsAckReject, waits>>
     ELSE /\ settingsAckReject' = Nothing
          /\ waits' = [w \in Waits |-> IF w = settingsAckReject /\ waits[w] = "pending"
                                         THEN "failed" ELSE waits[w]]
  /\ failed' = (failed \/ ~closed)
  /\ closed' = TRUE /\ reading' = FALSE
  /\ UNCHANGED <<pings, timers, listeners, wire, overlapped>>

\* close() settles neither pings nor waits.
Close ==
  /\ ~closed
  /\ closed' = TRUE
  /\ UNCHANGED <<reading, failed, promises, timers, settingsAckReject, listeners, wire,
                 overlapped>>

-----------------------------------------------------------------------------
PeerEcho ==
  /\ toPeer # <<>>
  /\ toClient' = Append(toClient, PingAck(Head(toPeer)))
  /\ toPeer' = Tail(toPeer)
  /\ echoed' = echoed \cup {Head(toPeer)}
  /\ UNCHANGED <<closed, reading, failed, promises, timers, settingsAckReject, listeners,
                 settingsAcked, overlapped>>

PeerAcknowledge ==
  /\ ~settingsAcked
  /\ settingsAcked' = TRUE
  /\ toClient' = Append(toClient, SettingsAck)
  /\ UNCHANGED <<closed, reading, failed, promises, timers, settingsAckReject, listeners,
                 toPeer, echoed, overlapped>>

Next ==
  \/ \E p \in Pings, given \in OpaqueData \cup {Nothing}, random \in OpaqueData :
       Ping(p, given, random) \/ PingRefused(p, given, random)
  \/ \E w \in Waits : Wait(w) \/ TimeOut(w)
  \/ Receive
  \/ HandleFatal
  \/ Close
  \/ PeerEcho
  \/ PeerAcknowledge

Spec == Init /\ [][Next]_vars

\* Timers fire, the transport delivers, the read loop goes on while the connection
\* lives, and the peer echoes PINGs.  The SETTINGS may stay unacknowledged.
Fairness ==
  /\ \A w \in Waits : WF_vars(TimeOut(w))
  /\ WF_vars(Receive)
  /\ WF_vars(PeerEcho)

FairSpec == Spec /\ Fairness

-----------------------------------------------------------------------------
TypeOK ==
  /\ closed \in BOOLEAN /\ reading \in BOOLEAN /\ failed \in BOOLEAN
  /\ pings \in [Pings -> [state : {"new", "pending", "resolved", "rejected"},
                          data : OpaqueData \cup {Nothing}]]
  /\ \A p \in Pings : pings[p].data = Nothing <=> pings[p].state = "new"
  /\ waits \in [Waits -> {"new", "pending", "resolved", "timedOut", "failed"}]
  /\ timers \subseteq Waits /\ onSettingsAck \subseteq Waits /\ onPingAck \subseteq Pings
  /\ settingsAckReject \in Waits \cup {Nothing}
  /\ toPeer \in Seq(OpaqueData) /\ echoed \subseteq OpaqueData
  /\ settingsAcked \in BOOLEAN /\ overlapped \subseteq Waits

\* No listener and no timer outlives what it is for: a ping's handler is registered while
\* the ping is pending; a wait's handler and its timer come and go together, last while
\* the wait is pending, and longer only after handleFatal, which removes neither.
ListenersTracked ==
  /\ \A p \in Pings : p \in onPingAck <=> pings[p].state = "pending"
  /\ onSettingsAck = timers
  /\ \A w \in Waits : waits[w] = "pending" => w \in timers
  /\ \A w \in timers : waits[w] \in {"pending", "failed"}
  /\ settingsAckReject # Nothing => waits[settingsAckReject] = "pending"

\* connection.ts:193: a ping resolves only by an ACK that echoes its data.
RoundTrip == \A p \in Pings : pings[p].state = "resolved" => pings[p].data \in echoed

\* connection.ts:90-95: a fatal error rejects the wait with the error itself.  One that is
\* the only wait from its beginning is never left to report a timeout instead, whatever
\* became of the waits before it: their timers, ACKs and callbacks leave it alone.
SoleWaitUnmasked ==
  [][failed' /\ ~failed => \A w \in Waits \ overlapped : waits'[w] # "pending"]_vars

\* connection.ts:389-391 and errors.ts:126-127: handleFatal rejects any pending wait, so
\* that its caller sees the real error and not a timeout, and ping() raises an error when
\* the connection has been shut down.  So a fatal error leaves no wait and no ping pending.
NobodyLeftWaiting ==
  [][failed' /\ ~failed => /\ \A w \in Waits : waits'[w] # "pending"
                          /\ \A p \in Pings : pings'[p].state # "pending"]_vars

\* A wait for an ACK that never comes ends, whatever becomes of the connection.
WaitsEnd == \A w \in Waits : waits[w] = "pending" ~> waits[w] # "pending"

\* A ping is answered as long as the read loop runs.
PingsAnswered ==
  \A p \in Pings : pings[p].state = "pending" ~> (pings[p].state = "resolved" \/ ~reading)
=============================================================================
