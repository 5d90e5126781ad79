---------------------------- MODULE SignalsProofs ----------------------------
(***************************************************************************)
(* The invariants of Signals, for any number of PINGs and of waits for the *)
(* SETTINGS to be acknowledged, in any order with the timers, the frames   *)
(* and the end of the connection.                                          *)
(***************************************************************************)
EXTENDS Signals, TLAPS

\* What may be under way to the client: ACKs of PINGs that the peer has echoed.
Acks == {PingAck(d) : d \in echoed} \cup {SettingsAck}

\* While no fatal error has come, no wait was rejected by one, and a wait that is pending
\* and has been alone from its beginning holds the one callback handleFatal has.
NoneFailed == ~failed => \A w \in Waits : waits[w] # "failed"
SoleIsLatest ==
  ~failed => \A w \in Waits \ overlapped :
               waits[w] = "pending" =>
                 settingsAckReject = w /\ \A v \in Waits : waits[v] = "pending" => v = w

SignalsInv ==
  /\ TypeOK /\ ListenersTracked /\ RoundTrip
  /\ toClient \in Seq(Acks)
  /\ NoneFailed /\ SoleIsLatest

LEMMA InitInv == Init => SignalsInv
<1> SUFFICES ASSUME Init PROVE SignalsInv
  OBVIOUS
<1> USE DEF Init
<1>1. TypeOK
  <2>1. pings \in [Pings -> [state : {"new", "pending", "resolved", "rejected"},
                             data : OpaqueData \cup {Nothing}]]
    OBVIOUS
  <2>2. waits \in [Waits -> {"new", "pending", "resolved", "timedOut", "failed"}]
    OBVIOUS
  <2>3. \A p \in Pings : pings[p].data = Nothing <=> pings[p].state = "new"
    OBVIOUS
  <2>4. toPeer \in Seq(OpaqueData)
    OBVIOUS
  <2> QED BY <2>1, <2>2, <2>3, <2>4, Zenon DEF TypeOK
<1>2. ListenersTracked /\ RoundTrip /\ NoneFailed /\ SoleIsLatest
  BY DEF ListenersTracked, RoundTrip, NoneFailed, SoleIsLatest
<1>3. toClient \in Seq(Acks)
  OBVIOUS
<1> QED BY <1>1, <1>2, <1>3 DEF SignalsInv

LEMMA PingInv ==
  ASSUME SignalsInv, NEW p \in Pings, NEW given \in OpaqueData \cup {Nothing},
         NEW random \in OpaqueData, Ping(p, given, random)
  PROVE  SignalsInv'
<1> DEFINE d == Chosen(given, random)
<1>1. d \in OpaqueData /\ d # Nothing
  BY NothingAssumption DEF Chosen
<1>2. /\ pings[p].state = "new"
      /\ pings' = [pings EXCEPT ![p] = [state |-> "pending", data |-> d]]
      /\ onPingAck' = onPingAck \cup {p}
      /\ toPeer' = Append(toPeer, d)
      /\ UNCHANGED <<closed, reading, failed, waits, timers, settingsAckReject, onSettingsAck,
                     toClient, settingsAcked, echoed, overlapped>>
  BY DEF Ping
<1> HIDE DEF d
<1> USE <1>1, <1>2 DEF SignalsInv
<1>3. TypeOK'
  BY DEF TypeOK
<1>4. ListenersTracked'
  BY DEF ListenersTracked, TypeOK
<1>5. RoundTrip'
  BY DEF RoundTrip, TypeOK
<1>6. (toClient \in Seq(Acks))' /\ NoneFailed' /\ SoleIsLatest'
  BY DEF Acks, NoneFailed, SoleIsLatest
<1> QED BY <1>3, <1>4, <1>5, <1>6

LEMMA PingRefusedInv ==
  ASSUME SignalsInv, NEW p \in Pings, NEW given \in OpaqueData \cup {Nothing},
         NEW random \in OpaqueData, PingRefused(p, given, random)
  PROVE  SignalsInv'
<1> DEFINE d == Chosen(given, random)
<1>1. d \in OpaqueData /\ d # Nothing
  BY NothingAssumption DEF Chosen
<1>2. /\ pings[p].state = "new"
      /\ pings' = [pings EXCEPT ![p] = [state |-> "rejected", data |-> d]]
      /\ UNCHANGED <<closed, reading, failed, waits, timers, settingsAckReject,
                     onPingAck, onSettingsAck, toPeer, toClient, settingsAcked, echoed, overlapped>>
  BY DEF PingRefused, listeners, wire
<1> HIDE DEF d
<1> USE <1>1, <1>2 DEF SignalsInv
<1>3. TypeOK'
  BY DEF TypeOK
<1>4. ListenersTracked'
  BY DEF ListenersTracked, TypeOK
<1>5. RoundTrip'
  BY DEF RoundTrip, TypeOK
<1>6. (toClient \in Seq(Acks))' /\ NoneFailed' /\ SoleIsLatest'
  BY DEF Acks, NoneFailed, SoleIsLatest
<1> QED BY <1>3, <1>4, <1>5, <1>6

LEMMA WaitInv ==
  ASSUME SignalsInv, NEW w \in Waits, Wait(w)
  PROVE  SignalsInv'
<1> USE DEF SignalsInv, Wait, wire
<1>1. TypeOK'
  <2>1. overlapped' \subseteq Waits
    BY DEF TypeOK, PendingWaits
  <2> QED BY <2>1 DEF TypeOK
<1>2. ListenersTracked'
  BY NothingAssumption DEF ListenersTracked, TypeOK
<1>3. RoundTrip' /\ (toClient \in Seq(Acks))'
  BY DEF RoundTrip, Acks
<1>4. NoneFailed' /\ SoleIsLatest'
  BY DEF NoneFailed, SoleIsLatest, PendingWaits, TypeOK
<1> QED BY <1>1, <1>2, <1>3, <1>4

LEMMA TimeOutInv ==
  ASSUME SignalsInv, NEW w \in Waits, TimeOut(w)
  PROVE  SignalsInv'
<1> USE DEF SignalsInv, TimeOut, wire
<1>1. TypeOK'
  BY DEF TypeOK
<1>2. ListenersTracked'
  BY NothingAssumption DEF ListenersTracked, TypeOK
<1>3. RoundTrip' /\ (toClient \in Seq(Acks))'
  BY DEF RoundTrip, Acks
<1>4. NoneFailed' /\ SoleIsLatest'
  BY DEF NoneFailed, SoleIsLatest, ListenersTracked, TypeOK
<1> QED BY <1>1, <1>2, <1>3, <1>4

\* The next frame is an echo of what the peer has echoed, or the one ACK.
LEMMA ReceiveInv ==
  ASSUME SignalsInv, Receive
  PROVE  SignalsInv'
<1> DEFINE m == Head(toClient)
<1>1. /\ toClient # <<>> /\ toClient' = Tail(toClient)
      /\ reading /\ reading' = ~closed
      /\ UNCHANGED <<closed, failed, toPeer, settingsAcked, echoed, overlapped>>
  BY DEF Receive
<1>2. m \in Acks /\ toClient' \in Seq(Acks)
  BY <1>1 DEF SignalsInv
<1>3. (toClient \in Seq(Acks))'
  BY <1>1, <1>2 DEF Acks
<1>4. /\ closed' \in BOOLEAN /\ reading' \in BOOLEAN /\ failed' \in BOOLEAN
      /\ toPeer' \in Seq(OpaqueData) /\ echoed' \subseteq OpaqueData /\ settingsAcked' \in BOOLEAN
      /\ overlapped' \subseteq Waits
  BY <1>1, Zenon DEF SignalsInv, TypeOK
<1>5. ASSUME m.type = "PING_ACK", HandlePingAck(m.data) PROVE SignalsInv'
  <2>1. PICK d \in echoed : m = PingAck(d)
    BY <1>2, <1>5 DEF Acks, SettingsAck
  <2>2. m.data = d
    BY <2>1 DEF PingAck
  <2>3. /\ pings' = [p \in Pings |-> IF p \in Matching(d)
                                       THEN [pings[p] EXCEPT !.state = "resolved"] ELSE pings[p]]
        /\ onPingAck' = onPingAck \ Matching(d)
        /\ UNCHANGED <<waits, timers, settingsAckReject, onSettingsAck>>
    BY <1>5, <2>2 DEF HandlePingAck
  <2>4. ASSUME NEW p \in Matching(d)
        PROVE  p \in Pings /\ pings[p].data = d /\ pings[p].state = "pending"
    BY DEF Matching, SignalsInv, TypeOK, ListenersTracked
  <2>5. TypeOK'
    <3>1. pings' \in [Pings -> [state : {"new", "pending", "resolved", "rejected"},
                                data : OpaqueData \cup {Nothing}]]
      BY <2>3 DEF SignalsInv, TypeOK
    <3>2. \A p \in Pings : pings'[p].data = Nothing <=> pings'[p].state = "new"
      BY <2>3, <2>4 DEF SignalsInv, TypeOK
    <3>3. /\ waits' = waits /\ timers' = timers /\ onSettingsAck' = onSettingsAck
          /\ onPingAck' \subseteq Pings /\ settingsAckReject' = settingsAckReject
      BY <2>3 DEF SignalsInv, TypeOK
    <3> QED BY <1>4, <3>1, <3>2, <3>3, Zenon DEF SignalsInv, TypeOK
  <2>6. ListenersTracked'
    <3>1. \A p \in Pings : p \in onPingAck' <=> pings'[p].state = "pending"
      BY <2>3, <2>4 DEF SignalsInv, TypeOK, ListenersTracked
    <3> QED BY <2>3, <3>1 DEF SignalsInv, ListenersTracked
  <2>7. RoundTrip'
    BY <1>1, <2>3, <2>4 DEF SignalsInv, TypeOK, RoundTrip
  <2>8. NoneFailed' /\ SoleIsLatest'
    BY <1>1, <2>3 DEF SignalsInv, NoneFailed, SoleIsLatest
  <2> QED BY <1>3, <2>5, <2>6, <2>7, <2>8 DEF SignalsInv
<1>6. ASSUME HandleSettingsAck PROVE SignalsInv'
  <2>1. /\ waits' = [w \in Waits |-> IF w \in onSettingsAck /\ waits[w] = "pending"
                                       THEN "resolved" ELSE waits[w]]
        /\ timers' = timers \ onSettingsAck
        /\ settingsAckReject' = IF onSettingsAck = {} THEN settingsAckReject ELSE Nothing
        /\ onSettingsAck' = {}
        /\ pings' = pings /\ onPingAck' = onPingAck
    BY <1>6 DEF HandleSettingsAck
  <2>2. TypeOK'
    <3>1. waits' \in [Waits -> {"new", "pending", "resolved", "timedOut", "failed"}]
      BY <2>1 DEF SignalsInv, TypeOK
    <3>2. timers' \subseteq Waits /\ settingsAckReject' \in Waits \cup {Nothing}
      BY <2>1 DEF SignalsInv, TypeOK
    <3> QED BY <1>4, <2>1, <3>1, <3>2, Zenon DEF SignalsInv, TypeOK
  <2>3. ListenersTracked'
    BY <2>1 DEF SignalsInv, TypeOK, ListenersTracked
  <2>4. RoundTrip'
    BY <1>1, <2>1 DEF SignalsInv, RoundTrip
  <2>5. NoneFailed' /\ SoleIsLatest'
    BY <1>1, <2>1 DEF SignalsInv, TypeOK, ListenersTracked, NoneFailed, SoleIsLatest
  <2> QED BY <1>3, <2>2, <2>3, <2>4, <2>5 DEF SignalsInv
<1> QED BY <1>5, <1>6 DEF Receive

LEMMA HandleFatalInv ==
  ASSUME SignalsInv, HandleFatal
  PROVE  SignalsInv'
<1>1. /\ closed' = TRUE /\ reading' = FALSE /\ failed' = (failed \/ ~closed)
      /\ UNCHANGED <<pings, timers, onPingAck, onSettingsAck, toPeer, toClient,
                     settingsAcked, echoed, overlapped>>
      /\ \/ closed /\ UNCHANGED <<settingsAckReject, waits>>
         \/ /\ ~closed /\ settingsAckReject' = Nothing
            /\ waits' = [w \in Waits |-> IF w = settingsAckReject /\ waits[w] = "pending"
                                           THEN "failed" ELSE waits[w]]
  BY DEF HandleFatal, listeners, wire
<1>2. closed' \in BOOLEAN /\ reading' \in BOOLEAN /\ failed' \in BOOLEAN
  BY <1>1, Zenon
<1>3. waits' \in [Waits -> {"new", "pending", "resolved", "timedOut", "failed"}]
      /\ settingsAckReject' \in Waits \cup {Nothing}
  BY <1>1 DEF SignalsInv, TypeOK
<1>4. TypeOK'
  BY <1>1, <1>2, <1>3, Zenon DEF SignalsInv, TypeOK
<1>5. ListenersTracked'
  BY <1>1 DEF SignalsInv, TypeOK, ListenersTracked
<1>6. RoundTrip' /\ (toClient \in Seq(Acks))'
  BY <1>1 DEF SignalsInv, RoundTrip, Acks
<1>7. NoneFailed' /\ SoleIsLatest'
  BY <1>1 DEF SignalsInv, TypeOK, NoneFailed, SoleIsLatest
<1> QED BY <1>4, <1>5, <1>6, <1>7 DEF SignalsInv

LEMMA PeerInv ==
  ASSUME SignalsInv, PeerEcho \/ PeerAcknowledge
  PROVE  SignalsInv'
<1>1. UNCHANGED <<closed, reading, failed, pings, waits, timers, settingsAckReject,
                  onPingAck, onSettingsAck, overlapped>>
  BY DEF PeerEcho, PeerAcknowledge, promises, listeners
<1>2. /\ echoed \subseteq echoed' /\ echoed' \subseteq OpaqueData
      /\ toPeer' \in Seq(OpaqueData) /\ settingsAcked' \in BOOLEAN
      /\ \E a \in Acks' : toClient' = Append(toClient, a)
  <2>1. CASE PeerEcho
    <3>1. Head(toPeer) \in OpaqueData /\ Tail(toPeer) \in Seq(OpaqueData)
      BY <2>1 DEF PeerEcho, SignalsInv, TypeOK
    <3>2. echoed' = echoed \cup {Head(toPeer)} /\ toPeer' = Tail(toPeer)
          /\ toClient' = Append(toClient, PingAck(Head(toPeer))) /\ settingsAcked' = settingsAcked
      BY <2>1 DEF PeerEcho
    <3>3. PingAck(Head(toPeer)) \in Acks'
      BY <3>2 DEF Acks
    <3> QED BY <3>1, <3>2, <3>3 DEF SignalsInv, TypeOK
  <2>2. CASE PeerAcknowledge
    BY <2>2 DEF PeerAcknowledge, SignalsInv, TypeOK, Acks
  <2> QED BY <2>1, <2>2
<1>3. toClient' \in Seq(Acks')
  <2>1. toClient \in Seq(Acks) /\ Acks \subseteq Acks'
    BY <1>2 DEF SignalsInv, Acks
  <2>2. toClient \in Seq(Acks')
    BY <2>1
  <2> QED BY <1>2, <2>2
<1>4. TypeOK'
  BY <1>1, <1>2, Zenon DEF SignalsInv, TypeOK
<1>5. ListenersTracked' /\ RoundTrip' /\ NoneFailed' /\ SoleIsLatest'
  BY <1>1, <1>2 DEF SignalsInv, TypeOK, ListenersTracked, RoundTrip, NoneFailed, SoleIsLatest
<1> QED BY <1>3, <1>4, <1>5 DEF SignalsInv

LEMMA Invariance == Spec => []SignalsInv
<1>1. SignalsInv /\ [Next]_vars => SignalsInv'
  <2> SUFFICES ASSUME SignalsInv, [Next]_vars PROVE SignalsInv'
    OBVIOUS
  <2>1. CASE Close
    <3>1. closed' = TRUE /\ UNCHANGED <<reading, failed, pings, waits, timers, settingsAckReject,
            onPingAck, onSettingsAck, toPeer, toClient, settingsAcked, echoed, overlapped>>
      BY <2>1 DEF Close, promises, listeners, wire
    <3>2. TypeOK'
      BY <3>1, Zenon DEF SignalsInv, TypeOK
    <3> QED BY <3>1, <3>2 DEF SignalsInv, ListenersTracked, RoundTrip, Acks, NoneFailed, SoleIsLatest
  <2>2. CASE UNCHANGED vars
    <3>1. UNCHANGED <<closed, reading, failed, pings, waits, timers, settingsAckReject,
            onPingAck, onSettingsAck, toPeer, toClient, settingsAcked, echoed, overlapped>>
      BY <2>2 DEF vars, promises, listeners, wire
    <3>2. TypeOK'
      BY <3>1, Zenon DEF SignalsInv, TypeOK
    <3> QED BY <3>1, <3>2 DEF SignalsInv, ListenersTracked, RoundTrip, Acks, NoneFailed, SoleIsLatest
  <2> QED BY <2>1, <2>2, PingInv, PingRefusedInv, WaitInv, TimeOutInv, ReceiveInv,
             HandleFatalInv, PeerInv DEF Next
<1> QED BY <1>1, InitInv, PTL DEF Spec

-----------------------------------------------------------------------------
\* The promises, timers and listeners of ping() and waitForSettingsAck() keep their shape.
THEOREM SignalsTypeCorrect == Spec => []TypeOK
<1>1. SignalsInv => TypeOK
  BY DEF SignalsInv
<1> QED BY <1>1, Invariance, PTL

\* No listener or timer leaks: each is there exactly as long as what it serves, whatever
\* the order in which ACKs, timers, close() and a fatal error come.
THEOREM ListenersNeverLeak == Spec => []ListenersTracked
<1>1. SignalsInv => ListenersTracked
  BY DEF SignalsInv
<1> QED BY <1>1, Invariance, PTL

\* ping() never resolves on an ACK of other opaque data, however many PINGs there are.
THEOREM PingsMatch == Spec => []RoundTrip
<1>1. SignalsInv => RoundTrip
  BY DEF SignalsInv
<1> QED BY <1>1, Invariance, PTL

\* No fatal error is masked behind the timeout of a wait that has been alone from its
\* beginning, whatever waits, timers and ACKs there were before it.
THEOREM FatalReachesSoleWait == Spec => SoleWaitUnmasked
<1>1. SignalsInv /\ [Next]_vars
        => [failed' /\ ~failed => \A w \in Waits \ overlapped : waits'[w] # "pending"]_vars
  <2> SUFFICES ASSUME SignalsInv, Next, failed', ~failed, NEW w \in Waits \ overlapped
               PROVE  waits'[w] # "pending"
    OBVIOUS
  <2>1. HandleFatal
    BY DEF Next, Ping, PingRefused, Wait, TimeOut, Receive, Close, PeerEcho, PeerAcknowledge
  <2>2. waits' = [v \in Waits |-> IF v = settingsAckReject /\ waits[v] = "pending"
                                    THEN "failed" ELSE waits[v]]
    BY <2>1 DEF HandleFatal
  <2>3. waits[w] = "pending" => settingsAckReject = w
    BY DEF SignalsInv, SoleIsLatest
  <2> QED BY <2>2, <2>3
<1> QED BY <1>1, Invariance, PTL DEF Spec, SoleWaitUnmasked
=============================================================================
