---------------------------- MODULE BodyTransfer ----------------------------
(***************************************************************************)
(* What the sending half of a connection promises for request bodies, with *)
(* no windows and no frames: octets arrive in order and only octets of the *)
(* body, the end is announced with or after the last one, and every body   *)
(* arrives whole unless its stream is closed first.                        *)
(***************************************************************************)
EXTENDS Integers

CONSTANTS Ids, MaxBody

VARIABLES
  body,      \* octets of each request's body, 0 before the request
  arrived,   \* octets of it that have reached the peer
  whole,     \* ids whose end the peer has seen
  closed     \* ids the client has closed

vars == <<body, arrived, whole, closed>>

Init ==
  /\ body = [s \in Ids |-> 0]
  /\ arrived = [s \in Ids |-> 0]
  /\ whole = {}
  /\ closed = {}

Begin(s, n) ==
  /\ body[s] = 0 /\ n > 0
  /\ body' = [body EXCEPT ![s] = n]
  /\ UNCHANGED <<arrived, whole, closed>>

\* Octets already written keep arriving after the stream is closed.
Arrive(s, n) ==
  /\ s \notin whole /\ n > 0
  /\ arrived[s] + n <= body[s]
  /\ arrived' = [arrived EXCEPT ![s] = @ + n]
  /\ whole' = IF arrived[s] + n = body[s] THEN whole \cup {s} ELSE whole
  /\ UNCHANGED <<body, closed>>

Close(s) ==
  /\ body[s] > 0
  /\ closed' = closed \cup {s}
  /\ UNCHANGED <<body, arrived, whole>>

Next ==
  \E s \in Ids :
    \/ \E n \in 1..MaxBody : Begin(s, n) \/ Arrive(s, n)
    \/ Close(s)

\* A body that has begun keeps arriving while its stream is open.
Progress(s) == s \notin closed /\ \E n \in 1..MaxBody : Arrive(s, n)

SafeSpec == Init /\ [][Next]_vars
Spec == SafeSpec /\ \A s \in Ids : WF_vars(Progress(s))
=============================================================================
