--------------------------- MODULE RequestService ---------------------------
(***************************************************************************)
(* What an Http2Connection promises its callers, with no streams and no    *)
(* slots: a request is put on the wire at most once and only while the     *)
(* connection accepts work; it has one outcome and never another; only a   *)
(* request on the wire can be served or reset; and every request accepted  *)
(* has an outcome in the end.                                              *)
(***************************************************************************)
CONSTANTS Requests, Refusals

\* Served and reset are the peer's answers; a refusal needs no answer.
Outcomes == {"served", "reset"} \cup Refusals

VARIABLES
  accepting,   \* the connection takes new work
  status,      \* Requests -> "new", "pending" or an outcome
  onWire       \* requests whose HEADERS were written

vars == <<accepting, status, onWire>>

Init ==
  /\ accepting = TRUE
  /\ status = [r \in Requests |-> "new"]
  /\ onWire = {}

Submit(r) ==
  /\ accepting /\ status[r] = "new"
  /\ status' = [status EXCEPT ![r] = "pending"]
  /\ UNCHANGED <<accepting, onWire>>

Refuse(r) ==
  /\ ~accepting /\ status[r] = "new"
  /\ \E o \in Refusals : status' = [status EXCEPT ![r] = o]
  /\ UNCHANGED <<accepting, onWire>>

Transmit(r) ==
  /\ accepting /\ status[r] = "pending" /\ r \notin onWire
  /\ onWire' = onWire \cup {r}
  /\ UNCHANGED <<accepting, status>>

\* Shutting down, or an answer, settles any number of requests at once.
Settle(S, stop) ==
  /\ \A r \in S : status[r] = "pending"
  /\ status' \in [Requests -> {"new", "pending"} \cup Outcomes]
  /\ \A r \in Requests \ S : status'[r] = status[r]
  /\ \A r \in S :
       status'[r] \in IF r \in onWire THEN Outcomes ELSE Refusals
  /\ accepting' = (accepting /\ ~stop)
  /\ UNCHANGED onWire

Next ==
  \/ \E r \in Requests : Submit(r) \/ Refuse(r) \/ Transmit(r)
  \/ \E S \in SUBSET Requests, stop \in BOOLEAN : Settle(S, stop)

\* Every accepted request is settled.
Answered == \A r \in Requests : status[r] = "pending" ~> status[r] \in Outcomes

SafeSpec == Init /\ [][Next]_vars

Spec == SafeSpec /\ Answered
=============================================================================
