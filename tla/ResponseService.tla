-------------------------- MODULE ResponseService --------------------------
(***************************************************************************)
(* What the receiving half promises a caller of request(), with no frames: *)
(* the promise is settled once, with the response the peer finished and    *)
(* nothing else, or with an error when the peer gave up the stream or the  *)
(* connection was lost; and it is settled in the end.                      *)
(***************************************************************************)
CONSTANTS Requests, Responses

VARIABLES
  outcome,    \* Requests -> what the promise is
  finished    \* Requests -> the set of responses the peer has finished: at most one

vars == <<outcome, finished>>

New == [kind |-> "new"]
Pending == [kind |-> "pending"]
Rejected == [kind |-> "rejected"]

Init ==
  /\ outcome = [r \in Requests |-> New]
  /\ finished = [r \in Requests |-> {}]

Ask(r) ==
  /\ outcome[r] = New
  /\ outcome' = [outcome EXCEPT ![r] = Pending]
  /\ UNCHANGED finished

\* The last frame of a response settles the promise in the same turn.
Answer(r, response) ==
  /\ outcome[r] = Pending
  /\ finished' = [finished EXCEPT ![r] = {response}]
  /\ outcome' = [outcome EXCEPT ![r] = response]

\* A reset fails one request; GOAWAY or a lost connection may fail several.
Fail(S) ==
  /\ \A r \in S : outcome[r] = Pending
  /\ outcome' = [r \in Requests |-> IF r \in S THEN Rejected ELSE outcome[r]]
  /\ UNCHANGED finished

Next ==
  \/ \E r \in Requests : Ask(r) \/ \E response \in Responses : Answer(r, response)
  \/ \E S \in SUBSET Requests : Fail(S)

Settled == \A r \in Requests : outcome[r] = Pending ~> outcome[r] # Pending

SafeSpec == Init /\ [][Next]_vars
Spec == SafeSpec /\ Settled
=============================================================================
