------------------------------ MODULE MCSignals ------------------------------
(* Signals on a small instance.  Opaque data are not symmetric with Nothing, and *)
(* liveness is checked: no symmetry. *)
EXTENDS Signals
=============================================================================
