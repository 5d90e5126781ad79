----------------------------- MODULE MCExchange -----------------------------
(* Exchange on a small instance: see the cfg files for the constants. *)
EXTENDS Exchange
=============================================================================
