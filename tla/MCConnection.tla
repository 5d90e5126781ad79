---------------------------- MODULE MCConnection ----------------------------
(* Connection on a small instance: see the cfg files for the constants. *)
EXTENDS Connection, TLC

CONSTANTS r1, r2, r3

\* Requests are alike, except those that are bad.
MCSymmetry == Permutations(Requests \ BadRequests)
=============================================================================
