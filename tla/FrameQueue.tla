----------------------------- MODULE FrameQueue -----------------------------
(***************************************************************************)
(* What the frame reader promises, with no octets: the frames that the     *)
(* peer writes are delivered in order, each once and whole, until reading  *)
(* stops; and unless it stops, all of them are.                            *)
(***************************************************************************)
EXTENDS Naturals, Sequences

CONSTANTS Frames, MaxFrames    \* what may be written, and a bound on how much

VARIABLES
  written, delivered,   \* sequences of frames
  stopped

Init == written = <<>> /\ delivered = <<>> /\ stopped = FALSE

Write ==
  /\ \E f \in Frames : written' = Append(written, f)
  /\ UNCHANGED <<delivered, stopped>>

\* The reader may stop with the frame it delivers.
Deliver ==
  /\ ~stopped /\ Len(delivered) < Len(written)
  /\ delivered' = Append(delivered, written[Len(delivered) + 1])
  /\ stopped' \in BOOLEAN
  /\ UNCHANGED written

Stop == stopped' = TRUE /\ UNCHANGED <<written, delivered>>

Next == Write \/ Deliver \/ Stop

SafeSpec == Init /\ [][Next]_<<written, delivered, stopped>>

\* Every frame is delivered, unless the reader stops.
AllDelivered ==
  \A n \in 1..MaxFrames : Len(written) >= n ~> Len(delivered) >= n \/ stopped
=============================================================================
