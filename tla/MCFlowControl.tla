--------------------------- MODULE MCFlowControl ---------------------------
(* FlowControl on a small instance: see the cfg files for the constants. *)
EXTENDS FlowControl

\* A peer that closes every stream window, and one that grants more than the
\* default together with a larger MAX_FRAME_SIZE.
MCSettingsFrames ==
  {[initialWindowSize |-> 0],
   [initialWindowSize |-> 2, maxFrameSize |-> 2]}
=============================================================================
