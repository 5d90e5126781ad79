-------------------------------- MODULE Wire --------------------------------
(***************************************************************************)
(* The octets of a connection, in both directions: what the client writes  *)
(* (Outbound), how it cuts what it reads into frames (FrameReader, here    *)
(* with the codec of Frames), and how it reads the header blocks in them   *)
(* (HeaderBlocks).  The three share no variable, so the order of their     *)
(* steps does not matter; they are explored one after another and not in   *)
(* product: each starts only while the others are where they began.        *)
(***************************************************************************)
EXTENDS FrameReader, Outbound, HeaderBlocks

wireVars == <<readerVars, sent, blockVars>>

WireInit == ReaderInit /\ OutboundInit /\ BlocksInit

NoFrames == written = <<>> /\ ~closed
NoBlocks == fields = <<>> /\ block = <<>> /\ blocks = 0

WireNext ==
  \/ sent = Nothing /\ NoBlocks /\ ReaderNext /\ UNCHANGED <<sent, blockVars>>
  \/ NoFrames /\ NoBlocks /\ OutboundNext /\ UNCHANGED <<readerVars, blockVars>>
  \/ NoFrames /\ sent = Nothing /\ BlocksNext /\ UNCHANGED <<readerVars, sent>>

WireSpec == WireInit /\ [][WireNext]_wireVars /\ ReaderFairness
=============================================================================
