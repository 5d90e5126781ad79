----------------------------- MODULE FrameReader -----------------------------
(***************************************************************************)
(* readOneFrame and readLoop of src/connection.ts: frames are cut out of   *)
(* the octets that transport.read() returns, which may be any piece of     *)
(* what the peer wrote: half a frame header, several frames, or a frame    *)
(* and a half.  The codec is a parameter; Wire gives it src/frame's.       *)
(***************************************************************************)
EXTENDS Integers, Sequences

CONSTANTS
  Frames,            \* the frames the peer may write
  MaxFrames,         \* bound: how many it writes
  HeaderLength,      \* FRAME_HEADER_LENGTH
  Octets(_),         \* the octets of a frame
  Total(_),          \* of the frame that these HeaderLength octets begin, its length
  Parse(_),          \* parseFrame, of the octets of one frame
  Bad                \* what it is when it throws

\* The codec agrees with the peer on what the octets of a frame are; a frame may be
\* one that the codec refuses.
ASSUME CodecAssumption ==
  /\ HeaderLength \in Nat \ {0} /\ MaxFrames \in Nat
  /\ \A f \in Frames :
       /\ Octets(f) \in Seq(Nat) /\ Len(Octets(f)) >= HeaderLength
       /\ Total(SubSeq(Octets(f), 1, HeaderLength)) = Len(Octets(f))
       /\ Parse(Octets(f)) \in {f, Bad}

VARIABLES
  written,     \* the frames the peer has written
  inTransit,   \* octets not yet returned by transport.read()
  held,        \* readBuffer, or the octets that readOneFrame has gathered so far
  delivered,   \* the frames dispatched
  closed,      \* the connection's flag
  reading      \* the read loop has not returned

readerVars == <<written, inTransit, held, delivered, closed, reading>>

ReaderInit ==
  /\ written = <<>> /\ delivered = <<>>
  /\ inTransit = <<>> /\ held = <<>>
  /\ closed = FALSE /\ reading = TRUE

\* The octets of a sequence of frames.
OctetsOf(frames) ==
  LET upTo[i \in 0..Len(frames)] ==
        IF i = 0 THEN <<>> ELSE upTo[i - 1] \o Octets(frames[i])
  IN upTo[Len(frames)]

PeerWrite(frame) ==
  /\ Len(written) < MaxFrames
  /\ written' = Append(written, frame)
  /\ inTransit' = inTransit \o Octets(frame)
  /\ UNCHANGED <<held, delivered, closed, reading>>

\* What readOneFrame has is the octets of a frame, and perhaps more.
HeldTotal == Total(SubSeq(held, 1, HeaderLength))
HasFrame == Len(held) >= HeaderLength /\ Len(held) >= HeldTotal

\* A read that does not keep what was gathered before it.
ReadChunkFresh(n) ==
  /\ reading /\ ~HasFrame /\ n \in 1..Len(inTransit)
  /\ held' = SubSeq(inTransit, 1, n)
  /\ inTransit' = SubSeq(inTransit, n + 1, Len(inTransit))
  /\ UNCHANGED <<written, delivered, closed, reading>>

\* One transport.read() in either loop of readOneFrame returns n octets.
ReadChunk(n) ==
  /\ reading /\ ~HasFrame /\ n \in 1..Len(inTransit)
  /\ held' = held \o SubSeq(inTransit, 1, n)
  /\ inTransit' = SubSeq(inTransit, n + 1, Len(inTransit))
  /\ UNCHANGED <<written, delivered, closed, reading>>

Whole == SubSeq(held, 1, HeldTotal)
Rest == SubSeq(held, HeldTotal + 1, Len(held))

\* CutFrame that waits for one octet past the frame.
CutFrameLate == reading /\ HasFrame /\ Rest # <<>> /\ held' = Rest

\* A whole frame is cut off; the octets past it are kept in readBuffer.
CutFrame == reading /\ HasFrame /\ held' = Rest

\* It is dispatched.  The loop goes on unless dispatch throws (handleFatal) or the
\* connection was closed meanwhile.
Deliver ==
  /\ CutFrame /\ Parse(Whole) # Bad
  /\ delivered' = Append(delivered, Parse(Whole))
  /\ \E throws \in BOOLEAN : closed' = (closed \/ throws)
  /\ reading' = ~closed'
  /\ UNCHANGED <<written, inTransit>>

\* parseFrame throws, and the error ends the loop (handleFatal).
RefuseFrame ==
  /\ CutFrame /\ Parse(Whole) = Bad
  /\ closed' = TRUE /\ reading' = FALSE
  /\ UNCHANGED <<written, inTransit, delivered>>

\* A rejected read that ends the loop and leaves the connection open.
ReadFailsQuietly ==
  /\ reading /\ ~HasFrame
  /\ reading' = FALSE
  /\ UNCHANGED <<written, inTransit, held, delivered, closed>>

\* transport.read() rejects: handleFatal, and the loop returns.
ReadFails ==
  /\ reading /\ ~HasFrame
  /\ closed' = TRUE /\ reading' = FALSE
  /\ UNCHANGED <<written, inTransit, held, delivered>>

\* close() by the application, which leaves the loop to notice.
CloseReader ==
  /\ ~closed /\ closed' = TRUE
  /\ UNCHANGED <<written, inTransit, held, delivered, reading>>

ReaderNext ==
  \/ \E frame \in Frames : PeerWrite(frame)
  \/ \E n \in 1..Len(inTransit) : ReadChunk(n)
  \/ Deliver
  \/ RefuseFrame
  \/ ReadFails
  \/ CloseReader

\* The read loop goes on when it can, and the transport delivers what was written.  As
\* the octets are finitely many, that some read is taken is that one takes the last of them.
ReaderFairness ==
  /\ WF_readerVars(ReadChunk(Len(inTransit)))
  /\ WF_held(CutFrame)

ReaderSpec == ReaderInit /\ [][ReaderNext]_readerVars

-----------------------------------------------------------------------------
\* Every variable has its shape; the loop ends only with the connection.
ReaderTypeOK ==
  /\ written \in Seq(Frames) /\ delivered \in Seq(Frames)
  /\ Len(delivered) <= Len(written)
  /\ inTransit \in Seq(Nat) /\ held \in Seq(Nat)
  /\ closed \in BOOLEAN /\ reading \in BOOLEAN
  /\ reading \/ closed

\* What the reader holds and what is still on its way are together the octets of the
\* frames not yet delivered, from the first octet of the first one: no octet is lost,
\* kept twice or taken for the start of a frame, however the reads cut them.
NothingLost ==
  reading =>
    held \o inTransit = OctetsOf(SubSeq(written, Len(delivered) + 1, Len(written)))

\* The abstract promise: frames come out as they went in, in order, until the loop ends,
\* and (liveness) every one does unless it ends.
Queue == INSTANCE FrameQueue WITH stopped <- ~reading

ImplementsFrameQueue == Queue!SafeSpec /\ Queue!AllDelivered
=============================================================================
