----------------------------- MODULE PacketFrames -----------------------------
(***************************************************************************)
(* The arithmetic of a packet that is cut into frames: PacketFrameFactory  *)
(* of Interfaces.scala, and the segment a packet of a message carries.     *)
(***************************************************************************)
EXTENDS Integers

CONSTANTS
  FRAME,    \* bytes of a frame (64)
  HEADER,   \* NetworkCfg.headerBytes (114)
  PAYLOAD   \* NetworkCfg.payloadBytes (1408)

\* The header fills the first frame and ends in the second.
ASSUME FramesAssumption ==
  /\ FRAME \in Nat \ {0} /\ HEADER \in Nat /\ PAYLOAD \in Nat \ {0}
  /\ FRAME < HEADER /\ HEADER < 2 * FRAME

\* seg_len of a packet when remaining bytes of the message are left
SegLen(remaining) == IF remaining > PAYLOAD THEN PAYLOAD ELSE remaining

PacketBytes(seg_len) == seg_len + HEADER

LastFrame(off, seg_len) == off + FRAME >= HEADER + seg_len

PayloadOffset(off) == IF off <= FRAME THEN 0 ELSE off - HEADER

\* (Negative where the 32 bits wrap: a frame behind the end of the packet.)
PayloadBytes(off, seg_len) ==
  LET bytes == IF off = 0 THEN 0 ELSE IF off = FRAME THEN 2 * FRAME - HEADER ELSE FRAME
  IN  IF PayloadOffset(off) + bytes > seg_len THEN seg_len - PayloadOffset(off)
      ELSE bytes

\* The offsets of the frames of a packet.
FrameOffsets(seg_len) == {off \in 0..PacketBytes(seg_len) - 1 : off % FRAME = 0}

\* The bytes of the FRAME bytes read from the payload RAM that reach the
\* receiver: wireFrame puts the top of the payload behind the header in the
\* second frame, and PPingressPayload takes the top of that; of any other
\* frame it takes the bottom.
CarriedBytes(off, seg_len) ==
  LET first == IF off = FRAME THEN FRAME - PayloadBytes(off, seg_len) ELSE 0
  IN  first .. first + PayloadBytes(off, seg_len) - 1
=============================================================================
