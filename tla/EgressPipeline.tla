---------------------------- MODULE EgressPipeline ----------------------------
(***************************************************************************)
(* The part of PPegressStages (PacketPipeline.scala) behind the header     *)
(* constructor: PPegressDupe makes a frame for each 64 bytes of a packet,  *)
(* PPegressPayload reads the frame's payload from RAM, PPegressXmit puts   *)
(* it on the wire.  One action is one clock cycle.                         *)
(***************************************************************************)
EXTENDS PacketFrames, Sequences

CONSTANTS
  SIZE,       \* buff_size of the messages
  LINE,       \* CacheCfg.lineSize
  DEPTH,      \* entries of pending (8)
  MaxPackets  \* bound: packets in the pipeline

ASSUME EgressAssumption ==
  /\ SIZE \in Nat \ {0}
  /\ LINE \in Nat \ {0} /\ DEPTH \in Nat \ {0} /\ MaxPackets \in Nat

VARIABLES
  dupe_0, dupe_1,   \* PPegressDupe: the packet, its newest frame
  frame_off,
  pay_0, pending, pay_1,   \* PPegressPayload; a payload is the address it was read from
  requests,   \* addresses of reads the payload RAM has not answered
  xmit,       \* PPegressXmit
  next,       \* remaining of the packet that PPegressCtor offers next
  awaited,    \* history: remaining of packets whose last frame is not yet sent
  wire        \* history: offsets sent of the packet that is on the wire

stages == <<dupe_0, dupe_1, frame_off, pay_0, pending, pay_1, requests, xmit>>
vars == <<stages, next, awaited, wire>>

AtMostOne(S) == {<<>>} \cup {<<x>> : x \in S}
Least(a, b) == IF a < b THEN a ELSE b

\* A packet is what the control block and the trigger say: remaining, the bytes
\* of the message not yet sent before it.  stalled is history: a frame of it had
\* to wait in front of dupe_1.  (All messages use one cache line, the address 0
\* is its start.)
Remaining == {SIZE - k * PAYLOAD : k \in {k \in 0..SIZE : k * PAYLOAD < SIZE}}
Packets == [remaining : Remaining, stalled : BOOLEAN]

\* The packet after one with this remaining: of the same message, or the next.
Following(r) == IF r > PAYLOAD THEN r - PAYLOAD ELSE SIZE

Segment(packet) == SegLen(packet.remaining)

\* data.offset, segmentOffset
Offset(packet) == SIZE - packet.remaining

\* Bound: the counter runs on, behind every packet nothing depends on it.
MaxOffset == 2 * FRAME + PAYLOAD

\* Mutant: the segment's place in the message is forgotten.
FinalOffsetOfSegment(frame) == PayloadOffset(frame.off) % LINE

\* finalOffset
FinalOffset(frame) ==
  (Offset(frame.packet) + PayloadOffset(frame.off)) % LINE

-----------------------------------------------------------------------------
\* enq.ready of the Queue(1, pipe = true)s and of pending, from the wire back.
XmitReady(tready) == xmit = <<>> \/ tready
Pay1Ready(tready) == pay_1 = <<>> \/ XmitReady(tready)

\* pending.deq.ready && pending.deq.valid
PendingFires(tready, answer) ==
  pending # <<>> /\ requests # <<>> /\ answer /\ Pay1Ready(tready)

PendingReady(tready, answer) ==
  Len(pending) < DEPTH \/ PendingFires(tready, answer)

Pay0Ready(tready, answer, accept) ==
  pay_0 = <<>> \/ (PendingReady(tready, answer) /\ accept)

Dupe1Ready(tready, answer, accept) ==
  dupe_1 = <<>> \/ Pay0Ready(tready, answer, accept)

\* Mutant: a frame that ends where the packet ends is not the last.
LastBehind ==
  dupe_0 # <<>> /\ frame_off > PacketBytes(Segment(dupe_0[1])) - FRAME

Last == dupe_0 # <<>> /\ frame_off >= PacketBytes(Segment(dupe_0[1])) - FRAME

Dupe0Ready(tready, answer, accept) ==
  dupe_0 = <<>> \/ (Dupe1Ready(tready, answer, accept) /\ Last)

\* Mutant: the RAM's answer is taken also when pay_1 has no room for it.
AnswerTakenAlways(tready, answer) == answer /\ requests # <<>>

\* ram_read_data.fire
AnswerTaken(tready, answer) == PendingFires(tready, answer)

\* Mutant: the offset is reset when a packet leaves.
NextOffsetAfterLast(accepted, removed) ==
  IF removed THEN 0 ELSE Least(frame_off + FRAME, MaxOffset)

\* frame_off := Mux(io.packet_in.fire, 0.U, frame_off + 64.U)
NextOffset(accepted, removed) ==
  IF accepted THEN 0 ELSE Least(frame_off + FRAME, MaxOffset)

-----------------------------------------------------------------------------
\* The frame of the packet in dupe_0 at the present offset.
NewFrame ==
  [i \in DOMAIN dupe_0 |-> [packet |-> dupe_0[i], off |-> frame_off]]

\* The frame that gets the RAM's oldest answer, the bytes from that address.
Filled ==
  <<[packet |-> pending[1].packet, off |-> pending[1].off, payload |-> requests[1]]>>

\* A packet that stays in dupe_0, with or without a frame leaving.
Kept(dupe1Ready) ==
  IF dupe1Ready THEN dupe_0
  ELSE [i \in DOMAIN dupe_0 |-> [dupe_0[i] EXCEPT !.stalled = TRUE]]

Ends(frame) == LastFrame(frame.off, Segment(frame.packet))

\* What the wire has seen after this cycle.
Transmit(tready, new) ==
  IF xmit = <<>> \/ ~tready
  THEN awaited' = awaited \o new /\ UNCHANGED wire
  ELSE /\ awaited' = (IF Ends(xmit[1]) THEN Tail(awaited) ELSE awaited) \o new
       /\ wire' = IF Ends(xmit[1]) THEN {} ELSE wire \cup {xmit[1].off}

\* One cycle: PPegressCtor offers a packet, the RAM accepts a read and has an
\* answer, and the network is ready, or not.  (newCacheFree is never valid.)
Cycle(offer, accept, answer, tready) ==
  LET pendingFires == PendingFires(tready, answer)
      pay0Fires    == pay_0 # <<>> /\ PendingReady(tready, answer) /\ accept
      dupe1Ready   == Dupe1Ready(tready, answer, accept)
      dupe0Ready   == Dupe0Ready(tready, answer, accept)
      accepted     == offer /\ dupe0Ready /\ Len(awaited) < MaxPackets
  IN
  /\ dupe_0' = IF accepted THEN <<[remaining |-> next, stalled |-> FALSE]>>
               ELSE IF dupe0Ready THEN <<>> ELSE Kept(dupe1Ready)
  /\ next' = IF accepted THEN Following(next) ELSE next
  /\ frame_off' = NextOffset(accepted, dupe1Ready /\ Last)
  /\ dupe_1' = IF dupe1Ready THEN NewFrame ELSE dupe_1
  /\ pay_0' = IF Pay0Ready(tready, answer, accept) THEN dupe_1 ELSE pay_0
  /\ pending' = (IF pendingFires THEN Tail(pending) ELSE pending)
                  \o (IF pay0Fires THEN pay_0 ELSE <<>>)
  /\ requests' = (IF AnswerTaken(tready, answer) THEN Tail(requests) ELSE requests)
                   \o (IF pay0Fires THEN <<FinalOffset(pay_0[1])>> ELSE <<>>)
  /\ pay_1' = IF ~Pay1Ready(tready) THEN pay_1
              ELSE IF pendingFires THEN Filled ELSE <<>>
  /\ xmit' = IF XmitReady(tready) THEN pay_1 ELSE xmit
  /\ Transmit(tready, IF accepted THEN <<next>> ELSE <<>>)

Init ==
  /\ dupe_0 = <<>> /\ dupe_1 = <<>> /\ frame_off = 0
  /\ pay_0 = <<>> /\ pending = <<>> /\ pay_1 = <<>> /\ requests = <<>>
  /\ xmit = <<>> /\ next = SIZE /\ awaited = <<>> /\ wire = {}

Next ==
  \E offer, accept, answer, tready \in BOOLEAN :
    Cycle(offer, accept, answer, tready)

Spec == Init /\ [][Next]_vars

\* The RAM and the network do not refuse for ever; that they agree in a cycle
\* is not assumed.
FairSpec ==
  /\ Spec
  /\ WF_vars(\E o, b, c \in BOOLEAN : Cycle(o, TRUE, b, c))
  /\ WF_vars(\E o, a, c \in BOOLEAN : Cycle(o, a, TRUE, c))
  /\ WF_vars(\E o, a, b \in BOOLEAN : Cycle(o, a, b, TRUE))

-----------------------------------------------------------------------------
FrameType == [packet : Packets, off : 0..MaxOffset]

\* Every register holds a value of its type; pending does not overflow.
TypeOK ==
  /\ dupe_0 \in AtMostOne(Packets)
  /\ frame_off \in 0..MaxOffset
  /\ dupe_1 \in AtMostOne(FrameType) /\ pay_0 \in AtMostOne(FrameType)
  /\ pending \in Seq(FrameType) /\ Len(pending) <= DEPTH
  /\ requests \in Seq(0..LINE - 1)
  /\ pay_1 \in AtMostOne([packet : Packets, off : 0..MaxOffset,
                          payload : 0..LINE - 1])

\* Under any back pressure the wire carries the packets one after the other, in
\* the order they were accepted, each up to a last frame: none is lost whole,
\* ended twice or mixed with another ("Only remove the element from the first
\* stage if we have sent all the frames").
PacketsInOrder ==
  xmit # <<>> => awaited # <<>> /\ xmit[1].packet.remaining = awaited[1]

\* The addresses at which the message bytes of a frame are cached: "The cache
\* is a circular buffer within individual cache lines".
Cached(frame) ==
  LET packet == frame.packet
      first  == Offset(packet) + PayloadOffset(frame.off)
  IN  {b % LINE :
         b \in first .. first + PayloadBytes(frame.off, Segment(packet)) - 1}

Carried(frame) ==
  {frame.payload + b : b \in CarriedBytes(frame.off, Segment(frame.packet))}

\* The payload ends before the line does (the RAM is read on into the next).
WithinLine(frame) ==
  LET first == (Offset(frame.packet) + PayloadOffset(frame.off)) % LINE
  IN  first + PayloadBytes(frame.off, Segment(frame.packet)) <= LINE

InPacket(frame) == frame.off < PacketBytes(Segment(frame.packet))

\* A frame carries the bytes of its own place in the message, whatever the
\* latency of the RAM and the back pressure, so that the RAM's answers are
\* paired with the frames that asked; the second frame excepted.
OwnPayload ==
  xmit # <<>> /\ InPacket(xmit[1]) /\ WithinLine(xmit[1]) /\ xmit[1].off # FRAME
    => Carried(xmit[1]) = Cached(xmit[1])

\* So does the second frame ("The second frame has payload which starts at
\* offset 0 from the segment offset").
SecondFramePayload ==
  xmit # <<>> /\ WithinLine(xmit[1]) /\ xmit[1].off = FRAME
    => Carried(xmit[1]) = Cached(xmit[1])

Complete(frame) == wire \cup {frame.off} = FrameOffsets(Segment(frame.packet))

\* When the last frame of a packet comes, its frames were all sent ("When a
\* new frame is removed then increment the frame offset").
FramesComplete == xmit # <<>> /\ Ends(xmit[1]) => Complete(xmit[1])

\* They were, each exactly at its offset, if no frame of the packet had to wait
\* in front of dupe_1, however long the others waited behind it.
UnstalledComplete ==
  xmit # <<>> /\ Ends(xmit[1]) /\ ~xmit[1].packet.stalled => Complete(xmit[1])

LastLeaves == xmit # <<>> /\ Ends(xmit[1]) /\ awaited' # awaited /\ wire' = {}

\* What was accepted is put on the wire to its last frame.
Transmitted == <>[](awaited # <<>>) => []<><<LastLeaves>>_vars
=============================================================================
