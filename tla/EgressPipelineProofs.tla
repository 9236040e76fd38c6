------------------------- MODULE EgressPipelineProofs -------------------------
(***************************************************************************)
(* The egress pipeline, proved for every size of frame, header, payload,   *)
(* message and cache line, every depth of pending and any back pressure.   *)
(*                                                                         *)
(* What the registers hold is seen as one line of frames, from the one on  *)
(* the wire to the one dupe_0 makes next.  A cycle takes frames off its    *)
(* front and puts them at its back; what happens between is only movement. *)
(* The last part is the arithmetic of PacketFrames.                        *)
(***************************************************************************)
EXTENDS EgressPipeline, SequenceTheorems, TLAPS

PaidType == [packet : Packets, off : 0..MaxOffset, payload : 0..LINE - 1]

\* Frames without their payload.
Bare(frames) == [i \in DOMAIN frames |-> [packet |-> frames[i].packet, off |-> frames[i].off]]

\* The line of frames, without and with the one dupe_0 makes next.
Frames == Bare(xmit) \o (Bare(pay_1) \o (pending \o (pay_0 \o dupe_1)))
Line == Frames \o NewFrame

\* The types TypeOK leaves out.
FullType ==
  /\ TypeOK /\ xmit \in AtMostOne(PaidType)
  /\ next \in Remaining /\ awaited \in Seq(Remaining)

\* Every read under way is for the frame at the same place in pending, and every
\* payload was read for the frame that has it.
Paired ==
  /\ Len(requests) = Len(pending)
  /\ \A i \in 1..Len(pending) : requests[i] = FinalOffset(pending[i])
  /\ pay_1 # <<>> => pay_1[1].payload = FinalOffset(pay_1[1])
  /\ xmit # <<>> => xmit[1].payload = FinalOffset(xmit[1])

\* Frames up to a last one are of one packet, and the packets are the awaited.
Accounted(line, packets) ==
  \E group \in [1..Len(line) -> Nat] :
    /\ line = <<>> => packets = <<>>
    /\ line # <<>> => group[1] = 1 /\ group[Len(line)] = Len(packets)
    /\ \A j \in 1..Len(line) :
         group[j] \in 1..Len(packets) /\ packets[group[j]] = line[j].packet.remaining
    /\ \A j \in 1..(Len(line) - 1) :
         group[j + 1] = IF Ends(line[j]) THEN group[j] + 1 ELSE group[j]
    /\ \A i, j \in 1..Len(line) : i <= j => group[i] <= group[j]

\* The frames before one of a packet that never stalled are next to each other.
Adjacent(line) ==
  \A j \in 1..(Len(line) - 1) :
    ~line[j + 1].packet.stalled =>
      IF Ends(line[j]) THEN line[j + 1].off = 0
      ELSE /\ ~line[j].packet.stalled
           /\ line[j].off + FRAME = line[j + 1].off

\* Its frames lie in the packet.
Aligned(line) ==
  \A j \in 1..Len(line) :
    ~line[j].packet.stalled => InPacket(line[j]) /\ line[j].off % FRAME = 0

Multiples(n) == {off \in 0..(n - 1) : off % FRAME = 0}

\* The wire has seen the frames before the first one in the line.
OnWire(line, sent) ==
  /\ line = <<>> => sent = {}
  /\ line # <<>> /\ ~line[1].packet.stalled => sent = Multiples(line[1].off)

\* A line that dupe_0 does not continue ends with a last frame.
Closed(line, open) == ~open /\ line # <<>> => Ends(line[Len(line)])

GoodLine(line, packets, sent, open) ==
  /\ Accounted(line, packets) /\ Adjacent(line) /\ Aligned(line)
  /\ OnWire(line, sent) /\ Closed(line, open)

EgressInv == FullType /\ Paired /\ GoodLine(Line, awaited, wire, dupe_0 # <<>>)

-----------------------------------------------------------------------------
\* Bytes of the message are left before each of its packets.
LEMMA RemainingPositive ==
  ASSUME NEW r \in Remaining
  PROVE  r \in 1..SIZE
<1>1. PICK k \in 0..SIZE : k * PAYLOAD < SIZE /\ r = SIZE - k * PAYLOAD
  BY DEF Remaining
<1>2. k * PAYLOAD \in Nat
  BY <1>1, EgressAssumption, FramesAssumption
<1>3. QED
  BY <1>1, <1>2, EgressAssumption

\* The next packet of the message, or the first of the next.
LEMMA FollowingRemaining ==
  ASSUME NEW r \in Remaining
  PROVE  Following(r) \in Remaining
<1> USE EgressAssumption, FramesAssumption
<1>1. PICK k \in 0..SIZE : k * PAYLOAD < SIZE /\ r = SIZE - k * PAYLOAD
  BY DEF Remaining
<1>2. SIZE \in Remaining
  <2>1. 0 \in 0..SIZE /\ 0 * PAYLOAD = 0
    OBVIOUS
  <2>2. QED
    BY <2>1 DEF Remaining
<1>3. CASE r > PAYLOAD
  <2>1. (k + 1) * PAYLOAD = k * PAYLOAD + PAYLOAD
    OBVIOUS
  <2>2. (k + 1) * PAYLOAD < SIZE
    BY <1>1, <1>3, <2>1
  <2>3. k + 1 <= (k + 1) * PAYLOAD
    OBVIOUS
  <2>4. k + 1 \in 0..SIZE
    BY <2>2, <2>3
  <2>5. Following(r) = SIZE - (k + 1) * PAYLOAD
    BY <1>1, <1>3, <2>1 DEF Following
  <2>6. QED
    BY <2>2, <2>4, <2>5 DEF Remaining
<1>4. CASE ~(r > PAYLOAD)
  BY <1>2, <1>4 DEF Following
<1>5. QED
  BY <1>3, <1>4

\* A step that stays below the next multiple of m adds to the remainder.
LEMMA RemainderAdds ==
  ASSUME NEW m \in Nat \ {0}, NEW a \in Int, NEW b \in Int, NEW r \in Int,
         a % m = r, r + b >= 0, r + b < m
  PROVE  (a + b) % m = r + b
<1> DEFINE q == a \div m
<1>1. a = m * q + r /\ q \in Int
  OBVIOUS
<1>2. ASSUME NEW p \in Int, NEW s \in 0..(m - 1) PROVE (m * p + s) % m = s
  OBVIOUS
<1> HIDE DEF q
<1>3. a + b = m * q + (r + b) /\ r + b \in 0..(m - 1)
  BY <1>1
<1>4. QED
  BY <1>1, <1>2, <1>3

\* The multiples of FRAME.
LEMMA NextMultiple ==
  ASSUME NEW off \in Nat, off % FRAME = 0
  PROVE  /\ (off + FRAME) % FRAME = 0
         /\ \A m \in (off + 1)..(off + FRAME - 1) : m % FRAME # 0
<1>1. FRAME \in Nat \ {0}
  BY FramesAssumption
<1>2. PICK q \in Int : off = FRAME * q + 0
  <2>1. off \div FRAME \in Int /\ off = FRAME * (off \div FRAME) + 0
    BY <1>1
  <2>2. QED
    BY <2>1
<1>3. ASSUME NEW p \in Int, NEW b \in 0..(FRAME - 1) PROVE (FRAME * p + b) % FRAME = b
  BY <1>1
<1>4. (off + FRAME) % FRAME = 0
  <2>1. off + FRAME = FRAME * (q + 1) + 0 /\ q + 1 \in Int /\ 0 \in 0..(FRAME - 1)
    BY <1>1, <1>2
  <2>2. (FRAME * (q + 1) + 0) % FRAME = 0
    BY <1>3, <2>1
  <2>3. QED
    BY <2>1, <2>2, Zenon
<1>5. ASSUME NEW b \in 1..(FRAME - 1) PROVE (off + b) % FRAME = b
  <2>1. off + b = FRAME * q + b /\ b \in 0..(FRAME - 1)
    BY <1>1, <1>2
  <2>2. (FRAME * q + b) % FRAME = b
    BY <1>3, <2>1
  <2>3. QED
    BY <2>1, <2>2, Zenon
<1>6. ASSUME NEW m \in (off + 1)..(off + FRAME - 1) PROVE m % FRAME # 0
  <2>1. PICK b \in 1..(FRAME - 1) : m = off + b
    <3>1. m - off \in 1..(FRAME - 1) /\ m = off + (m - off)
      BY <1>1
    <3>2. QED
      BY <3>1
  <2>2. QED
    BY <1>5, <2>1
<1>7. QED
  BY <1>4, <1>6

\* One more frame of a packet.
LEMMA MultiplesStep ==
  ASSUME NEW off \in Nat, off % FRAME = 0
  PROVE  Multiples(off + FRAME) = Multiples(off) \cup {off}
<1>1. FRAME \in Nat \ {0}
  BY FramesAssumption
<1>2. \A m \in (off + 1)..(off + FRAME - 1) : m % FRAME # 0
  BY NextMultiple
<1>3. ASSUME NEW m \in Multiples(off + FRAME) PROVE m \in Multiples(off) \cup {off}
  <2>1. m \in 0..((off + FRAME) - 1) /\ m % FRAME = 0
    BY Zenon DEF Multiples
  <2>2. m \in 0..(off - 1) \/ m = off
    BY <1>1, <1>2, <2>1
  <2>3. QED
    BY <2>1, <2>2 DEF Multiples
<1>4. ASSUME NEW m \in Multiples(off) \cup {off} PROVE m \in Multiples(off + FRAME)
  <2>1. (m \in 0..(off - 1) \/ m = off) /\ m % FRAME = 0
    BY DEF Multiples
  <2>2. m \in 0..((off + FRAME) - 1)
    BY <1>1, <2>1
  <2>3. QED
    BY <2>1, <2>2, Zenon DEF Multiples
<1>5. QED
  BY <1>3, <1>4

-----------------------------------------------------------------------------
\* A packet that follows the end of the line.
LEMMA LineBegins ==
  ASSUME NEW line \in Seq(FrameType), NEW packets \in Seq(Remaining), NEW sent,
         GoodLine(line, packets, sent, FALSE), NEW x \in FrameType,
         x.off = 0, x.packet.stalled = FALSE
  PROVE  GoodLine(Append(line, x), Append(packets, x.packet.remaining), sent, TRUE)
<1> DEFINE n == Len(line)
           more == Append(line, x)
           all == Append(packets, x.packet.remaining)
<1>0. x.packet.remaining \in Remaining
  BY DEF FrameType, Packets
<1>1. /\ n \in Nat /\ Len(more) = n + 1 /\ more[n + 1] = x /\ more # <<>>
      /\ \A j \in 1..n : more[j] = line[j]
      /\ (line = <<>>) <=> (n = 0)
  <2>1. n \in Nat /\ Len(more) = n + 1 /\ more[n + 1] = x
    OBVIOUS
  <2>2. \A j \in 1..n : more[j] = line[j]
    OBVIOUS
  <2>3. (line = <<>>) <=> (n = 0)
    BY EmptySeq
  <2>4. more # <<>>
    BY <2>1
  <2>5. QED
    BY <2>1, <2>2, <2>3, <2>4
<1>2. /\ Len(packets) \in Nat /\ Len(all) = Len(packets) + 1
      /\ all[Len(packets) + 1] = x.packet.remaining
      /\ \A j \in 1..Len(packets) : all[j] = packets[j]
      /\ packets = <<>> <=> Len(packets) = 0
  BY <1>0
<1> HIDE DEF more, all, n
<1>3. n # 0 => Ends(line[n])
  BY <1>1 DEF GoodLine, Closed, n
<1>4. Accounted(more, all)
  <2>1. PICK group \in [1..n -> Nat] :
          /\ line = <<>> => packets = <<>>
          /\ line # <<>> => group[1] = 1 /\ group[n] = Len(packets)
          /\ \A j \in 1..n :
               group[j] \in 1..Len(packets) /\ packets[group[j]] = line[j].packet.remaining
          /\ \A j \in 1..(n - 1) :
               group[j + 1] = IF Ends(line[j]) THEN group[j] + 1 ELSE group[j]
          /\ \A i, j \in 1..n : i <= j => group[i] <= group[j]
    BY DEF GoodLine, Accounted, n
  <2> DEFINE g == [j \in 1..(n + 1) |-> IF j = n + 1 THEN Len(packets) + 1 ELSE group[j]]
  <2>2. g \in [1..(n + 1) -> Nat] /\ g[n + 1] = Len(packets) + 1
    BY <1>1, <1>2
  <2>3. \A j \in 1..n : g[j] = group[j]
    BY <1>1
  <2> HIDE DEF g
  <2>4. g[1] = 1 /\ g[n + 1] = Len(all)
    BY <1>1, <1>2, <2>1, <2>2, <2>3
  <2>5. ASSUME NEW j \in 1..(n + 1)
        PROVE  g[j] \in 1..Len(all) /\ all[g[j]] = more[j].packet.remaining
    <3>1. CASE j = n + 1
      BY <1>1, <1>2, <2>1, <2>2, <2>3, <3>1
    <3>2. CASE j \in 1..n
      <4>1. /\ g[j] = group[j] /\ g[j] \in 1..Len(packets)
            /\ packets[g[j]] = line[j].packet.remaining /\ more[j] = line[j]
        BY <1>1, <2>1, <2>3, <3>2
      <4>2. all[g[j]] = packets[g[j]] /\ g[j] \in 1..Len(all)
        BY <1>2, <4>1
      <4>3. QED
        BY <4>1, <4>2
    <3>3. QED
      BY <1>1, <3>1, <3>2
  <2>6. ASSUME NEW j \in 1..n
        PROVE  g[j + 1] = IF Ends(more[j]) THEN g[j] + 1 ELSE g[j]
    <3>1. CASE j = n
      <4>1. g[j] = Len(packets) /\ g[j + 1] = Len(packets) + 1 /\ Ends(more[j])
        BY <1>1, <1>3, <2>1, <2>2, <2>3, <3>1
      <4>2. QED
        BY <4>1
    <3>2. CASE j # n
      <4>1. j \in 1..(n - 1) /\ j + 1 \in 1..n
        BY <1>1, <3>2
      <4>2. g[j] = group[j] /\ g[j + 1] = group[j + 1] /\ more[j] = line[j]
        BY <1>1, <2>3, <4>1
      <4>3. QED
        BY <2>1, <4>1, <4>2
    <3>3. QED
      BY <3>1, <3>2
  <2>7. /\ g \in [1..Len(more) -> Nat] /\ more # <<>>
        /\ \A j \in 1..(Len(more) - 1) :
             g[j + 1] = IF Ends(more[j]) THEN g[j] + 1 ELSE g[j]
    BY <1>1, <2>2, <2>6
  <2>8. ASSUME NEW i \in 1..(n + 1), NEW j \in 1..(n + 1), i <= j PROVE g[i] <= g[j]
    <3>1. CASE j = n + 1
      BY <1>1, <1>2, <2>1, <2>2, <2>3, <2>8, <3>1, SMTT(60)
    <3>2. CASE i \in 1..n /\ j \in 1..n
      BY <2>1, <2>3, <2>8, <3>2
    <3>3. QED
      BY <1>1, <2>8, <3>1, <3>2
  <2>9. QED
    BY <1>1, <2>4, <2>5, <2>7, <2>8, ZenonT(60) DEF Accounted
<1>5. Adjacent(more)
  BY <1>1, <1>3 DEF GoodLine, Adjacent, n
<1>6. Aligned(more)
  <2>1. InPacket(x) /\ x.off % FRAME = 0
    BY <1>0, FramesAssumption, RemainingPositive DEF InPacket, PacketBytes, Segment, SegLen
  <2>2. QED
    BY <1>1, <2>1 DEF GoodLine, Aligned, n
<1>7. OnWire(more, sent)
  <2>1. Multiples(0) = {}
    BY DEF Multiples
  <2>2. CASE n = 0
    <3>1. more[1] = x /\ line = <<>>
      BY <1>1, <2>2
    <3>2. sent = {}
      BY <3>1 DEF GoodLine, OnWire
    <3>3. QED
      BY <1>1, <2>1, <3>1, <3>2 DEF OnWire
  <2>3. CASE n # 0
    BY <1>1, <2>3 DEF GoodLine, OnWire
  <2>4. QED
    BY <2>2, <2>3
<1>8. QED
  BY <1>4, <1>5, <1>6, <1>7 DEF GoodLine, Closed, more, all

\* The next frame of the packet at the end of the line.
LEMMA LineContinues ==
  ASSUME NEW line \in Seq(FrameType), NEW packets \in Seq(Remaining), NEW sent, NEW open,
         GoodLine(line, packets, sent, open), NEW x \in FrameType, line # <<>>,
         ~Ends(line[Len(line)]), x.packet = line[Len(line)].packet,
         x.off = line[Len(line)].off + FRAME
  PROVE  GoodLine(Append(line, x), packets, sent, TRUE)
<1> DEFINE n == Len(line)
           more == Append(line, x)
<1>1. /\ n \in Nat /\ n # 0 /\ Len(more) = n + 1 /\ more[n + 1] = x /\ more # <<>>
      /\ \A j \in 1..n : more[j] = line[j]
  OBVIOUS
<1>2. Len(packets) \in Nat /\ line[n] \in FrameType
  BY <1>1
<1>3. ~Ends(line[n]) /\ x.packet = line[n].packet /\ x.off = line[n].off + FRAME
  OBVIOUS
<1> HIDE DEF more, n
<1>4. Accounted(more, packets)
  <2>1. PICK group \in [1..n -> Nat] :
          /\ group[1] = 1 /\ group[n] = Len(packets)
          /\ \A j \in 1..n :
               group[j] \in 1..Len(packets) /\ packets[group[j]] = line[j].packet.remaining
          /\ \A j \in 1..(n - 1) :
               group[j + 1] = IF Ends(line[j]) THEN group[j] + 1 ELSE group[j]
          /\ \A i, j \in 1..n : i <= j => group[i] <= group[j]
    BY DEF GoodLine, Accounted, n
  <2> DEFINE g == [j \in 1..(n + 1) |-> IF j = n + 1 THEN Len(packets) ELSE group[j]]
  <2>2. g \in [1..(n + 1) -> Nat] /\ g[n + 1] = Len(packets)
    BY <1>1, <1>2
  <2>3. \A j \in 1..n : g[j] = group[j]
    BY <1>1
  <2> HIDE DEF g
  <2>4. g[1] = 1 /\ g[n + 1] = Len(packets)
    BY <1>1, <1>2, <2>1, <2>2, <2>3
  <2>5. ASSUME NEW j \in 1..(n + 1)
        PROVE  g[j] \in 1..Len(packets) /\ packets[g[j]] = more[j].packet.remaining
    <3>1. CASE j = n + 1
      BY <1>1, <1>2, <2>1, <2>2, <2>3, <3>1, <1>3
    <3>2. CASE j \in 1..n
      BY <1>1, <1>2, <2>1, <2>3, <3>2
    <3>3. QED
      BY <1>1, <3>1, <3>2
  <2>6. ASSUME NEW j \in 1..n
        PROVE  g[j + 1] = IF Ends(more[j]) THEN g[j] + 1 ELSE g[j]
    BY <1>1, <1>2, <1>3, <2>1, <2>2, <2>3, SMTT(60)
  <2>7. /\ g \in [1..Len(more) -> Nat] /\ more # <<>>
        /\ \A j \in 1..(Len(more) - 1) :
             g[j + 1] = IF Ends(more[j]) THEN g[j] + 1 ELSE g[j]
    BY <1>1, <2>2, <2>6
  <2>8. ASSUME NEW i \in 1..(n + 1), NEW j \in 1..(n + 1), i <= j PROVE g[i] <= g[j]
    <3>1. CASE j = n + 1
      BY <1>1, <1>2, <2>1, <2>2, <2>3, <2>8, <3>1
    <3>2. CASE i \in 1..n /\ j \in 1..n
      BY <2>1, <2>3, <2>8, <3>2
    <3>3. QED
      BY <1>1, <2>8, <3>1, <3>2
  <2>9. QED
    BY <1>1, <2>4, <2>5, <2>7, <2>8 DEF Accounted
<1>5. Adjacent(more)
  BY <1>1, <1>3 DEF GoodLine, Adjacent, n
<1>6. Aligned(more)
  <2>1. ASSUME ~x.packet.stalled PROVE InPacket(x) /\ x.off % FRAME = 0
    <3>1. line[n].off % FRAME = 0 /\ line[n].off \in Nat
      BY <1>1, <1>2, <1>3, <2>1 DEF GoodLine, Aligned, n, FrameType
    <3>2. x.off % FRAME = 0
      BY <1>3, <3>1, NextMultiple
    <3>3. InPacket(x)
      <4>1. x.packet \in Packets /\ Segment(x.packet) \in Int
        BY RemainingPositive, FramesAssumption DEF FrameType, Packets, Segment, SegLen
      <4>2. QED
        BY <1>3, <3>1, <4>1, FramesAssumption DEF Ends, LastFrame, InPacket, PacketBytes
    <3>4. QED
      BY <3>2, <3>3
  <2>2. QED
    BY <1>1, <2>1 DEF GoodLine, Aligned, n
<1>7. OnWire(more, sent)
  BY <1>1 DEF GoodLine, OnWire
<1>8. QED
  BY <1>4, <1>5, <1>6, <1>7 DEF GoodLine, Closed, more

\* The frame that is being made has to wait.
LEMMA LineStalls ==
  ASSUME NEW line \in Seq(FrameType), NEW packets \in Seq(Remaining), NEW sent, NEW open,
         NEW x \in FrameType, NEW y \in FrameType,
         GoodLine(Append(line, x), packets, sent, open),
         y.packet.remaining = x.packet.remaining, y.packet.stalled
  PROVE  GoodLine(Append(line, y), packets, sent, TRUE)
<1> DEFINE n == Len(line)
           old == Append(line, x)
           new == Append(line, y)
<1>1. /\ n \in Nat /\ Len(new) = n + 1 /\ new[n + 1] = y /\ new # <<>>
      /\ Len(old) = n + 1 /\ old[n + 1] = x /\ old # <<>>
      /\ \A j \in 1..n : new[j] = old[j]
  OBVIOUS
<1>2. GoodLine(old, packets, sent, open)
  OBVIOUS
<1> HIDE DEF new, old, n
<1>4. Accounted(new, packets)
  <2>1. PICK group \in [1..(n + 1) -> Nat] :
          /\ group[1] = 1 /\ group[n + 1] = Len(packets)
          /\ \A j \in 1..(n + 1) :
               group[j] \in 1..Len(packets) /\ packets[group[j]] = old[j].packet.remaining
          /\ \A j \in 1..n :
               group[j + 1] = IF Ends(old[j]) THEN group[j] + 1 ELSE group[j]
          /\ \A i, j \in 1..(n + 1) : i <= j => group[i] <= group[j]
    <3>1. Accounted(old, packets)
      BY <1>2 DEF GoodLine
    <3>2. PICK group \in [1..Len(old) -> Nat] :
          /\ group[1] = 1 /\ group[Len(old)] = Len(packets)
          /\ \A j \in 1..Len(old) :
               group[j] \in 1..Len(packets) /\ packets[group[j]] = old[j].packet.remaining
          /\ \A j \in 1..(Len(old) - 1) :
               group[j + 1] = IF Ends(old[j]) THEN group[j] + 1 ELSE group[j]
          /\ \A i, j \in 1..Len(old) : i <= j => group[i] <= group[j]
      BY <1>1, <3>1 DEF Accounted
    <3>3. Len(old) = n + 1 /\ Len(old) - 1 = n
      BY <1>1
    <3>4. /\ group \in [1..(n + 1) -> Nat]
          /\ group[1] = 1 /\ group[n + 1] = Len(packets)
          /\ \A j \in 1..(n + 1) :
               group[j] \in 1..Len(packets) /\ packets[group[j]] = old[j].packet.remaining
          /\ \A j \in 1..n :
               group[j + 1] = IF Ends(old[j]) THEN group[j] + 1 ELSE group[j]
          /\ \A i, j \in 1..(n + 1) : i <= j => group[i] <= group[j]
      BY <3>2, <3>3
    <3>5. QED
      BY <3>4
  <2>2. \A j \in 1..(n + 1) : new[j].packet.remaining = old[j].packet.remaining
    BY <1>1
  <2>3. \A j \in 1..n : Ends(new[j]) = Ends(old[j])
    BY <1>1
  <2>4. /\ group \in [1..Len(new) -> Nat] /\ new # <<>>
        /\ group[1] = 1 /\ group[Len(new)] = Len(packets)
        /\ \A j \in 1..Len(new) :
             group[j] \in 1..Len(packets) /\ packets[group[j]] = new[j].packet.remaining
        /\ \A j \in 1..(Len(new) - 1) :
             group[j + 1] = IF Ends(new[j]) THEN group[j] + 1 ELSE group[j]
        /\ \A i, j \in 1..Len(new) : i <= j => group[i] <= group[j]
    <3>1. Len(new) = n + 1 /\ Len(new) - 1 = n
      BY <1>1
    <3>2. \A j \in 1..(n + 1) : packets[group[j]] = new[j].packet.remaining
      BY <2>1, <2>2
    <3>3. \A j \in 1..n : group[j + 1] = IF Ends(new[j]) THEN group[j] + 1 ELSE group[j]
      BY <2>1, <2>3
    <3>4. QED
      BY <1>1, <2>1, <3>1, <3>2, <3>3
  <2>5. QED
    BY <2>4 DEF Accounted
<1>5. Adjacent(new)
  BY <1>1, <1>2 DEF GoodLine, Adjacent
<1>6. Aligned(new)
  BY <1>1, <1>2 DEF GoodLine, Aligned
<1>7. OnWire(new, sent)
  BY <1>1, <1>2 DEF GoodLine, OnWire
<1>8. QED
  BY <1>4, <1>5, <1>6, <1>7 DEF GoodLine, Closed, new

\* The first frame of the line is sent.
LEMMA LineDeparts ==
  ASSUME NEW line \in Seq(FrameType), NEW packets \in Seq(Remaining), NEW sent, NEW open,
         GoodLine(line, packets, sent, open), line # <<>>,
         Ends(line[1]) \/ Len(line) > 1
  PROVE  /\ packets # <<>>
         /\ GoodLine(Tail(line),
                     IF Ends(line[1]) THEN Tail(packets) ELSE packets,
                     IF Ends(line[1]) THEN {} ELSE sent \cup {line[1].off}, open)
<1> DEFINE n == Len(line)
           rest == Tail(line)
           left == IF Ends(line[1]) THEN Tail(packets) ELSE packets
           d == IF Ends(line[1]) THEN 1 ELSE 0
<1>1. /\ n \in Nat /\ n >= 1 /\ Len(rest) = n - 1 /\ rest \in Seq(FrameType)
      /\ \A j \in 1..(n - 1) : rest[j] = line[j + 1]
      /\ (rest = <<>>) <=> (n = 1)
  <2>1. n \in Nat /\ n >= 1
    OBVIOUS
  <2>2. Len(rest) = n - 1 /\ rest \in Seq(FrameType)
    BY <2>1, HeadTailProperties
  <2>3. \A j \in 1..(n - 1) : rest[j] = line[j + 1]
    BY <2>1, HeadTailProperties
  <2>4. (rest = <<>>) <=> (n = 1)
    BY <2>1, <2>2, EmptySeq, SMTT(60)
  <2>5. QED
    BY <2>1, <2>2, <2>3, <2>4
<1>2. PICK group \in [1..n -> Nat] :
        /\ group[1] = 1 /\ group[n] = Len(packets)
        /\ \A j \in 1..n :
             group[j] \in 1..Len(packets) /\ packets[group[j]] = line[j].packet.remaining
        /\ \A j \in 1..(n - 1) :
             group[j + 1] = IF Ends(line[j]) THEN group[j] + 1 ELSE group[j]
        /\ \A i, j \in 1..n : i <= j => group[i] <= group[j]
  BY DEF GoodLine, Accounted
<1>3. packets # <<>> /\ Len(packets) \in Nat /\ Len(packets) >= 1
  BY <1>1, <1>2
<1>4. /\ Len(left) = Len(packets) - d
      /\ \A j \in 1..(Len(packets) - d) : left[j] = packets[j + d]
  BY <1>3, HeadTailProperties
<1>5. d \in {0, 1} /\ (d = 1 <=> Ends(line[1])) /\ (n = 1 => d = 1)
  BY <1>1
<1> HIDE DEF n, rest, left, d
<1>6. Accounted(rest, left)
  <2> DEFINE g == [j \in 1..(n - 1) |-> group[j + 1] - d]
  <2>1. \A j \in 1..(n - 1) :
          /\ group[j + 1] \in (1 + d)..Len(packets)
          /\ packets[group[j + 1]] = line[j + 1].packet.remaining
    <3>1. ASSUME NEW j \in 1..(n - 1) PROVE group[j + 1] >= 1 + d
      <4>1. group[2] = 1 + d
        BY <1>1, <1>2, <1>5
      <4>2. group[2] <= group[j + 1]
        BY <1>1, <1>2
      <4>3. QED
        BY <1>1, <1>2, <1>5, <4>1, <4>2
    <3>2. \A j \in 1..(n - 1) : j + 1 \in 1..n
      BY <1>1
    <3>3. QED
      BY <1>2, <1>3, <1>5, <3>1, <3>2
  <2>2. \A j \in 1..(n - 1) : g[j] = group[j + 1] - d
    OBVIOUS
  <2>3. g \in [1..(n - 1) -> Nat]
    BY <1>3, <1>5, <2>1
  <2> HIDE DEF g
  <2>4. ASSUME NEW j \in 1..(n - 1)
        PROVE  g[j] \in 1..Len(left) /\ left[g[j]] = rest[j].packet.remaining
    <3>1. g[j] + d = group[j + 1] /\ g[j] \in 1..(Len(packets) - d)
      BY <1>3, <1>5, <2>1, <2>2
    <3>2. left[g[j]] = packets[g[j] + d]
      BY <1>4, <3>1
    <3>3. QED
      BY <1>1, <1>4, <2>1, <3>1, <3>2
  <2>5. ASSUME NEW j \in 1..((n - 1) - 1)
        PROVE  g[j + 1] = IF Ends(rest[j]) THEN g[j] + 1 ELSE g[j]
    <3>1. j \in 1..(n - 1) /\ j + 1 \in 1..(n - 1) /\ j + 1 \in 1..n /\ (j + 1) + 1 \in 1..n
      BY <1>1
    <3>2. group[(j + 1) + 1] = IF Ends(line[j + 1]) THEN group[j + 1] + 1 ELSE group[j + 1]
      BY <1>2, <3>1
    <3>3. g[j] = group[j + 1] - d /\ g[j + 1] = group[(j + 1) + 1] - d /\ rest[j] = line[j + 1]
      BY <1>1, <2>2, <3>1
    <3>4. group[j + 1] \in Nat
      BY <1>2, <3>1
    <3>5. QED
      BY <1>5, <3>2, <3>3, <3>4
  <2>6. ASSUME NEW i \in 1..(n - 1), NEW j \in 1..(n - 1), i <= j PROVE g[i] <= g[j]
    <3>1. i + 1 \in 1..n /\ j + 1 \in 1..n /\ i + 1 <= j + 1
      BY <1>1, <2>6
    <3>2. group[i + 1] <= group[j + 1] /\ group[i + 1] \in Nat /\ group[j + 1] \in Nat
      BY <1>2, <3>1
    <3>3. QED
      BY <1>5, <2>2, <3>2
  <2>7. rest # <<>> => g[1] = 1 /\ g[n - 1] = Len(left)
    <3>1. ASSUME rest # <<>> PROVE g[1] = 1 /\ g[n - 1] = Len(left)
      <4>1. 1 \in 1..(n - 1) /\ n - 1 \in 1..(n - 1) /\ (n - 1) + 1 = n /\ 1 + 1 = 2
        BY <1>1, <3>1
      <4>2. group[2] = 1 + d
        BY <1>1, <1>2, <1>5, <4>1
      <4>3. g[1] = group[2] - d /\ g[n - 1] = group[n] - d
        BY <2>2, <4>1
      <4>4. QED
        BY <1>2, <1>3, <1>4, <1>5, <4>2, <4>3
    <3>2. QED
      BY <3>1
  <2>8. rest = <<>> => left = <<>>
    <3>1. ASSUME rest = <<>> PROVE left = <<>>
      <4>1. n = 1 /\ d = 1 /\ Len(left) = 0
        BY <1>1, <1>2, <1>3, <1>4, <1>5, <3>1
      <4>2. left \in Seq(Remaining)
        BY <1>3 DEF left
      <4>3. QED
        BY <4>1, <4>2, EmptySeq
    <3>2. QED
      BY <3>1
  <2>9. QED
    BY <1>1, <2>3, <2>4, <2>5, <2>6, <2>7, <2>8 DEF Accounted
<1>7. Adjacent(rest)
  <2>1. ASSUME NEW j \in 1..(Len(rest) - 1), ~rest[j + 1].packet.stalled
        PROVE  IF Ends(rest[j]) THEN rest[j + 1].off = 0
               ELSE ~rest[j].packet.stalled /\ rest[j].off + FRAME = rest[j + 1].off
    <3>1. /\ j + 1 \in 1..(n - 1) /\ rest[j] = line[j + 1] /\ rest[j + 1] = line[(j + 1) + 1]
      BY <1>1
    <3>2. Adjacent(line)
      BY DEF GoodLine
    <3>3. QED
      BY <2>1, <3>1, <3>2 DEF Adjacent, n
  <2>2. QED
    BY <2>1 DEF Adjacent
<1>8. Aligned(rest)
  <2>1. \A j \in 1..Len(rest) : j + 1 \in 1..n /\ rest[j] = line[j + 1]
    BY <1>1
  <2>2. QED
    BY <2>1 DEF GoodLine, Aligned, n
<1>9. OnWire(rest, IF Ends(line[1]) THEN {} ELSE sent \cup {line[1].off})
  <2>1. CASE rest = <<>>
    BY <1>1, <1>5, <2>1 DEF OnWire
  <2>2. CASE rest # <<>> /\ rest[1].packet.stalled
    BY <2>2 DEF OnWire
  <2>3. CASE rest # <<>> /\ ~rest[1].packet.stalled
    <3>1. 1 \in 1..(n - 1) /\ rest[1] = line[2] /\ 1 + 1 = 2
      BY <1>1, <2>3
    <3>2. IF Ends(line[1]) THEN line[2].off = 0
          ELSE ~line[1].packet.stalled /\ line[1].off + FRAME = line[2].off
      BY <2>3, <3>1 DEF GoodLine, Adjacent, n
    <3>3. CASE Ends(line[1])
      <4>1. Multiples(0) = {}
        BY DEF Multiples
      <4>2. QED
        BY <2>3, <3>1, <3>2, <3>3, <4>1 DEF OnWire
    <3>4. CASE ~Ends(line[1])
      <4>1. sent = Multiples(line[1].off) /\ line[1].off % FRAME = 0 /\ line[1].off \in Nat
        <5>1. 1 \in 1..n /\ line[1] \in FrameType
          BY <1>1 DEF n
        <5>2. QED
          BY <3>2, <3>4, <5>1 DEF GoodLine, OnWire, Aligned, FrameType, n
      <4>2. Multiples(line[1].off + FRAME) = Multiples(line[1].off) \cup {line[1].off}
        BY <4>1, MultiplesStep
      <4>3. QED
        BY <2>3, <3>1, <3>2, <3>4, <4>1, <4>2 DEF OnWire
    <3>5. QED
      BY <3>3, <3>4
  <2>4. QED
    BY <2>1, <2>2, <2>3
<1>10. Closed(rest, open)
  <2>1. ASSUME ~open, rest # <<>> PROVE Ends(rest[Len(rest)])
    <3>1. rest[Len(rest)] = line[n]
      BY <1>1, <2>1
    <3>2. QED
      BY <2>1, <3>1 DEF GoodLine, Closed, n
  <2>2. QED
    BY <2>1 DEF Closed
<1>11. QED
  BY <1>3, <1>6, <1>7, <1>8, <1>9, <1>10 DEF GoodLine, rest, left

-----------------------------------------------------------------------------
\* A stage that held s, was given in and gave out holds s1.
Passes(out, s1, s, in) == out \o s1 = s \o in

\* A register of the pipeline holds one entry or none.
LEMMA Register ==
  ASSUME NEW S, NEW q \in AtMostOne(S)
  PROVE  /\ q # <<>> => q[1] \in S /\ q = <<q[1]>> /\ Len(q) = 1
         /\ q \in Seq(S)
<1>1. CASE q = <<>>
  BY <1>1
<1>2. CASE q # <<>>
  <2>1. PICK x \in S : q = <<x>>
    BY <1>2 DEF AtMostOne
  <2>2. QED
    BY <2>1
<1>3. QED
  BY <1>1, <1>2

\* A frame without its payload.
LEMMA BareFrame ==
  ASSUME NEW q \in AtMostOne(PaidType)
  PROVE  /\ Bare(q) \in AtMostOne(FrameType)
         /\ q = <<>> => Bare(q) = <<>>
         /\ q # <<>> => Bare(q) = <<[packet |-> q[1].packet, off |-> q[1].off]>>
<1>1. CASE q = <<>>
  <2>1. DOMAIN q = {}
    BY <1>1
  <2>2. Bare(q) = <<>>
    BY <2>1 DEF Bare
  <2>3. QED
    BY <1>1, <2>2 DEF AtMostOne
<1>2. CASE q # <<>>
  <2>1. PICK x \in PaidType : q = <<x>>
    BY <1>2 DEF AtMostOne
  <2>2. DOMAIN q = 1..1 /\ q[1] = x
    BY <2>1
  <2>3. ASSUME NEW y PROVE [i \in 1..1 |-> y] = <<y>>
    OBVIOUS
  <2> DEFINE z == [packet |-> x.packet, off |-> x.off]
  <2>4. z \in FrameType
    BY DEF PaidType, FrameType
  <2>5. Bare(q) = [i \in 1..1 |-> z]
    BY <2>2 DEF Bare
  <2> HIDE DEF z
  <2>6. Bare(q) = <<z>>
    BY <2>3, <2>5
  <2>7. Bare(q) \in AtMostOne(FrameType)
    BY <2>4, <2>6 DEF AtMostOne
  <2>8. QED
    BY <1>2, <2>2, <2>6, <2>7 DEF z
<1>3. QED
  BY <1>1, <1>2

\* The frame made of a packet.
Made(packets, offset) == [i \in DOMAIN packets |-> [packet |-> packets[i], off |-> offset]]

\* The frame dupe_0 makes.
LEMMA FrameMade ==
  ASSUME NEW d \in AtMostOne(Packets), NEW offset \in 0..MaxOffset
  PROVE  /\ Made(d, offset) \in AtMostOne(FrameType)
         /\ d = <<>> => Made(d, offset) = <<>>
         /\ d # <<>> => /\ Made(d, offset) = <<[packet |-> d[1], off |-> offset]>>
                        /\ [packet |-> d[1], off |-> offset] \in FrameType
<1>1. CASE d = <<>>
  <2>1. DOMAIN d = {}
    BY <1>1
  <2>2. Made(d, offset) = <<>>
    BY <2>1 DEF Made
  <2>3. QED
    BY <1>1, <2>2 DEF AtMostOne
<1>2. CASE d # <<>>
  <2>1. PICK x \in Packets : d = <<x>>
    BY <1>2 DEF AtMostOne
  <2>2. DOMAIN d = 1..1 /\ d[1] = x
    BY <2>1
  <2>3. ASSUME NEW y PROVE [i \in 1..1 |-> y] = <<y>>
    OBVIOUS
  <2> DEFINE z == [packet |-> x, off |-> offset]
  <2>4. z \in FrameType
    BY DEF FrameType
  <2>5. Made(d, offset) = [i \in 1..1 |-> z]
    BY <2>2 DEF Made
  <2> HIDE DEF z
  <2>6. Made(d, offset) = <<z>>
    BY <2>3, <2>5
  <2>7. Made(d, offset) \in AtMostOne(FrameType)
    BY <2>4, <2>6 DEF AtMostOne
  <2>8. QED
    BY <1>2, <2>2, <2>4, <2>6, <2>7 DEF z
<1>3. QED
  BY <1>1, <1>2

\* A stage and what is behind it: what the stage takes is what those give.
LEMMA Telescope ==
  ASSUME NEW S, NEW out \in Seq(S), NEW s1 \in Seq(S), NEW s \in Seq(S), NEW in \in Seq(S),
         NEW r1 \in Seq(S), NEW r \in Seq(S), NEW last \in Seq(S),
         Passes(out, s1, s, in), Passes(in, r1, r, last)
  PROVE  Passes(out, s1 \o r1, s \o r, last)
<1>1. out \o (s1 \o r1) = (out \o s1) \o r1
  BY SMTT(60)
<1>2. (s \o in) \o r1 = s \o (in \o r1)
  BY SMTT(60)
<1>3. s \o (r \o last) = (s \o r) \o last
  BY SMTT(60)
<1>4. QED
  BY <1>1, <1>2, <1>3, Zenon DEF Passes

\* An entry leaves a queue at its head, and in is put at its tail.
LEMMA QueueFires ==
  ASSUME NEW S, NEW q \in Seq(S), q # <<>>, NEW in \in Seq(S)
  PROVE  /\ Tail(q) \o in \in Seq(S) /\ <<q[1]>> \in Seq(S) /\ q[1] \in S
         /\ Len(Tail(q) \o in) = (Len(q) - 1) + Len(in)
         /\ \A i \in 1..(Len(q) - 1) : (Tail(q) \o in)[i] = q[i + 1]
         /\ Len(in) = 1 => (Tail(q) \o in)[Len(q)] = in[1]
         /\ Passes(<<q[1]>>, Tail(q) \o in, q, in)
<1> DEFINE t == Tail(q)
           h == <<q[1]>>
<1>1. /\ t \in Seq(S) /\ Len(t) = Len(q) - 1 /\ Len(q) \in Nat /\ Len(q) >= 1
      /\ \A i \in 1..(Len(q) - 1) : t[i] = q[i + 1]
      /\ h \in Seq(S) /\ h \o t = q /\ q[1] \in S
  BY HeadTailProperties
<1> HIDE DEF t, h
<1>2. t \o in \in Seq(S) /\ Len(t \o in) = Len(t) + Len(in)
  BY <1>1, ConcatProperties
<1>3. \A i \in 1..Len(t) : (t \o in)[i] = t[i]
  BY <1>1, ConcatProperties
<1>4. Len(in) = 1 => (t \o in)[Len(t) + 1] = in[1]
  BY <1>1, ConcatProperties
<1>5. Passes(h, t \o in, q, in)
  <2>1. ASSUME NEW a \in Seq(S), NEW b \in Seq(S), NEW c \in Seq(S)
        PROVE  (a \o b) \o c = a \o (b \o c)
    OBVIOUS
  <2>2. (h \o t) \o in = h \o (t \o in)
    BY <1>1, <2>1, ZenonT(60)
  <2>3. QED
    BY <1>1, <2>2, Zenon DEF Passes
<1>6. QED
  BY <1>1, <1>2, <1>3, <1>4, <1>5 DEF t, h

\* A cycle only moves frames: what goes on the wire and what is then in the line
\* is what was in it and what dupe_0 put into it.
LEMMA FramesMove ==
  ASSUME FullType, NEW offer \in BOOLEAN, NEW accept \in BOOLEAN, NEW answer \in BOOLEAN,
         NEW tready \in BOOLEAN, Cycle(offer, accept, answer, tready),
         NEW gone, gone = IF tready THEN Bare(xmit) ELSE <<>>,
         NEW made, made = IF Dupe1Ready(tready, answer, accept) THEN NewFrame ELSE <<>>
  PROVE  /\ dupe_1' \in AtMostOne(FrameType) /\ pay_0' \in AtMostOne(FrameType)
         /\ pending' \in Seq(FrameType) /\ Len(pending') <= DEPTH
         /\ pay_1' \in AtMostOne(PaidType) /\ xmit' \in AtMostOne(PaidType)
         /\ Frames \in Seq(FrameType) /\ Frames' \in Seq(FrameType)
         /\ gone \in Seq(FrameType) /\ made \in Seq(FrameType)
         /\ Passes(gone, Frames', Frames, made)
<1> DEFINE xr == XmitReady(tready)
           p1r == Pay1Ready(tready)
           pf == PendingFires(tready, answer)
           p0 == pay_0 # <<>> /\ PendingReady(tready, answer) /\ accept
           p0r == Pay0Ready(tready, answer, accept)
           d1r == Dupe1Ready(tready, answer, accept)
           toXmit == IF xr THEN Bare(pay_1) ELSE <<>>
           toPay == IF pf THEN <<pending[1]>> ELSE <<>>
           toPending == IF p0 THEN pay_0 ELSE <<>>
           toPay0 == IF p0r THEN dupe_1 ELSE <<>>
<1>0. /\ xr \in BOOLEAN /\ p1r \in BOOLEAN /\ pf \in BOOLEAN /\ p0 \in BOOLEAN
      /\ p0r \in BOOLEAN /\ d1r \in BOOLEAN
  BY DEF XmitReady, Pay1Ready, PendingFires, PendingReady, Pay0Ready, Dupe1Ready
<1>1. /\ dupe_0 \in AtMostOne(Packets) /\ frame_off \in 0..MaxOffset
      /\ dupe_1 \in AtMostOne(FrameType) /\ pay_0 \in AtMostOne(FrameType)
      /\ pending \in Seq(FrameType) /\ Len(pending) <= DEPTH
      /\ requests \in Seq(0..LINE - 1)
      /\ pay_1 \in AtMostOne(PaidType) /\ xmit \in AtMostOne(PaidType)
  BY DEF FullType, TypeOK, PaidType
<1>2. /\ pf => pending # <<>> /\ requests # <<>> /\ p1r
      /\ xr <=> (xmit = <<>> \/ tready)
      /\ p1r <=> (pay_1 = <<>> \/ xr)
      /\ p0r <=> (pay_0 = <<>> \/ p0)
      /\ d1r <=> (dupe_1 = <<>> \/ p0r)
      /\ p0 => pay_0 # <<>> /\ (Len(pending) < DEPTH \/ pf)
  BY DEF XmitReady, Pay1Ready, PendingFires, PendingReady, Pay0Ready, Dupe1Ready
<1>3. /\ dupe_1' = IF d1r THEN NewFrame ELSE dupe_1
      /\ pay_0' = IF p0r THEN dupe_1 ELSE pay_0
      /\ pending' = (IF pf THEN Tail(pending) ELSE pending) \o toPending
      /\ pay_1' = IF ~p1r THEN pay_1 ELSE IF pf THEN Filled ELSE <<>>
      /\ xmit' = IF xr THEN pay_1 ELSE xmit
  BY DEF Cycle
<1>4. NewFrame \in AtMostOne(FrameType)
  BY <1>1, FrameMade DEF NewFrame, Made
<1>5. /\ Bare(xmit) \in AtMostOne(FrameType) /\ Bare(pay_1) \in AtMostOne(FrameType)
      /\ (Bare(xmit) = <<>> <=> xmit = <<>>) /\ (Bare(pay_1) = <<>> <=> pay_1 = <<>>)
  <2>1. ASSUME NEW z PROVE <<z>> # <<>>
    OBVIOUS
  <2>2. Bare(xmit) \in AtMostOne(FrameType) /\ (Bare(xmit) = <<>> <=> xmit = <<>>)
    BY <1>1, <2>1, BareFrame, Zenon
  <2>3. Bare(pay_1) \in AtMostOne(FrameType) /\ (Bare(pay_1) = <<>> <=> pay_1 = <<>>)
    BY <1>1, <2>1, BareFrame, Zenon
  <2>4. QED
    BY <2>2, <2>3
<1>6. toPending \in AtMostOne(FrameType) /\ toPay \in AtMostOne(FrameType)
  BY <1>1, <1>2 DEF AtMostOne
<1>7. pf => Filled \in AtMostOne(PaidType) /\ Bare(Filled) = <<pending[1]>>
  <2>1. ASSUME pf PROVE Filled \in AtMostOne(PaidType) /\ Bare(Filled) = <<pending[1]>>
    <3>0. ASSUME NEW S, NEW q \in Seq(S), q # <<>> PROVE q[1] \in S
      BY <3>0
    <3>1. pending[1] \in FrameType /\ requests[1] \in 0..LINE - 1
      BY <1>1, <1>2, <2>1, <3>0
    <3> DEFINE z == [packet |-> pending[1].packet, off |-> pending[1].off, payload |-> requests[1]]
    <3>2. z \in PaidType /\ [packet |-> z.packet, off |-> z.off] = pending[1]
      BY <3>1 DEF FrameType, PaidType
    <3>3. Filled = <<z>>
      BY DEF Filled
    <3> HIDE DEF z
    <3>4. Filled \in AtMostOne(PaidType) /\ Filled # <<>> /\ Filled[1] = z
      BY <3>2, <3>3 DEF AtMostOne
    <3>5. QED
      BY <3>2, <3>4, BareFrame
  <2>2. QED
    BY <2>1
<1> HIDE DEF xr, p1r, pf, p0, p0r, d1r
<1>8. pay_1' \in AtMostOne(PaidType) /\ Bare(pay_1)' = IF p1r THEN toPay ELSE Bare(pay_1)
  <2>1. Bare(<<>>) = <<>> /\ <<>> \in AtMostOne(PaidType)
    BY BareFrame DEF AtMostOne
  <2>2. Bare(pay_1)' = Bare(pay_1')
    BY DEF Bare
  <2>3. CASE ~p1r
    BY <1>1, <1>3, <2>2, <2>3
  <2>4. CASE p1r /\ pf
    BY <1>3, <1>7, <2>2, <2>4
  <2>5. CASE p1r /\ ~pf
    BY <1>3, <2>1, <2>2, <2>5
  <2>6. QED
    BY <2>3, <2>4, <2>5
<1>9. xmit' \in AtMostOne(PaidType) /\ Bare(xmit)' = IF xr THEN Bare(pay_1) ELSE Bare(xmit)
  <2>1. Bare(xmit)' = Bare(xmit')
    BY DEF Bare
  <2>2. QED
    BY <1>1, <1>3, <2>1
<1> DEFINE x1 == Bare(xmit)'
           y1 == Bare(pay_1)'
           x == Bare(xmit)
           y == Bare(pay_1)
           inPay == IF p1r THEN toPay ELSE <<>>
<1>10. x1 = (IF xr THEN y ELSE x) /\ y1 = (IF p1r THEN toPay ELSE y) /\ inPay = toPay
  BY <1>2, <1>8, <1>9
<1>11. /\ gone = IF tready THEN x ELSE <<>>
       /\ made = IF d1r THEN NewFrame ELSE <<>>
  BY DEF d1r
<1>12. x \in AtMostOne(FrameType) /\ y \in AtMostOne(FrameType)
       /\ (x = <<>> <=> xmit = <<>>) /\ (y = <<>> <=> pay_1 = <<>>)
  BY <1>5
<1>13. /\ toXmit = IF xr THEN y ELSE <<>>
       /\ toPay = IF pf THEN <<pending[1]>> ELSE <<>>
       /\ toPending = IF p0 THEN pay_0 ELSE <<>>
       /\ toPay0 = IF p0r THEN dupe_1 ELSE <<>>
       /\ inPay = IF p1r THEN toPay ELSE <<>>
  OBVIOUS
<1> HIDE DEF x, y, x1, y1, toXmit, toPay, toPending, toPay0, inPay
<1>14. /\ x \in Seq(FrameType) /\ y \in Seq(FrameType) /\ NewFrame \in Seq(FrameType)
       /\ pay_0 \in Seq(FrameType) /\ dupe_1 \in Seq(FrameType)
       /\ toPay \in Seq(FrameType) /\ toPending \in Seq(FrameType)
       /\ toXmit \in Seq(FrameType) /\ toPay0 \in Seq(FrameType)
       /\ gone \in Seq(FrameType) /\ made \in Seq(FrameType)
  <2>1. /\ x \in Seq(FrameType) /\ y \in Seq(FrameType) /\ NewFrame \in Seq(FrameType)
        /\ pay_0 \in Seq(FrameType) /\ dupe_1 \in Seq(FrameType)
        /\ toPay \in Seq(FrameType) /\ toPending \in Seq(FrameType)
    BY <1>1, <1>4, <1>6, <1>12, Register
  <2>2. QED
    BY <1>11, <1>13, <2>1
<1>15. \A q \in Seq(FrameType) : q \o <<>> = q /\ <<>> \o q = q
  OBVIOUS
<1>16. x1 \in AtMostOne(FrameType) /\ Passes(gone, x1, x, toXmit)
  <2>1. CASE xr /\ tready
    BY <1>10, <1>11, <1>12, <1>13, <2>1 DEF Passes
  <2>2. CASE xr /\ ~tready
    BY <1>2, <1>10, <1>11, <1>12, <1>13, <2>2 DEF Passes
  <2>3. CASE ~xr
    BY <1>2, <1>10, <1>11, <1>12, <1>13, <1>14, <1>15, <2>3 DEF Passes
  <2>4. QED
    BY <2>1, <2>2, <2>3
<1>17. y1 \in AtMostOne(FrameType) /\ Passes(toXmit, y1, y, toPay)
  <2>1. CASE xr
    BY <1>2, <1>6, <1>10, <1>13, <2>1 DEF Passes
  <2>2. CASE p1r /\ ~xr
    BY <1>2, <1>6, <1>10, <1>12, <1>13, <2>2 DEF Passes
  <2>3. CASE ~p1r
    BY <1>2, <1>10, <1>12, <1>13, <1>14, <1>15, <2>3 DEF Passes
  <2>4. QED
    BY <2>1, <2>2, <2>3
<1>18. /\ pending' \in Seq(FrameType) /\ Passes(toPay, pending', pending, toPending)
       /\ Len(pending') <= DEPTH
  <2>1. /\ Len(pending) \in Nat /\ DEPTH \in Nat
        /\ Len(toPending) = IF p0 THEN 1 ELSE 0
    <3>1. Len(pending) \in Nat /\ DEPTH \in Nat
      BY <1>1, EgressAssumption
    <3>2. CASE p0
      BY <1>1, <1>2, <1>13, <3>1, <3>2, Register
    <3>3. CASE ~p0
      BY <1>13, <3>1, <3>3
    <3>4. QED
      BY <3>2, <3>3
  <2>2. CASE pf
    <3>1. pending # <<>> /\ pending' = Tail(pending) \o toPending /\ toPay = <<pending[1]>>
      BY <1>2, <1>3, <1>13, <2>2
    <3>2. /\ Tail(pending) \o toPending \in Seq(FrameType)
          /\ Len(Tail(pending) \o toPending) = (Len(pending) - 1) + Len(toPending)
          /\ Passes(<<pending[1]>>, Tail(pending) \o toPending, pending, toPending)
      BY <1>1, <1>14, <3>1, QueueFires
    <3>3. (Len(pending) - 1) + Len(toPending) <= DEPTH
      BY <1>1, <2>1
    <3>4. QED
      BY <3>1, <3>2, <3>3
  <2>3. CASE ~pf
    <3>1. pending' = pending \o toPending /\ toPay = <<>>
      BY <1>3, <1>13, <2>3
    <3>2. pending \o toPending \in Seq(FrameType)
          /\ Len(pending \o toPending) = Len(pending) + Len(toPending)
      BY <1>1, <1>14
    <3>3. Len(pending) + Len(toPending) <= DEPTH
      BY <1>1, <1>2, <2>1, <2>3
    <3>4. QED
      BY <1>15, <3>1, <3>2, <3>3 DEF Passes
  <2>4. QED
    BY <2>2, <2>3
<1>19. pay_0' \in AtMostOne(FrameType) /\ Passes(toPending, pay_0', pay_0, toPay0)
  <2>1. CASE p0r /\ p0
    BY <1>1, <1>3, <1>13, <2>1 DEF Passes
  <2>2. CASE p0r /\ ~p0
    BY <1>1, <1>2, <1>3, <1>13, <2>2 DEF Passes
  <2>3. CASE ~p0r
    BY <1>1, <1>2, <1>3, <1>13, <1>14, <1>15, <2>3 DEF Passes
  <2>4. QED
    BY <2>1, <2>2, <2>3
<1>20. dupe_1' \in AtMostOne(FrameType) /\ Passes(toPay0, dupe_1', dupe_1, made)
  <2>1. CASE d1r /\ p0r
    BY <1>3, <1>4, <1>11, <1>13, <2>1 DEF Passes
  <2>2. CASE d1r /\ ~p0r
    BY <1>2, <1>3, <1>4, <1>11, <1>13, <2>2 DEF Passes
  <2>3. CASE ~d1r
    BY <1>1, <1>2, <1>3, <1>11, <1>13, <1>14, <1>15, <2>3 DEF Passes
  <2>4. QED
    BY <2>1, <2>2, <2>3
<1>21. /\ x1 \in Seq(FrameType) /\ y1 \in Seq(FrameType)
       /\ pay_0' \in Seq(FrameType) /\ dupe_1' \in Seq(FrameType)
  BY <1>16, <1>17, <1>19, <1>20, Register
<1>22. Passes(toPending, pay_0' \o dupe_1', pay_0 \o dupe_1, made)
  BY <1>14, <1>19, <1>20, <1>21, Telescope
<1>23. pay_0 \o dupe_1 \in Seq(FrameType) /\ pay_0' \o dupe_1' \in Seq(FrameType)
  BY <1>14, <1>21
<1>24. Passes(toPay, pending' \o (pay_0' \o dupe_1'), pending \o (pay_0 \o dupe_1), made)
  BY <1>1, <1>14, <1>18, <1>22, <1>23, Telescope
<1>25. /\ pending \o (pay_0 \o dupe_1) \in Seq(FrameType)
       /\ pending' \o (pay_0' \o dupe_1') \in Seq(FrameType)
  BY <1>1, <1>18, <1>23
<1>26. Passes(toXmit, y1 \o (pending' \o (pay_0' \o dupe_1')),
              y \o (pending \o (pay_0 \o dupe_1)), made)
  BY <1>14, <1>17, <1>21, <1>24, <1>25, Telescope
<1>27. /\ y \o (pending \o (pay_0 \o dupe_1)) \in Seq(FrameType)
       /\ y1 \o (pending' \o (pay_0' \o dupe_1')) \in Seq(FrameType)
  BY <1>14, <1>21, <1>25
<1>28. Passes(gone, x1 \o (y1 \o (pending' \o (pay_0' \o dupe_1'))),
              x \o (y \o (pending \o (pay_0 \o dupe_1))), made)
  BY <1>14, <1>16, <1>21, <1>26, <1>27, Telescope
<1>29. /\ Frames = x \o (y \o (pending \o (pay_0 \o dupe_1)))
       /\ Frames' = x1 \o (y1 \o (pending' \o (pay_0' \o dupe_1')))
  BY DEF Frames, x, y, x1, y1
<1>30. Frames \in Seq(FrameType) /\ Frames' \in Seq(FrameType)
  BY <1>14, <1>21, <1>27, <1>29
<1>31. QED
  BY <1>8, <1>9, <1>14, <1>18, <1>19, <1>20, <1>28, <1>29, <1>30

\* The place of a frame's payload in the line of the cache.
LEMMA FinalOffsetType ==
  ASSUME NEW f, f.packet \in Packets, f.off \in 0..MaxOffset
  PROVE  FinalOffset(f) \in 0..LINE - 1
<1>1. f.packet.remaining \in Int /\ f.off \in Int
  BY RemainingPositive, EgressAssumption, FramesAssumption DEF Packets, MaxOffset
<1>2. PayloadOffset(f.off) \in Int
  BY <1>1, FramesAssumption DEF PayloadOffset
<1>3. Offset(f.packet) + PayloadOffset(f.off) \in Int
  BY <1>1, <1>2, EgressAssumption DEF Offset
<1>4. ASSUME NEW a \in Int PROVE a % LINE \in 0..LINE - 1
  BY EgressAssumption
<1>5. QED
  BY <1>3, <1>4 DEF FinalOffset

\* An answer is given to the frame that asked for it, and to no other.
LEMMA PairedStep ==
  ASSUME FullType, Paired, NEW offer \in BOOLEAN, NEW accept \in BOOLEAN,
         NEW answer \in BOOLEAN, NEW tready \in BOOLEAN, Cycle(offer, accept, answer, tready)
  PROVE  Paired' /\ requests' \in Seq(0..LINE - 1)
<1> DEFINE pf == PendingFires(tready, answer)
           p0 == pay_0 # <<>> /\ PendingReady(tready, answer) /\ accept
           frames == IF p0 THEN pay_0 ELSE <<>>
           reads == IF p0 THEN <<FinalOffset(pay_0[1])>> ELSE <<>>
<1>1. /\ pay_0 \in AtMostOne(FrameType) /\ pending \in Seq(FrameType)
      /\ requests \in Seq(0..LINE - 1)
      /\ pay_1 \in AtMostOne(PaidType) /\ xmit \in AtMostOne(PaidType)
  BY DEF FullType, TypeOK, PaidType
<1>2. pf => pending # <<>> /\ requests # <<>>
  BY DEF PendingFires
<1>3. /\ pending' = (IF pf THEN Tail(pending) ELSE pending) \o frames
      /\ requests' = (IF pf THEN Tail(requests) ELSE requests) \o reads
      /\ pay_1' = IF ~Pay1Ready(tready) THEN pay_1 ELSE IF pf THEN Filled ELSE <<>>
      /\ xmit' = IF XmitReady(tready) THEN pay_1 ELSE xmit
  BY DEF Cycle, AnswerTaken
<1>4. /\ frames \in Seq(FrameType) /\ reads \in Seq(0..LINE - 1)
      /\ Len(frames) = Len(reads) /\ Len(frames) \in {0, 1}
      /\ Len(frames) = 1 => reads[1] = FinalOffset(frames[1])
  <2>1. CASE p0
    <3>1. pay_0 \in Seq(FrameType) /\ Len(pay_0) = 1 /\ pay_0[1] \in FrameType
      BY <1>1, <2>1, Register
    <3>2. FinalOffset(pay_0[1]) \in 0..LINE - 1
      BY <3>1, FinalOffsetType DEF FrameType
    <3>3. frames = pay_0 /\ reads = <<FinalOffset(pay_0[1])>>
      BY <2>1
    <3> HIDE DEF frames, reads
    <3>4. reads \in Seq(0..LINE - 1) /\ Len(reads) = 1 /\ reads[1] = FinalOffset(pay_0[1])
      BY <3>2, <3>3
    <3>5. QED
      BY <3>1, <3>3, <3>4
  <2>2. CASE ~p0
    <3>1. frames = <<>> /\ reads = <<>>
      BY <2>2
    <3> HIDE DEF frames, reads
    <3>2. QED
      BY <3>1
  <2>3. QED
    BY <2>1, <2>2
<1>5. /\ Len(requests) = Len(pending) /\ Len(pending) \in Nat
      /\ \A i \in 1..Len(pending) : requests[i] = FinalOffset(pending[i])
  BY <1>1 DEF Paired
<1> HIDE DEF frames, reads, p0, pf
<1>6. /\ Len(requests') = Len(pending') /\ requests' \in Seq(0..LINE - 1)
      /\ \A i \in 1..Len(pending') : requests'[i] = FinalOffset(pending'[i])
  <2>1. CASE pf
    <3> DEFINE P == Tail(pending) \o frames
               R == Tail(requests) \o reads
    <3>1. pending # <<>> /\ requests # <<>> /\ pending' = P /\ requests' = R
      BY <1>2, <1>3, <2>1
    <3>2. /\ Len(P) = (Len(pending) - 1) + Len(frames)
          /\ \A i \in 1..(Len(pending) - 1) : P[i] = pending[i + 1]
          /\ Len(frames) = 1 => P[Len(pending)] = frames[1]
      <4>1. pending \in Seq(FrameType) /\ frames \in Seq(FrameType) /\ pending # <<>>
        BY <1>1, <1>4, <3>1
      <4>2. QED
        BY <4>1, QueueFires
    <3>3. /\ Len(R) = (Len(requests) - 1) + Len(reads) /\ R \in Seq(0..LINE - 1)
          /\ \A i \in 1..(Len(requests) - 1) : R[i] = requests[i + 1]
          /\ Len(reads) = 1 => R[Len(requests)] = reads[1]
      <4> DEFINE Places == 0..LINE - 1
      <4>1. requests \in Seq(Places) /\ reads \in Seq(Places) /\ requests # <<>>
        BY <1>1, <1>4, <3>1
      <4> HIDE DEF Places
      <4>2. /\ Len(R) = (Len(requests) - 1) + Len(reads) /\ R \in Seq(Places)
            /\ \A i \in 1..(Len(requests) - 1) : R[i] = requests[i + 1]
            /\ Len(reads) = 1 => R[Len(requests)] = reads[1]
        BY <4>1, QueueFires
      <4>3. QED
        BY <4>2 DEF Places
    <3> HIDE DEF P, R
    <3>4. ASSUME NEW i \in 1..Len(P) PROVE R[i] = FinalOffset(P[i])
      <4>1. CASE i \in 1..(Len(pending) - 1)
        <5>1. i + 1 \in 1..Len(pending)
          BY <1>5, <4>1
        <5>2. QED
          BY <1>5, <3>2, <3>3, <4>1, <5>1
      <4>2. CASE i = Len(pending) /\ Len(frames) = 1
        BY <1>4, <1>5, <3>2, <3>3, <4>2
      <4>3. QED
        BY <1>4, <1>5, <3>2, <4>1, <4>2
    <3>5. QED
      BY <1>4, <1>5, <3>1, <3>2, <3>3, <3>4
  <2>2. CASE ~pf
    <3> DEFINE P == pending \o frames
               R == requests \o reads
    <3>1. pending' = P /\ requests' = R
      BY <1>3, <2>2
    <3>2. /\ Len(P) = Len(pending) + Len(frames)
          /\ \A i \in 1..(Len(pending) + Len(frames)) :
               P[i] = IF i <= Len(pending) THEN pending[i] ELSE frames[i - Len(pending)]
      BY <1>1, <1>4, ConcatProperties
    <3>3. /\ Len(R) = Len(requests) + Len(reads) /\ R \in Seq(0..LINE - 1)
          /\ \A i \in 1..(Len(requests) + Len(reads)) :
               R[i] = IF i <= Len(requests) THEN requests[i] ELSE reads[i - Len(requests)]
      BY <1>1, <1>4, ConcatProperties
    <3> HIDE DEF P, R
    <3>4. ASSUME NEW i \in 1..Len(P) PROVE R[i] = FinalOffset(P[i])
      <4>1. CASE i \in 1..Len(pending)
        BY <1>4, <1>5, <3>2, <3>3, <4>1
      <4>2. CASE i = Len(pending) + 1 /\ Len(frames) = 1
        <5>1. i - Len(pending) = 1 /\ ~(i <= Len(pending)) /\ i \in 1..(Len(pending) + Len(frames))
          BY <1>5, <4>2
        <5>2. P[i] = frames[1] /\ R[i] = reads[1]
          BY <1>4, <1>5, <3>2, <3>3, <5>1
        <5>3. QED
          BY <1>4, <4>2, <5>2
      <4>3. QED
        BY <1>4, <1>5, <3>2, <4>1, <4>2, SMTT(60)
    <3>5. QED
      BY <1>4, <1>5, <3>1, <3>2, <3>3, <3>4
  <2>3. QED
    BY <2>1, <2>2
<1>7. pay_1' # <<>> => pay_1'[1].payload = FinalOffset(pay_1'[1])
  <2>1. CASE pay_1' = pay_1
    BY <2>1 DEF Paired
  <2>2. CASE pay_1' = Filled /\ pf
    <3> DEFINE z == [packet |-> pending[1].packet, off |-> pending[1].off, payload |-> requests[1]]
    <3>1. requests[1] = FinalOffset(pending[1])
      BY <1>1, <1>2, <1>5, <2>2
    <3>2. z.payload = requests[1] /\ z.packet = pending[1].packet /\ z.off = pending[1].off
      OBVIOUS
    <3>3. FinalOffset(z) = FinalOffset(pending[1])
      BY <3>2 DEF FinalOffset
    <3>4. pay_1' = <<z>>
      BY <2>2 DEF Filled
    <3> HIDE DEF z
    <3>5. QED
      BY <3>1, <3>2, <3>3, <3>4
  <2>3. CASE pay_1' = <<>>
    BY <2>3
  <2>4. QED
    BY <1>3, <2>1, <2>2, <2>3
<1>8. xmit' # <<>> => xmit'[1].payload = FinalOffset(xmit'[1])
  BY <1>3 DEF Paired
<1>9. QED
  BY <1>6, <1>7, <1>8 DEF Paired, FinalOffset, Offset

-----------------------------------------------------------------------------
\* Last says of the frame being made what LastFrame says of it later.
LEMMA LastMade ==
  ASSUME NEW packet \in Packets, NEW offset \in 0..MaxOffset, NEW f,
         f.packet = packet, f.off = offset
  PROVE  /\ Ends(f) <=> offset >= PacketBytes(Segment(packet)) - FRAME
         /\ ~Ends(f) => Least(offset + FRAME, MaxOffset) = offset + FRAME
         /\ Least(offset + FRAME, MaxOffset) \in 0..MaxOffset
         /\ ~Ends(f) => offset + FRAME \in 0..MaxOffset
<1> USE FramesAssumption
<1>1. packet.remaining \in Nat
  BY RemainingPositive, EgressAssumption DEF Packets
<1>2. Segment(packet) \in Nat /\ Segment(packet) <= PAYLOAD
  BY <1>1 DEF Segment, SegLen
<1>3. Ends(f) <=> offset + FRAME >= HEADER + Segment(packet)
  BY DEF Ends, LastFrame
<1>4. MaxOffset \in Nat /\ MaxOffset = 2 * FRAME + PAYLOAD
  BY DEF MaxOffset
<1>5. QED
  BY <1>2, <1>3, <1>4 DEF PacketBytes, Least

\* What dupe_0 adds to the line: the first frame of a new packet, the next frame
\* of its own, or nothing.
LEMMA LineGrows ==
  ASSUME EgressInv, NEW offer \in BOOLEAN, NEW accept \in BOOLEAN, NEW answer \in BOOLEAN,
         NEW tready \in BOOLEAN, Cycle(offer, accept, answer, tready), Frames \in Seq(FrameType),
         NEW made, made = IF Dupe1Ready(tready, answer, accept) THEN NewFrame ELSE <<>>,
         NEW new, new = IF /\ offer /\ Dupe0Ready(tready, answer, accept)
                           /\ Len(awaited) < MaxPackets
                        THEN <<next>> ELSE <<>>
  PROVE  /\ dupe_0' \in AtMostOne(Packets) /\ frame_off' \in 0..MaxOffset
         /\ next' \in Remaining /\ NewFrame' \in AtMostOne(FrameType)
         /\ (NewFrame' = <<>>) <=> (dupe_0' = <<>>)
         /\ awaited \o new \in Seq(Remaining)
         /\ (Frames \o made) \o NewFrame' \in Seq(FrameType)
         /\ GoodLine((Frames \o made) \o NewFrame', awaited \o new, wire, dupe_0' # <<>>)
<1> DEFINE d1r == Dupe1Ready(tready, answer, accept)
           d0r == Dupe0Ready(tready, answer, accept)
           accepted == /\ offer /\ Dupe0Ready(tready, answer, accept)
                       /\ Len(awaited) < MaxPackets
           f == [packet |-> dupe_0[1], off |-> frame_off]
<1>0. /\ accepted \in BOOLEAN /\ d1r \in BOOLEAN /\ d0r \in BOOLEAN
      /\ accepted => d0r
      /\ d0r <=> (dupe_0 = <<>> \/ (d1r /\ Last))
  BY DEF Dupe1Ready, Dupe0Ready
<1>1. /\ dupe_0 \in AtMostOne(Packets) /\ frame_off \in 0..MaxOffset
      /\ next \in Remaining /\ awaited \in Seq(Remaining)
      /\ GoodLine(Line, awaited, wire, dupe_0 # <<>>)
  BY DEF EgressInv, FullType, TypeOK
<1>2. /\ dupe_0' = IF accepted THEN <<[remaining |-> next, stalled |-> FALSE]>>
                   ELSE IF d0r THEN <<>> ELSE Kept(d1r)
      /\ next' = IF accepted THEN Following(next) ELSE next
      /\ frame_off' = IF accepted THEN 0 ELSE Least(frame_off + FRAME, MaxOffset)
      /\ new = IF accepted THEN <<next>> ELSE <<>>
  BY DEF Cycle, NextOffset
<1>3. /\ NewFrame = Made(dupe_0, frame_off) /\ NewFrame' = Made(dupe_0', frame_off')
      /\ 0 \in 0..MaxOffset
  BY FramesAssumption DEF NewFrame, Made, MaxOffset
<1>4. /\ NewFrame \in AtMostOne(FrameType)
      /\ dupe_0 = <<>> => NewFrame = <<>>
      /\ dupe_0 # <<>> => NewFrame = <<f>> /\ f \in FrameType
  BY <1>1, <1>3, FrameMade
<1>5. next' \in Remaining /\ Least(frame_off + FRAME, MaxOffset) \in 0..MaxOffset
  <2>1. next' \in Remaining
    BY <1>1, <1>2, FollowingRemaining
  <2>2. FRAME \in Nat /\ MaxOffset \in Nat
    BY FramesAssumption DEF MaxOffset
  <2>3. QED
    BY <1>1, <2>1, <2>2 DEF Least
<1>6. \A q \in Seq(FrameType) : q \o <<>> = q
  OBVIOUS
<1>7. dupe_0 # <<>> => (Last <=> Ends(f)) /\ dupe_0[1] \in Packets
  <2>1. ASSUME dupe_0 # <<>> PROVE (Last <=> Ends(f)) /\ dupe_0[1] \in Packets
    <3>1. dupe_0[1] \in Packets
      BY <1>1, <2>1, Register
    <3>2. f.packet = dupe_0[1] /\ f.off = frame_off
      OBVIOUS
    <3> HIDE DEF f
    <3>3. Ends(f) <=> frame_off >= PacketBytes(Segment(dupe_0[1])) - FRAME
      BY <1>1, <3>1, <3>2, LastMade
    <3>4. QED
      BY <2>1, <3>1, <3>3 DEF Last
  <2>2. QED
    BY <2>1
<1> HIDE DEF d1r, d0r, accepted
<1>8. Line \in Seq(FrameType) /\ NewFrame \in Seq(FrameType)
  BY <1>4, Register DEF Line
<1>9. ASSUME d0r PROVE Frames \o made = Line /\ GoodLine(Line, awaited, wire, FALSE)
  <2>1. CASE dupe_0 = <<>>
    <3>1. NewFrame = <<>> /\ made = <<>>
      BY <1>4, <2>1
    <3>2. QED
      BY <1>1, <2>1, <3>1 DEF Line
  <2>2. CASE dupe_0 # <<>>
    <3>1. d1r /\ Ends(f) /\ NewFrame = <<f>>
      BY <1>0, <1>4, <1>7, <1>9, <2>2
    <3>2. made = NewFrame
      BY <3>1 DEF d1r
    <3> HIDE DEF f
    <3>3. Line # <<>> /\ Line[Len(Line)] = f
      BY <1>4, <2>2, <3>1 DEF Line
    <3>4. Closed(Line, FALSE)
      BY <3>1, <3>3 DEF Closed
    <3>5. QED
      BY <1>1, <3>2, <3>4 DEF GoodLine, Line
  <2>3. QED
    BY <2>1, <2>2
<1>10. CASE accepted
  <2> DEFINE n == [remaining |-> next, stalled |-> FALSE]
             x == [packet |-> n, off |-> 0]
  <2>1. n \in Packets
    BY <1>1 DEF Packets
  <2>2. dupe_0' = <<n>> /\ frame_off' = 0 /\ new = <<next>>
    BY <1>2, <1>10
  <2>3. x \in FrameType /\ x.off = 0 /\ x.packet = n
    BY <1>3, <2>1 DEF FrameType
  <2>4. x.packet.stalled = FALSE /\ x.packet.remaining = next
    OBVIOUS
  <2> HIDE DEF n
  <2>5. dupe_0' \in AtMostOne(Packets) /\ dupe_0' # <<>> /\ dupe_0'[1] = n
    BY <2>1, <2>2 DEF AtMostOne
  <2>6. NewFrame' = <<[packet |-> dupe_0'[1], off |-> frame_off']>>
        /\ NewFrame' \in AtMostOne(FrameType)
    BY <1>3, <2>2, <2>5, FrameMade
  <2>7. NewFrame' = <<x>> /\ NewFrame' # <<>>
    BY <2>2, <2>5, <2>6
  <2> HIDE DEF x
  <2>8. GoodLine(Append(Line, x), Append(awaited, x.packet.remaining), wire, TRUE)
    BY <1>0, <1>1, <1>8, <1>9, <1>10, <2>3, <2>4, LineBegins
  <2>9. (Frames \o made) \o NewFrame' = Append(Line, x)
    BY <1>0, <1>8, <1>9, <1>10, <2>3, <2>7, AppendIsConcat
  <2>10. awaited \o new = Append(awaited, x.packet.remaining)
    BY <1>1, <2>2, <2>4, AppendIsConcat
  <2>11. Append(Line, x) \in Seq(FrameType) /\ Append(awaited, x.packet.remaining) \in Seq(Remaining)
    BY <1>1, <1>8, <2>3, <2>4
  <2>12. (dupe_0' # <<>>) = TRUE
    BY <2>5
  <2>13. QED
    BY <1>3, <1>5, <2>2, <2>5, <2>6, <2>7, <2>8, <2>9, <2>10, <2>11, <2>12
<1>11. CASE ~accepted /\ d0r
  <2>1. dupe_0' = <<>> /\ new = <<>> /\ frame_off' \in 0..MaxOffset
    BY <1>2, <1>5, <1>11
  <2>2. dupe_0' \in AtMostOne(Packets)
    BY <2>1 DEF AtMostOne
  <2>3. NewFrame' = <<>> /\ NewFrame' \in AtMostOne(FrameType)
    BY <1>3, <2>1, <2>2, FrameMade
  <2>4. (Frames \o made) \o NewFrame' = Line /\ awaited \o new = awaited
    BY <1>1, <1>6, <1>8, <1>9, <1>11, <2>1, <2>3
  <2>5. (dupe_0' # <<>>) = FALSE
    BY <2>1
  <2>6. QED
    BY <1>1, <1>5, <1>8, <1>9, <1>11, <2>1, <2>2, <2>3, <2>4, <2>5
<1>12. CASE ~accepted /\ ~d0r /\ d1r
  <2> DEFINE x == [packet |-> dupe_0[1], off |-> frame_off + FRAME]
  <2>1. dupe_0 # <<>> /\ ~Last /\ ~Ends(f)
    BY <1>0, <1>7, <1>12
  <2>2. dupe_0' = dupe_0 /\ new = <<>> /\ made = NewFrame
    BY <1>2, <1>12 DEF Kept, d1r
  <2>3. f.packet = dupe_0[1] /\ f.off = frame_off
    OBVIOUS
  <2>4. NewFrame = <<f>> /\ f \in FrameType
    BY <1>4, <2>1
  <2> HIDE DEF f
  <2>5. frame_off' = frame_off + FRAME /\ frame_off' \in 0..MaxOffset
    BY <1>1, <1>2, <1>7, <1>12, <2>1, <2>3, LastMade
  <2>6. NewFrame' = <<x>> /\ x \in FrameType /\ NewFrame' \in AtMostOne(FrameType)
    BY <1>1, <1>3, <2>1, <2>2, <2>5, FrameMade
  <2>7. x.packet = f.packet /\ x.off = f.off + FRAME
    BY <2>3
  <2> HIDE DEF x
  <2>8. Line # <<>> /\ Line[Len(Line)] = f /\ Frames \o made = Line
    <3>1. Frames \o made = Line
      BY <2>2, Zenon DEF Line
    <3>2. Line = Frames \o <<f>>
      BY <2>4, Zenon DEF Line
    <3>3. QED
      BY <2>4, <3>1, <3>2
  <2>9. GoodLine(Append(Line, x), awaited, wire, TRUE)
    BY <1>1, <1>8, <2>1, <2>6, <2>7, <2>8, LineContinues
  <2>10. (Frames \o made) \o NewFrame' = Append(Line, x) /\ Append(Line, x) \in Seq(FrameType)
    <3>1. Line \o <<x>> = Append(Line, x)
      BY <1>8, <2>6, AppendIsConcat
    <3>2. (Frames \o made) \o NewFrame' = Line \o <<x>>
      BY <2>6, <2>8, Zenon
    <3>3. Append(Line, x) \in Seq(FrameType)
      BY <1>8, <2>6
    <3>4. QED
      BY <3>1, <3>2, <3>3, Zenon
  <2>11. awaited \o new = awaited /\ (dupe_0' # <<>>) = TRUE /\ NewFrame' # <<>>
    BY <1>1, <2>1, <2>2, <2>6
  <2>12. QED
    BY <1>1, <1>5, <2>1, <2>2, <2>5, <2>6, <2>9, <2>10, <2>11
<1>13. CASE ~accepted /\ ~d0r /\ ~d1r
  <2> DEFINE k == [dupe_0[1] EXCEPT !.stalled = TRUE]
             y == [packet |-> k, off |-> frame_off']
  <2>1. dupe_0 # <<>> /\ new = <<>> /\ made = <<>>
    BY <1>0, <1>2, <1>13 DEF d1r
  <2>2. dupe_0[1] \in Packets /\ k \in Packets /\ k.stalled = TRUE
        /\ k.remaining = dupe_0[1].remaining
    BY <1>7, <2>1 DEF Packets
  <2>3. dupe_0' = <<k>>
    <3>1. dupe_0' = [i \in DOMAIN dupe_0 |-> [dupe_0[i] EXCEPT !.stalled = TRUE]]
      BY <1>2, <1>13 DEF Kept
    <3>2. DOMAIN dupe_0 = 1..1
      BY <1>1, <2>1, Register
    <3>3. dupe_0' = [i \in 1..1 |-> k]
      BY <3>1, <3>2
    <3>4. ASSUME NEW z PROVE [i \in 1..1 |-> z] = <<z>>
      OBVIOUS
    <3> HIDE DEF k
    <3>5. QED
      BY <3>3, <3>4
  <2> HIDE DEF k
  <2>4. dupe_0' \in AtMostOne(Packets) /\ dupe_0' # <<>> /\ dupe_0'[1] = k
    BY <2>2, <2>3 DEF AtMostOne
  <2>5. frame_off' \in 0..MaxOffset
    BY <1>2, <1>5, <1>13
  <2>6. NewFrame' = <<y>> /\ y \in FrameType /\ NewFrame' \in AtMostOne(FrameType)
    BY <1>3, <2>4, <2>5, FrameMade
  <2>7. /\ y.packet.remaining = f.packet.remaining /\ y.packet.stalled
        /\ NewFrame = <<f>> /\ f \in FrameType
    BY <1>4, <2>1, <2>2
  <2> HIDE DEF y, f
  <2>8. Line = Append(Frames, f)
    BY <2>7, AppendIsConcat DEF Line
  <2>9. GoodLine(Append(Frames, y), awaited, wire, TRUE)
    BY <1>1, <2>6, <2>7, <2>8, LineStalls
  <2>10. (Frames \o made) \o NewFrame' = Append(Frames, y) /\ Append(Frames, y) \in Seq(FrameType)
    <3>1. Frames \o <<y>> = Append(Frames, y)
      BY <2>6, AppendIsConcat
    <3>2. Frames \o made = Frames
      BY <1>6, <2>1
    <3>3. (Frames \o made) \o NewFrame' = Frames \o <<y>>
      BY <2>6, <3>2, Zenon
    <3>4. Append(Frames, y) \in Seq(FrameType)
      BY <2>6
    <3>5. QED
      BY <3>1, <3>3, <3>4, Zenon
  <2>11. awaited \o new = awaited /\ (dupe_0' # <<>>) = TRUE /\ NewFrame' # <<>>
    BY <1>1, <2>1, <2>4, <2>6
  <2>12. QED
    BY <1>1, <1>5, <2>4, <2>5, <2>6, <2>9, <2>10, <2>11
<1>14. QED
  BY <1>0, <1>10, <1>11, <1>12, <1>13

\* The first frame of the line is the one that is offered to the network.
LEMMA FirstOnWire ==
  ASSUME FullType, xmit # <<>>
  PROVE  /\ Line \in Seq(FrameType) /\ Line # <<>> /\ 1 \in 1..Len(Line)
         /\ Line[1].packet = xmit[1].packet /\ Line[1].off = xmit[1].off
         /\ xmit[1].packet \in Packets /\ xmit[1].off \in 0..MaxOffset
<1> DEFINE f == [packet |-> xmit[1].packet, off |-> xmit[1].off]
           rest == Bare(pay_1) \o (pending \o (pay_0 \o dupe_1))
<1>1. /\ xmit \in AtMostOne(PaidType) /\ pay_1 \in AtMostOne(PaidType)
      /\ pending \in Seq(FrameType)
      /\ pay_0 \in AtMostOne(FrameType) /\ dupe_1 \in AtMostOne(FrameType)
      /\ dupe_0 \in AtMostOne(Packets) /\ frame_off \in 0..MaxOffset
  BY DEF FullType, TypeOK, PaidType
<1>2. xmit[1] \in PaidType
  BY <1>1, Register
<1>3. Bare(xmit) = <<f>> /\ f \in FrameType
  BY <1>1, <1>2, BareFrame DEF PaidType, FrameType
<1>4. rest \in Seq(FrameType)
  <2>1. /\ Bare(pay_1) \in Seq(FrameType) /\ pay_0 \in Seq(FrameType)
        /\ dupe_1 \in Seq(FrameType)
    BY <1>1, BareFrame, Register
  <2>2. QED
    BY <1>1, <2>1
<1>5. NewFrame \in Seq(FrameType)
  <2>1. NewFrame = Made(dupe_0, frame_off)
    BY DEF NewFrame, Made
  <2>2. QED
    BY <1>1, <2>1, FrameMade, Register
<1>6. f.packet = xmit[1].packet /\ f.off = xmit[1].off
  OBVIOUS
<1>7. Line = (Bare(xmit) \o rest) \o NewFrame
  BY DEF Line, Frames
<1> HIDE DEF f, rest
<1>8. Line = (<<f>> \o rest) \o NewFrame
  BY <1>3, <1>7, Zenon
<1>9. /\ Line \in Seq(FrameType) /\ Line[1] = f
      /\ Len(Line) = (1 + Len(rest)) + Len(NewFrame)
      /\ Len(rest) \in Nat /\ Len(NewFrame) \in Nat
  BY <1>3, <1>4, <1>5, <1>8
<1>10. Line # <<>> /\ 1 \in 1..Len(Line)
  BY <1>9
<1>11. QED
  BY <1>2, <1>6, <1>9, <1>10 DEF PaidType

\* A cycle: the line loses the frame that goes on the wire and grows at its back.
LEMMA LineStep ==
  ASSUME EgressInv, NEW offer \in BOOLEAN, NEW accept \in BOOLEAN, NEW answer \in BOOLEAN,
         NEW tready \in BOOLEAN, Cycle(offer, accept, answer, tready)
  PROVE  /\ FullType'
         /\ GoodLine(Line', awaited', wire', dupe_0' # <<>>)
<1> DEFINE gone == IF tready THEN Bare(xmit) ELSE <<>>
           made == IF Dupe1Ready(tready, answer, accept) THEN NewFrame ELSE <<>>
           accepted == /\ offer /\ Dupe0Ready(tready, answer, accept)
                       /\ Len(awaited) < MaxPackets
           new == IF accepted THEN <<next>> ELSE <<>>
           G == (Frames \o made) \o NewFrame'
           open == dupe_0' # <<>>
<1>1. FullType /\ Paired
  BY DEF EgressInv
<1>2. /\ dupe_1' \in AtMostOne(FrameType) /\ pay_0' \in AtMostOne(FrameType)
      /\ pending' \in Seq(FrameType) /\ Len(pending') <= DEPTH
      /\ pay_1' \in AtMostOne(PaidType) /\ xmit' \in AtMostOne(PaidType)
      /\ Frames \in Seq(FrameType) /\ Frames' \in Seq(FrameType)
      /\ gone \in Seq(FrameType) /\ made \in Seq(FrameType)
      /\ Passes(gone, Frames', Frames, made)
  BY <1>1, FramesMove
<1>3. /\ dupe_0' \in AtMostOne(Packets) /\ frame_off' \in 0..MaxOffset
      /\ next' \in Remaining /\ NewFrame' \in AtMostOne(FrameType)
      /\ (NewFrame' = <<>>) <=> (dupe_0' = <<>>)
      /\ awaited \o new \in Seq(Remaining)
      /\ G \in Seq(FrameType)
      /\ GoodLine(G, awaited \o new, wire, open)
  <2>1. /\ made = IF Dupe1Ready(tready, answer, accept) THEN NewFrame ELSE <<>>
        /\ new = IF /\ offer /\ Dupe0Ready(tready, answer, accept)
                    /\ Len(awaited) < MaxPackets
                 THEN <<next>> ELSE <<>>
        /\ Frames \in Seq(FrameType)
    BY <1>2
  <2> HIDE DEF made, new
  <2>2. QED
    BY <2>1, LineGrows, SMTT(60)
<1>4. requests' \in Seq(0..LINE - 1)
  BY <1>1, PairedStep
<1>5. Transmit(tready, new)
  BY DEF Cycle
<1>6. /\ xmit \in AtMostOne(PaidType) /\ awaited \in Seq(Remaining)
      /\ GoodLine(Line, awaited, wire, dupe_0 # <<>>)
  BY DEF EgressInv, FullType
<1>7. new \in Seq(Remaining)
  BY <1>1 DEF FullType
<1> HIDE DEF made, accepted, new, open
<1>8. NewFrame' \in Seq(FrameType) /\ Line' \in Seq(FrameType)
  <2>1. NewFrame' \in Seq(FrameType)
    BY <1>3, Register
  <2>2. QED
    BY <1>2, <2>1 DEF Line
<1>9. G = gone \o Line'
  <2> HIDE DEF gone
  <2>1. (gone \o Frames') \o NewFrame' = gone \o (Frames' \o NewFrame')
    <3>1. ASSUME NEW a \in Seq(FrameType), NEW b \in Seq(FrameType), NEW c \in Seq(FrameType)
          PROVE  (a \o b) \o c = a \o (b \o c)
      OBVIOUS
    <3>2. QED
      BY <1>2, <1>8, <3>1, ZenonT(120)
  <2>2. gone \o Frames' = Frames \o made
    BY <1>2 DEF Passes
  <2>3. Line' = Frames' \o NewFrame'
    BY DEF Line
  <2>4. QED
    BY <2>1, <2>2, <2>3, Zenon
<1>10. awaited' \in Seq(Remaining) /\ GoodLine(Line', awaited', wire', open)
  <2>1. CASE xmit = <<>> \/ ~tready
    <3>1. gone = <<>>
      BY <1>6, <2>1, BareFrame
    <3>2. awaited' = awaited \o new /\ wire' = wire
      BY <1>5, <2>1 DEF Transmit
    <3>3. <<>> \o Line' = Line'
      BY <1>8
    <3>4. G = Line'
      BY <1>9, <3>1, <3>3, Zenon
    <3> HIDE DEF G, gone
    <3>5. QED
      BY <1>3, <3>2, <3>4, Zenon
  <2>2. CASE xmit # <<>> /\ tready
    <3> DEFINE f == [packet |-> xmit[1].packet, off |-> xmit[1].off]
    <3>1. gone = <<f>> /\ f \in FrameType
      <4>1. gone = Bare(xmit)
        BY <2>2
      <4>2. xmit[1] \in PaidType
        BY <1>6, <2>2, Register
      <4>3. QED
        BY <1>6, <2>2, <4>1, <4>2, BareFrame DEF PaidType, FrameType
    <3>2. (Ends(f) <=> Ends(xmit[1])) /\ f.off = xmit[1].off
      BY DEF Ends
    <3> HIDE DEF f
    <3>3. G = <<f>> \o Line'
      BY <1>9, <3>1, Zenon
    <3> HIDE DEF G
    <3>4. /\ G # <<>> /\ G[1] = f /\ Tail(G) = Line' /\ Len(G) = 1 + Len(Line')
      BY <1>8, <3>1, <3>3
    <3>5. Line' = Frames' \o NewFrame'
      BY DEF Line
    <3>6. Ends(G[1]) \/ Len(G) > 1
      <4>1. CASE open
        <5>1. NewFrame' # <<>> /\ Len(NewFrame') = 1
          BY <1>3, <4>1, Register DEF open
        <5>2. Len(Line') = Len(Frames') + 1 /\ Len(Frames') \in Nat
          <6>1. Len(Frames' \o NewFrame') = Len(Frames') + Len(NewFrame')
            BY <1>2, <1>8
          <6>2. Len(Frames') \in Nat
            BY <1>2
          <6>3. QED
            BY <3>5, <5>1, <6>1, <6>2
        <5>3. QED
          BY <3>4, <5>2
      <4>2. CASE ~open
        <5>1. Ends(G[Len(G)])
          BY <1>3, <3>4, <4>2 DEF GoodLine, Closed
        <5>2. Len(G) \in Nat /\ Len(G) >= 1
          BY <1>8, <3>4
        <5>3. QED
          BY <5>1, <5>2
      <4>3. QED
        BY <4>1, <4>2 DEF open
    <3> DEFINE all == awaited \o new
               left == IF Ends(f) THEN Tail(all) ELSE all
               seen == IF Ends(f) THEN {} ELSE wire \cup {f.off}
    <3>7. GoodLine(Line', left, seen, open)
      <4>1. /\ all # <<>>
            /\ GoodLine(Tail(G), IF Ends(G[1]) THEN Tail(all) ELSE all,
                        IF Ends(G[1]) THEN {} ELSE wire \cup {G[1].off}, open)
        <5> HIDE DEF all
        <5>1. all \in Seq(Remaining) /\ GoodLine(G, all, wire, open)
          BY <1>3 DEF all
        <5>2. QED
          BY <1>3, <3>4, <3>6, <5>1, LineDeparts
      <4>2. QED
        BY <3>4, <4>1
    <3>8. awaited # <<>>
      <4>1. Line # <<>> /\ 1 \in 1..Len(Line)
        BY <1>1, <2>2, FirstOnWire
      <4>2. Accounted(Line, awaited)
        BY <1>6 DEF GoodLine
      <4>3. Len(awaited) >= 1
        BY <1>6, <4>1, <4>2 DEF Accounted
      <4>4. QED
        BY <1>6, <4>3
    <3>9. Tail(all) = Tail(awaited) \o new /\ Tail(awaited) \in Seq(Remaining)
      <4>1. ASSUME NEW a \in Seq(Remaining), NEW b \in Seq(Remaining), a # <<>>
            PROVE  Tail(a \o b) = Tail(a) \o b /\ Tail(a) \in Seq(Remaining)
        BY <4>1, HeadTailProperties
      <4>2. QED
        BY <1>6, <1>7, <3>8, <4>1
    <3>10. awaited' = left /\ wire' = seen
      BY <1>5, <2>2, <3>2, <3>9 DEF Transmit
    <3>11. left \in Seq(Remaining)
      BY <1>3, <1>7, <3>9
    <3>12. QED
      BY <3>7, <3>10, <3>11, Zenon
  <2>3. QED
    BY <2>1, <2>2
<1>11. FullType'
  BY <1>2, <1>3, <1>4, <1>10 DEF FullType, TypeOK, PaidType
<1>12. QED
  BY <1>10, <1>11 DEF open

-----------------------------------------------------------------------------
\* The pipeline starts empty.
LEMMA EgressInit ==
  ASSUME Init
  PROVE  EgressInv
<1> USE EgressAssumption, FramesAssumption
<1>1. SIZE \in Remaining
  <2>1. 0 \in 0..SIZE /\ 0 * PAYLOAD = 0
    OBVIOUS
  <2>2. QED
    BY <2>1 DEF Remaining
<1>2. FullType
  BY <1>1 DEF Init, FullType, TypeOK, AtMostOne, MaxOffset
<1>3. Paired
  BY DEF Init, Paired
<1>4. Line = <<>>
  <2>1. DOMAIN <<>> = {}
    OBVIOUS
  <2>2. Bare(xmit) = <<>> /\ Bare(pay_1) = <<>> /\ NewFrame = <<>>
    BY <2>1 DEF Init, Bare, NewFrame
  <2>3. QED
    BY <2>2 DEF Init, Line, Frames
<1>5. Accounted(<<>>, awaited)
  <2> DEFINE g == [j \in 1..0 |-> 0]
  <2>1. g \in [1..0 -> Nat] /\ Len(<<>>) = 0 /\ 1..0 = {} /\ 1..(0 - 1) = {}
    OBVIOUS
  <2>2. awaited = <<>>
    BY DEF Init
  <2> HIDE DEF g
  <2>3. QED
    BY <2>1, <2>2 DEF Accounted
<1>6. GoodLine(<<>>, awaited, wire, dupe_0 # <<>>)
  BY <1>5 DEF Init, GoodLine, Adjacent, Aligned, OnWire, Closed
<1>7. QED
  BY <1>2, <1>3, <1>4, <1>6 DEF EgressInv

\* The invariant survives a cycle, whoever is ready in it.
LEMMA EgressStep ==
  ASSUME EgressInv, [Next]_vars
  PROVE  EgressInv'
<1>1. CASE Next
  <2>1. PICK offer, accept, answer, tready \in BOOLEAN : Cycle(offer, accept, answer, tready)
    BY <1>1 DEF Next
  <2>2. FullType' /\ GoodLine(Line', awaited', wire', dupe_0' # <<>>)
    BY <2>1, LineStep
  <2>3. Paired'
    BY <2>1, PairedStep DEF EgressInv
  <2>4. GoodLine(Line, awaited, wire, dupe_0 # <<>>)'
    BY <2>2 DEF GoodLine, Accounted, Adjacent, Aligned, OnWire, Closed, Ends, Segment, InPacket
  <2>5. QED
    BY <2>2, <2>3, <2>4 DEF EgressInv
<1>2. CASE UNCHANGED vars
  <2>1. FullType' /\ Paired'
    BY <1>2 DEF vars, stages, EgressInv, FullType, TypeOK, Paired, FinalOffset, Offset
  <2>2. Line' = Line
    BY <1>2 DEF vars, stages, Line, Frames, Bare, NewFrame
  <2>3. GoodLine(Line, awaited, wire, dupe_0 # <<>>)
    BY DEF EgressInv
  <2>4. GoodLine(Line', awaited', wire', dupe_0' # <<>>)
    BY <1>2, <2>2, <2>3 DEF vars, stages
  <2>5. GoodLine(Line, awaited, wire, dupe_0 # <<>>)'
    BY <2>4 DEF GoodLine, Accounted, Adjacent, Aligned, OnWire, Closed, Ends, Segment, InPacket
  <2>6. QED
    BY <2>1, <2>5 DEF EgressInv
<1>3. QED
  BY <1>1, <1>2

\* The inductive invariant of the pipeline.
THEOREM EgressInvariant == Spec => []EgressInv
<1>1. Init => EgressInv
  BY EgressInit
<1>2. EgressInv /\ [Next]_vars => EgressInv'
  BY EgressStep
<1>3. QED
  BY <1>1, <1>2, PTL DEF Spec

\* Every register of PPegressDupe, PPegressPayload and PPegressXmit holds a value
\* of its type, and pending never holds more than its DEPTH entries.
THEOREM TypeCorrect == Spec => []TypeOK
<1>1. EgressInv => TypeOK
  BY DEF EgressInv, FullType
<1>2. QED
  BY <1>1, EgressInvariant, PTL

\* PPegressXmit sends the packets in the order PPegressDupe accepted them, each up
\* to a last frame, under any back pressure of the network and of the payload RAM.
THEOREM PacketsKeepOrder == Spec => []PacketsInOrder
<1>1. EgressInv => PacketsInOrder
  <2> SUFFICES ASSUME EgressInv, xmit # <<>>
               PROVE  awaited # <<>> /\ xmit[1].packet.remaining = awaited[1]
    BY DEF PacketsInOrder
  <2>1. /\ Line \in Seq(FrameType) /\ Line # <<>> /\ 1 \in 1..Len(Line)
        /\ Line[1].packet = xmit[1].packet
    BY FirstOnWire DEF EgressInv
  <2>2. Accounted(Line, awaited) /\ awaited \in Seq(Remaining)
    BY DEF EgressInv, GoodLine, FullType
  <2>3. 1 \in 1..Len(awaited) /\ awaited[1] = Line[1].packet.remaining
    BY <2>1, <2>2 DEF Accounted
  <2>4. QED
    BY <2>1, <2>2, <2>3
<1>2. QED
  BY <1>1, EgressInvariant, PTL

\* The answers of the payload RAM, which come any number of cycles after the reads,
\* are given to the frames that asked: a frame carries the cached bytes of its own
\* place in the message (the second frame and one over the end of the cache line
\* excepted, see OwnPayload).
THEOREM PayloadsOwn == Spec => []OwnPayload
<1>1. EgressInv => OwnPayload
  <2> SUFFICES ASSUME EgressInv, xmit # <<>>, InPacket(xmit[1]), WithinLine(xmit[1]),
                      xmit[1].off # FRAME
               PROVE  Carried(xmit[1]) = Cached(xmit[1])
    BY DEF OwnPayload
  <2> DEFINE f == xmit[1]
             n == PayloadBytes(f.off, Segment(f.packet))
             first == Offset(f.packet) + PayloadOffset(f.off)
             r == first % LINE
  <2>1. f.packet \in Packets /\ f.off \in 0..MaxOffset
    BY FirstOnWire DEF EgressInv
  <2>2. f.packet.remaining \in Int /\ f.off \in Int
    BY <2>1, RemainingPositive, FramesAssumption DEF Packets, MaxOffset
  <2>3. Segment(f.packet) \in Int /\ PayloadOffset(f.off) \in Int
    BY <2>2, FramesAssumption DEF Segment, SegLen, PayloadOffset
  <2>4. n \in Int /\ first \in Int
    BY <2>2, <2>3, FramesAssumption, EgressAssumption DEF PayloadBytes, Offset
  <2>5. r + n <= LINE /\ f.payload = r
    BY DEF WithinLine, EgressInv, Paired, FinalOffset
  <2>6. Carried(f) = {f.payload + b : b \in 0..0 + n - 1}
    BY DEF Carried, CarriedBytes
  <2>7. Cached(f) = {b % LINE : b \in first..first + n - 1}
    BY DEF Cached
  <2>8. ASSUME NEW a \in Int PROVE a % LINE \in 0..LINE - 1
    BY EgressAssumption
  <2>9. r \in 0..LINE - 1 /\ LINE \in Nat \ {0}
    BY <2>4, <2>8, EgressAssumption
  <2>10. first % LINE = r
    OBVIOUS
  <2> HIDE DEF f, n, first, r
  <2>11. ASSUME NEW b \in 0..0 + n - 1 PROVE (first + b) % LINE = r + b
    <3>1. b \in Int /\ r \in Int /\ r + b >= 0 /\ r + b < LINE
      BY <2>4, <2>5, <2>9
    <3>2. LINE \in Nat \ {0} /\ first \in Int
      BY <2>4, <2>9
    <3>3. QED
      BY <2>10, <3>1, <3>2, RemainderAdds, ZenonT(60)
  <2>12. ASSUME NEW x \in Carried(f) PROVE x \in Cached(f)
    <3>1. PICK b \in 0..0 + n - 1 : x = f.payload + b
      BY <2>6
    <3>2. x = (first + b) % LINE
      BY <2>5, <2>11, <3>1
    <3>3. first + b \in first..first + n - 1
      BY <2>4, <3>1
    <3>4. QED
      BY <2>7, <3>2, <3>3, Zenon
  <2>13. ASSUME NEW x \in Cached(f) PROVE x \in Carried(f)
    <3>1. PICK c \in first..first + n - 1 : x = c % LINE
      BY <2>7, Zenon
    <3>2. PICK b \in 0..0 + n - 1 : c = first + b
      <4>1. c - first \in 0..0 + n - 1 /\ c = first + (c - first)
        BY <2>4, <3>1
      <4>2. QED
        BY <4>1
    <3>3. x = (first + b) % LINE
      BY <3>1, <3>2, Zenon
    <3>4. x = f.payload + b
      BY <2>5, <2>11, <3>2, <3>3
    <3>5. QED
      BY <2>6, <3>2, <3>4
  <2>14. Carried(f) = Cached(f)
    BY <2>12, <2>13
  <2>15. QED
    BY <2>14 DEF f
<1>2. QED
  BY <1>1, EgressInvariant, PTL

\* A packet none of whose frames had to wait in front of dupe_1 goes on the wire
\* with a frame at each of its offsets, however long the frames wait behind dupe_1.
THEOREM UnstalledPacketsComplete == Spec => []UnstalledComplete
<1>1. EgressInv => UnstalledComplete
  <2> SUFFICES ASSUME EgressInv, xmit # <<>>, Ends(xmit[1]), ~xmit[1].packet.stalled
               PROVE  Complete(xmit[1])
    BY DEF UnstalledComplete
  <2> DEFINE off == xmit[1].off
             seg == Segment(xmit[1].packet)
  <2>1. /\ Line \in Seq(FrameType) /\ Line # <<>> /\ 1 \in 1..Len(Line)
        /\ Line[1].packet = xmit[1].packet /\ Line[1].off = xmit[1].off
        /\ xmit[1].packet \in Packets /\ xmit[1].off \in 0..MaxOffset
    BY FirstOnWire DEF EgressInv
  <2>2. wire = Multiples(off)
    BY <2>1 DEF EgressInv, GoodLine, OnWire
  <2>3. off % FRAME = 0 /\ off < PacketBytes(seg)
    BY <2>1 DEF EgressInv, GoodLine, Aligned, InPacket
  <2>4. off \in Nat /\ seg \in Int
    BY <2>1, RemainingPositive, FramesAssumption DEF Packets, MaxOffset, Segment, SegLen
  <2>5. off + FRAME >= PacketBytes(seg)
    BY <2>4, FramesAssumption DEF Ends, LastFrame, PacketBytes
  <2>6. \A m \in (off + 1)..(off + FRAME - 1) : m % FRAME # 0
    BY <2>3, <2>4, NextMultiple
  <2>7. PacketBytes(seg) \in Int /\ FRAME \in Nat
    BY <2>4, FramesAssumption DEF PacketBytes
  <2> HIDE DEF off, seg
  <2>8. ASSUME NEW m \in Multiples(off) \cup {off} PROVE m \in FrameOffsets(seg)
    <3>1. m \in 0..PacketBytes(seg) - 1 /\ m % FRAME = 0
      BY <2>3, <2>4, <2>7 DEF Multiples
    <3>2. QED
      BY <3>1, Zenon DEF FrameOffsets
  <2>9. ASSUME NEW m \in FrameOffsets(seg) PROVE m \in Multiples(off) \cup {off}
    <3>1. m \in 0..PacketBytes(seg) - 1 /\ m % FRAME = 0
      BY Zenon DEF FrameOffsets
    <3>2. m \in 0..(off - 1) \/ m = off
      BY <2>4, <2>5, <2>6, <2>7, <3>1
    <3>3. QED
      BY <3>1, <3>2, Zenon DEF Multiples
  <2>10. wire \cup {off} = FrameOffsets(seg)
    BY <2>2, <2>8, <2>9
  <2>11. QED
    BY <2>10 DEF Complete, off, seg
<1>2. QED
  BY <1>1, EgressInvariant, PTL

-----------------------------------------------------------------------------
\* The arithmetic of the frames of a packet.

\* The offsets at which PPegressDupe starts frames, as far as it matters here.
FrameStart(off) == off \in Int /\ (off = 0 \/ off = FRAME \/ off >= 2 * FRAME)

\* A frame that is not the last is followed by one whose payload begins where
\* its own ends: the frames of payloadOffset() and payloadBytes() leave no gap
\* and do not overlap.
THEOREM FramesAdjoin ==
  ASSUME NEW seg_len \in Nat, NEW off \in Int, FrameStart(off),
         ~LastFrame(off, seg_len)
  PROVE  PayloadOffset(off) + PayloadBytes(off, seg_len) = PayloadOffset(off + FRAME)
<1> USE FramesAssumption DEF PayloadOffset, PayloadBytes, LastFrame, FrameStart
<1>1. CASE off = 0
  BY <1>1
<1>2. CASE off = FRAME
  BY <1>2
<1>3. CASE off >= 2 * FRAME
  BY <1>3
<1>4. QED
  BY <1>1, <1>2, <1>3

\* The payload of the last frame is not empty unless the segment is, and ends
\* where the segment ends.
THEOREM LastFrameEnds ==
  ASSUME NEW seg_len \in Nat, NEW off \in Int, FrameStart(off),
         LastFrame(off, seg_len), off < PacketBytes(seg_len)
  PROVE  /\ PayloadOffset(off) + PayloadBytes(off, seg_len) = seg_len
         /\ PayloadBytes(off, seg_len) \in 0..FRAME
         /\ seg_len > 0 => PayloadBytes(off, seg_len) > 0
<1> USE FramesAssumption
    DEF PayloadOffset, PayloadBytes, LastFrame, FrameStart, PacketBytes
<1>1. off # 0
  OBVIOUS
<1>2. CASE off = FRAME
  BY <1>2
<1>3. CASE off >= 2 * FRAME
  BY <1>3
<1>4. QED
  BY <1>1, <1>2, <1>3

\* The bytes a frame delivers are as many as it carries, from the FRAME bytes
\* that were read for it.
THEOREM CarriedWithinRead ==
  ASSUME NEW seg_len \in Nat, NEW off \in Int, FrameStart(off),
         off < PacketBytes(seg_len)
  PROVE  CarriedBytes(off, seg_len) \subseteq 0..FRAME - 1
<1> USE FramesAssumption
    DEF PayloadOffset, PayloadBytes, FrameStart, PacketBytes, CarriedBytes
<1>1. PayloadBytes(off, seg_len) \in 0..FRAME
  OBVIOUS
<1>2. QED
  BY <1>1
=============================================================================
