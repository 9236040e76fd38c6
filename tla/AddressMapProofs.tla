--------------------------- MODULE AddressMapProofs ---------------------------
(***************************************************************************)
(* The address map, proved for every number of channels, ports and         *)
(* translations and every back pressure: the translation of requests that  *)
(* do not wait, and the refinement of one RequestChannel a channel.        *)
(***************************************************************************)
EXTENDS MCAddressMap, Integers, SequenceTheorems, TLAPS

\* The ports are those of the driver, 1 to MAX_PORTS, and a channel has a slot
\* for each: the memory does not check it.
PortsFit == Ports \subseteq 1..Stride

\* What is in the memory or on its way there is the last translation accepted.
MemoryCurrent ==
  \A c \in Channels, p \in Ports : Written[Slot(c, p)] = current[c][p]

\* A request that waits for its read may be translated by what is in the
\* memory or about to be.
ReadableBases ==
  \A c \in Channels : queueIn[c] # <<>> =>
    /\ map[Slot(c, queueIn[c][1].port)] \in queueIn[c][1].bases
    /\ current[c][queueIn[c][1].port] \in queueIn[c][1].bases

\* What the read port shows belongs to the request in the read stage, unless
\* that one was there before the last edge.
ReadBelongs ==
  \A c \in Channels :
    readStage[c] # <<>> /\ ~readStage[c][1].stalled => read[c] \in readStage[c][1].bases

OutputRight ==
  \A c \in Channels :
    queueOut[c] # <<>> /\ ~queueOut[c][1].stalled =>
      \E b \in queueOut[c][1].bases : queueOut[c][1].pcie_addr = queueOut[c][1].offset + b

MapType ==
  /\ TypeOK
  /\ current \in [Channels -> [Ports -> Bases \cup {0}]]

MapInv == MapType /\ MemoryCurrent /\ ReadableBases /\ ReadBelongs /\ OutputRight

-----------------------------------------------------------------------------
\* A register that holds at most one value.
LEMMA Register ==
  ASSUME NEW S, NEW q \in AtMostOne(S)
  PROVE  /\ q # <<>> => q[1] \in S /\ q = <<q[1]>> /\ DOMAIN q = 1..1 /\ Len(q) = 1
         /\ q = <<>> => DOMAIN q = {} /\ Len(q) = 0
         /\ q \in Seq(S) /\ Len(q) \in 0..1
<1>1. CASE q = <<>>
  BY <1>1
<1>2. CASE q # <<>>
  <2>1. PICK x \in S : q = <<x>>
    BY <1>2 DEF AtMostOne
  <2>2. QED
    BY <2>1
<1>3. QED
  BY <1>1, <1>2

\* A register holds a value of its set if its value, where it has one, does.
LEMMA RegisterType ==
  ASSUME NEW S, NEW x \in S
  PROVE  <<>> \in AtMostOne(S) /\ <<x>> \in AtMostOne(S)
BY DEF AtMostOne

\* The slots of the channels do not overlap.
LEMMA SlotsDistinct ==
  ASSUME PortsFit, NEW c \in Channels, NEW d \in Channels, NEW p \in Ports, NEW r \in Ports,
         Slot(c, p) = Slot(d, r)
  PROVE  c = d /\ p = r
<1>1. c \in Nat /\ d \in Nat /\ p \in 1..Stride /\ r \in 1..Stride /\ Stride \in Nat \ {0}
  BY MapAssumption DEF PortsFit
<1>2. p + c * Stride = r + d * Stride
  BY DEF Slot
<1>3. c = d
  <2>1. CASE c < d
    <3>1. c + 1 <= d
      BY <1>1, <2>1
    <3>2. (c + 1) * Stride <= d * Stride
      BY <1>1, <3>1
    <3>3. (c + 1) * Stride = c * Stride + Stride
      BY <1>1
    <3>4. QED
      BY <1>1, <1>2, <3>2, <3>3
  <2>2. CASE d < c
    <3>1. d + 1 <= c
      BY <1>1, <2>2
    <3>2. (d + 1) * Stride <= c * Stride
      BY <1>1, <3>1
    <3>3. (d + 1) * Stride = d * Stride + Stride
      BY <1>1
    <3>4. QED
      BY <1>1, <1>2, <3>2, <3>3
  <2>3. QED
    BY <1>1, <2>1, <2>2
<1>4. QED
  BY <1>1, <1>2, <1>3

\* A request that has waited is the same but for its history.
LEMMA WaitingRequest ==
  ASSUME NEW q \in AtMostOne(InFlight), q # <<>>, NEW c \in Channels,
         NEW cur \in [Channels -> [Ports -> Bases \cup {0}]]
  PROVE  /\ Aged(c, q, cur) \in AtMostOne(InFlight) /\ Aged(c, q, cur) # <<>>
         /\ Aged(c, q, cur)[1].port = q[1].port /\ Aged(c, q, cur)[1].offset = q[1].offset
         /\ Aged(c, q, cur)[1].bases = q[1].bases \cup {cur[c][q[1].port]}
         /\ Stalled(q) \in AtMostOne(InFlight) /\ Stalled(q) # <<>>
         /\ Stalled(q)[1].port = q[1].port /\ Stalled(q)[1].offset = q[1].offset
         /\ Stalled(q)[1].stalled
<1> DEFINE x == q[1]
           a == [x EXCEPT !.bases = @ \cup {cur[c][x.port]}]
           w == [x EXCEPT !.stalled = TRUE]
<1>1. x \in InFlight /\ q = <<x>> /\ DOMAIN q = 1..1
  BY Register
<1>2. Aged(c, q, cur) = <<a>>
  BY DEF Aged
<1>3. Stalled(q) = <<w>>
  <2>1. ASSUME NEW y PROVE [i \in 1..1 |-> y] = <<y>>
    OBVIOUS
  <2>2. ASSUME NEW i \in 1..1 PROVE [q[i] EXCEPT !.stalled = TRUE] = w
    <3>1. i = 1
      OBVIOUS
    <3>2. QED
      BY <3>1
  <2>3. QED
    BY <1>1, <2>1, <2>2 DEF Stalled
<1>4. x.port \in Ports /\ cur[c][x.port] \in Bases \cup {0}
  BY <1>1 DEF InFlight
<1>5. /\ a \in InFlight /\ a.port = x.port /\ a.offset = x.offset
      /\ a.bases = x.bases \cup {cur[c][x.port]}
  BY <1>1, <1>4 DEF InFlight
<1>6. w \in InFlight /\ w.port = x.port /\ w.offset = x.offset /\ w.stalled
  BY <1>1 DEF InFlight
<1>7. <<a>> \in AtMostOne(InFlight) /\ <<w>> \in AtMostOne(InFlight)
  BY <1>5, <1>6, RegisterType
<1> HIDE DEF x, a, w
<1>8. QED
  BY <1>2, <1>3, <1>5, <1>6, <1>7 DEF x

\* A request that arrives.
LEMMA ArrivingRequest ==
  ASSUME NEW requests \in [Channels -> AtMostOne(Requests)], NEW c \in Channels,
         requests[c] # <<>>,
         NEW cur \in [Channels -> [Ports -> Bases \cup {0}]],
         current \in [Channels -> [Ports -> Bases \cup {0}]]
  PROVE  /\ Accepted(c, requests, cur) \in AtMostOne(InFlight)
         /\ Accepted(c, requests, cur) # <<>>
         /\ Accepted(c, requests, cur)[1].port = requests[c][1].port
         /\ Accepted(c, requests, cur)[1].offset = requests[c][1].offset
         /\ Accepted(c, requests, cur)[1].bases =
              {current[c][requests[c][1].port], cur[c][requests[c][1].port]}
<1> DEFINE r == requests[c][1]
           e == [port |-> r.port, offset |-> r.offset,
                 bases |-> {current[c][r.port], cur[c][r.port]}, stalled |-> FALSE]
<1>1. r \in Requests
  BY Register
<1>2. r.port \in Ports /\ r.offset \in Offsets
  BY <1>1 DEF Requests
<1>3. current[c][r.port] \in Bases \cup {0} /\ cur[c][r.port] \in Bases \cup {0}
  BY <1>2
<1>4. e \in InFlight
  BY <1>2, <1>3 DEF InFlight
<1>5. Accepted(c, requests, cur) = <<e>>
  BY DEF Accepted
<1>6. <<e>> \in AtMostOne(InFlight)
  BY <1>4, RegisterType
<1>7. /\ e.port = requests[c][1].port /\ e.offset = requests[c][1].offset
      /\ e.bases = {current[c][requests[c][1].port], cur[c][requests[c][1].port]}
  OBVIOUS
<1> HIDE DEF e
<1>8. QED
  BY <1>5, <1>6, <1>7

\* A request that leaves the read stage.
LEMMA LeavingRequest ==
  ASSUME MapType, NEW c \in Channels, readStage[c] # <<>>
  PROVE  /\ Translation(c) \in AtMostOne(Translated) /\ Translation(c) # <<>>
         /\ Translation(c)[1].port = readStage[c][1].port
         /\ Translation(c)[1].offset = readStage[c][1].offset
         /\ Translation(c)[1].bases = readStage[c][1].bases
         /\ Translation(c)[1].stalled = readStage[c][1].stalled
         /\ Translation(c)[1].pcie_addr = readStage[c][1].offset + read[c]
<1> DEFINE x == readStage[c][1]
           e == [port |-> x.port, offset |-> x.offset, bases |-> x.bases,
                 stalled |-> x.stalled, pcie_addr |-> x.offset + read[c]]
<1>1. readStage[c] \in AtMostOne(InFlight) /\ read[c] \in Bases \cup {0}
  BY DEF MapType, TypeOK
<1>2. x \in InFlight
  BY <1>1, Register
<1>3. /\ x.port \in Ports /\ x.offset \in Offsets /\ x.bases \in SUBSET (Bases \cup {0})
      /\ x.stalled \in BOOLEAN
  BY <1>2 DEF InFlight
<1>4. x.offset + read[c] \in {o + b : o \in Offsets, b \in Bases \cup {0}}
  <2>1. \E o \in Offsets, b \in Bases \cup {0} : x.offset + read[c] = o + b
    BY <1>1, <1>3, Zenon
  <2>2. QED
    BY <2>1
<1>5. e \in Translated
  BY <1>3, <1>4 DEF Translated
<1>6. <<e>> \in AtMostOne(Translated)
  BY <1>5, RegisterType
<1>7. QED
  BY <1>6 DEF Translation

\* What a cycle does to the memory and to the history of translations.
LEMMA CurrentStep ==
  ASSUME MapType, NEW mapping \in AtMostOne(Mappings)
  PROVE  /\ Written \in [MemorySlots -> Bases \cup {0}]
         /\ Current(mapping) \in [Channels -> [Ports -> Bases \cup {0}]]
<1>1. /\ map \in [MemorySlots -> Bases \cup {0}] /\ dmaMapReg \in AtMostOne(Mappings)
      /\ current \in [Channels -> [Ports -> Bases \cup {0}]]
  BY DEF MapType, TypeOK
<1>2. dmaMapReg # <<>> => dmaMapReg[1].pcie_addr \in Bases
  <2>1. dmaMapReg # <<>> => dmaMapReg[1] \in Mappings
    BY <1>1, Register
  <2>2. QED
    BY <2>1 DEF Mappings
<1>3. Written \in [MemorySlots -> Bases \cup {0}]
  BY <1>1, <1>2 DEF Written
<1>4. mapping # <<>> => /\ mapping[1].pcie_addr \in Bases /\ mapping[1].port \in Ports
                        /\ mapping[1].map_type \in Channels
  <2>1. mapping # <<>> => mapping[1] \in Mappings
    BY Register
  <2>2. QED
    BY <2>1 DEF Mappings
<1>5. ASSUME mapping # <<>>
      PROVE  Current(mapping) \in [Channels -> [Ports -> Bases \cup {0}]]
  <2>1. [current[mapping[1].map_type] EXCEPT ![mapping[1].port] = mapping[1].pcie_addr]
          \in [Ports -> Bases \cup {0}]
    BY <1>1, <1>4, <1>5
  <2>2. QED
    BY <1>1, <1>4, <1>5, <2>1 DEF Current
<1>6. QED
  BY <1>1, <1>3, <1>5 DEF Current

\* Every cycle keeps the types.
LEMMA TypeStep ==
  ASSUME MapType, NEW mapping \in AtMostOne(Mappings),
         NEW requests \in [Channels -> AtMostOne(Requests)],
         NEW take \in SUBSET Channels, Cycle(mapping, requests, take)
  PROVE  MapType'
<1>0. TypeOK /\ current \in [Channels -> [Ports -> Bases \cup {0}]]
  BY DEF MapType
<1>1. /\ map' \in [MemorySlots -> Bases \cup {0}]
      /\ current' \in [Channels -> [Ports -> Bases \cup {0}]]
      /\ current' = Current(mapping)
  BY CurrentStep DEF Cycle
<1>2. dmaMapReg' \in AtMostOne(Mappings) /\ read' \in [Channels -> Bases \cup {0}]
  BY DEF Cycle
<1>3. queueIn' \in [Channels -> AtMostOne(InFlight)]
  <2>1. ASSUME NEW c \in Channels
        PROVE  Accepted(c, requests, current') \in AtMostOne(InFlight)
    <3>1. CASE requests[c] = <<>>
      BY <3>1 DEF Accepted, AtMostOne
    <3>2. CASE requests[c] # <<>>
      BY <1>0, <1>1, <3>2, ArrivingRequest
    <3>3. QED
      BY <3>1, <3>2
  <2>2. ASSUME NEW c \in Channels
        PROVE  Aged(c, queueIn[c], current') \in AtMostOne(InFlight)
    <3>1. queueIn[c] \in AtMostOne(InFlight)
      BY <1>0 DEF TypeOK
    <3>2. QED
      BY <1>1, <3>1, WaitingRequest DEF Aged
  <2>3. queueIn' = [c \in Channels |->
          IF InReady(c, take) THEN Accepted(c, requests, current')
                              ELSE Aged(c, queueIn[c], current')]
    BY <1>1 DEF Cycle
  <2>4. QED
    BY <2>1, <2>2, <2>3
<1>4. readStage' \in [Channels -> AtMostOne(InFlight)]
  <2>1. ASSUME NEW c \in Channels PROVE Stalled(readStage[c]) \in AtMostOne(InFlight)
    <3>1. readStage[c] \in AtMostOne(InFlight)
      BY <1>0 DEF TypeOK
    <3>2. CASE readStage[c] = <<>>
      <4>1. Stalled(<<>>) = <<>>
        BY DEF Stalled
      <4>2. QED
        BY <3>1, <3>2, <4>1
    <3>3. CASE readStage[c] # <<>>
      BY <3>1, <3>3, <1>1, WaitingRequest
    <3>4. QED
      BY <3>2, <3>3
  <2>2. QED
    BY <1>0, <2>1 DEF Cycle, TypeOK
<1>5. queueOut' \in [Channels -> AtMostOne(Translated)]
  <2>1. ASSUME NEW c \in Channels, readStage[c] # <<>>
        PROVE  Translation(c) \in AtMostOne(Translated)
    BY <2>1, LeavingRequest
  <2>2. <<>> \in AtMostOne(Translated)
    BY DEF AtMostOne
  <2>3. QED
    BY <1>0, <2>1, <2>2 DEF Cycle, TypeOK
<1>6. QED
  BY <1>1, <1>2, <1>3, <1>4, <1>5 DEF MapType, TypeOK

\* A cycle writes each slot it has a translation for, and no other.
LEMMA MemoryStep ==
  ASSUME PortsFit, MapType, MapType', MemoryCurrent,
         NEW mapping \in AtMostOne(Mappings),
         map' = Written, dmaMapReg' = mapping, current' = Current(mapping)
  PROVE  MemoryCurrent' /\ \A c \in Channels, p \in Ports : map'[Slot(c, p)] = current[c][p]
<1>1. \A c \in Channels, p \in Ports : map'[Slot(c, p)] = current[c][p]
  BY DEF MemoryCurrent
<1>2. /\ current \in [Channels -> [Ports -> Bases \cup {0}]]
      /\ map' \in [MemorySlots -> Bases \cup {0}]
  BY DEF MapType, TypeOK
<1>3. \A c \in Channels, p \in Ports : Slot(c, p) \in MemorySlots
  BY DEF MemorySlots
<1>4. CASE mapping = <<>>
  BY <1>1, <1>4 DEF MemoryCurrent, Written, Current
<1>5. CASE mapping # <<>>
  <2> DEFINE m == mapping[1]
  <2>1. m \in Mappings
    BY <1>5, Register
  <2>2. m.map_type \in Channels /\ m.port \in Ports
    BY <2>1 DEF Mappings
  <2>3. ASSUME NEW c \in Channels, NEW p \in Ports
        PROVE  [map' EXCEPT ![Slot(m.map_type, m.port)] = m.pcie_addr][Slot(c, p)]
                 = current'[c][p]
    <3>1. current' = [current EXCEPT ![m.map_type][m.port] = m.pcie_addr]
      BY <1>5 DEF Current
    <3>2. CASE c = m.map_type /\ p = m.port
      BY <1>2, <1>3, <2>2, <3>1, <3>2
    <3>3. CASE ~(c = m.map_type /\ p = m.port)
      <4>1. Slot(c, p) # Slot(m.map_type, m.port)
        BY <2>2, <3>3, SlotsDistinct
      <4>2. current'[c][p] = current[c][p]
        BY <1>2, <2>2, <3>1, <3>3
      <4>3. QED
        BY <1>1, <1>2, <1>3, <4>1, <4>2
    <3>4. QED
      BY <3>2, <3>3
  <2>4. Written' = [map' EXCEPT ![Slot(m.map_type, m.port)] = m.pcie_addr]
    BY <1>5 DEF Written, Slot
  <2>5. QED
    BY <1>1, <2>3, <2>4 DEF MemoryCurrent, Slot
<1>6. QED
  BY <1>4, <1>5

\* Every cycle keeps the invariant of the translation.
LEMMA TranslationStep ==
  ASSUME PortsFit, MapInv, NEW mapping \in AtMostOne(Mappings),
         NEW requests \in [Channels -> AtMostOne(Requests)],
         NEW take \in SUBSET Channels, Cycle(mapping, requests, take)
  PROVE  MapInv'
<1>0. MapType /\ MemoryCurrent /\ ReadableBases /\ ReadBelongs /\ OutputRight
  BY DEF MapInv
<1>1. MapType'
  BY <1>0, TypeStep
<1>2. map' = Written /\ dmaMapReg' = mapping /\ current' = Current(mapping)
  BY DEF Cycle
<1>3. MemoryCurrent' /\ \A c \in Channels, p \in Ports : map'[Slot(c, p)] = current[c][p]
  BY <1>0, <1>1, <1>2, MemoryStep
<1>t. /\ current \in [Channels -> [Ports -> Bases \cup {0}]]
      /\ current' \in [Channels -> [Ports -> Bases \cup {0}]]
      /\ queueIn \in [Channels -> AtMostOne(InFlight)]
      /\ readStage \in [Channels -> AtMostOne(InFlight)]
  BY <1>0, <1>1 DEF MapType, TypeOK
<1>4. ReadableBases'
  <2> SUFFICES ASSUME NEW c \in Channels, queueIn'[c] # <<>>
               PROVE  /\ map'[Slot(c, queueIn'[c][1].port)] \in queueIn'[c][1].bases
                      /\ current'[c][queueIn'[c][1].port] \in queueIn'[c][1].bases
    BY DEF ReadableBases, Slot
  <2>0. queueIn'[c][1].port \in Ports
    <3>1. queueIn'[c] \in AtMostOne(InFlight)
      BY <1>1 DEF MapType, TypeOK
    <3>2. queueIn'[c][1] \in InFlight
      BY <3>1, Register
    <3>3. QED
      BY <3>2 DEF InFlight
  <2>1. CASE InReady(c, take)
    <3>1. queueIn'[c] = Accepted(c, requests, current')
      BY <1>2, <2>1 DEF Cycle
    <3>2. requests[c] # <<>>
      BY <3>1 DEF Accepted
    <3>3. queueIn'[c][1].bases =
            {current[c][requests[c][1].port], current'[c][requests[c][1].port]}
          /\ queueIn'[c][1].port = requests[c][1].port
      <4>1. \A cur \in [Channels -> [Ports -> Bases \cup {0}]] :
              /\ Accepted(c, requests, cur)[1].port = requests[c][1].port
              /\ Accepted(c, requests, cur)[1].bases =
                   {current[c][requests[c][1].port], cur[c][requests[c][1].port]}
        BY <1>t, <3>2, ArrivingRequest, ZenonT(60)
      <4>2. QED
        BY <1>t, <3>1, <4>1
    <3>4. QED
      BY <1>3, <2>0, <3>3
  <2>2. CASE ~InReady(c, take)
    <3>1. queueIn'[c] = Aged(c, queueIn[c], current')
      BY <1>2, <2>2 DEF Cycle
    <3>2. queueIn[c] # <<>>
      BY <3>1 DEF Aged
    <3>3. /\ queueIn'[c][1].port = queueIn[c][1].port
          /\ queueIn'[c][1].bases = queueIn[c][1].bases \cup {current'[c][queueIn[c][1].port]}
      BY <1>t, <3>1, <3>2, WaitingRequest
    <3>4. current[c][queueIn[c][1].port] \in queueIn[c][1].bases
      BY <1>0, <3>2 DEF ReadableBases
    <3>5. QED
      BY <1>3, <2>0, <3>3, <3>4
  <2>3. QED
    BY <2>1, <2>2
<1>5. ReadBelongs'
  <2> SUFFICES ASSUME NEW c \in Channels, readStage'[c] # <<>>, ~readStage'[c][1].stalled
               PROVE  read'[c] \in readStage'[c][1].bases
    BY DEF ReadBelongs
  <2>1. CASE StageReady(c, take)
    <3>1. readStage'[c] = queueIn[c] /\ queueIn[c] # <<>>
      BY <2>1 DEF Cycle
    <3>2. read'[c] \in {map[Slot(c, queueIn[c][1].port)], Written[Slot(c, queueIn[c][1].port)]}
      BY <2>1, <3>1 DEF Cycle, ReadResults
    <3>3. queueIn[c][1].port \in Ports
      <4>1. queueIn[c][1] \in InFlight
        BY <1>t, <3>1, Register
      <4>2. QED
        BY <4>1 DEF InFlight
    <3>4. Written[Slot(c, queueIn[c][1].port)] = current[c][queueIn[c][1].port]
      BY <1>0, <3>3 DEF MemoryCurrent
    <3>5. QED
      BY <1>0, <3>1, <3>2, <3>4 DEF ReadableBases
  <2>2. CASE ~StageReady(c, take)
    <3>1. readStage'[c] = Stalled(readStage[c]) /\ readStage[c] # <<>>
      BY <2>2 DEF Cycle, StageReady
    <3>2. QED
      BY <1>t, <3>1, WaitingRequest
  <2>3. QED
    BY <2>1, <2>2
<1>6. OutputRight'
  <2> SUFFICES ASSUME NEW c \in Channels, queueOut'[c] # <<>>, ~queueOut'[c][1].stalled
               PROVE  \E b \in queueOut'[c][1].bases :
                        queueOut'[c][1].pcie_addr = queueOut'[c][1].offset + b
    BY DEF OutputRight
  <2>1. CASE ~OutReady(c, take)
    <3>1. queueOut'[c] = queueOut[c]
      BY <2>1 DEF Cycle
    <3>2. QED
      BY <1>0, <3>1 DEF OutputRight
  <2>2. CASE OutReady(c, take)
    <3>1. queueOut'[c] = Translation(c) /\ readStage[c] # <<>>
      BY <2>2 DEF Cycle
    <3>2. /\ queueOut'[c][1].offset = readStage[c][1].offset
          /\ queueOut'[c][1].bases = readStage[c][1].bases
          /\ queueOut'[c][1].stalled = readStage[c][1].stalled
          /\ queueOut'[c][1].pcie_addr = readStage[c][1].offset + read[c]
      BY <1>0, <3>1, LeavingRequest
    <3>3. read[c] \in readStage[c][1].bases
      BY <1>0, <3>1, <3>2 DEF ReadBelongs
    <3>4. QED
      BY <3>2, <3>3
  <2>3. QED
    BY <2>1, <2>2
<1>7. QED
  BY <1>1, <1>3, <1>4, <1>5, <1>6 DEF MapInv

-----------------------------------------------------------------------------
\* The initial state.
LEMMA InitMap == Init => MapInv
<1> SUFFICES ASSUME Init PROVE MapInv
  OBVIOUS
<1>1. ASSUME NEW S PROVE <<>> \in AtMostOne(S)
  BY DEF AtMostOne
<1>2. MapType
  BY <1>1 DEF Init, MapType, TypeOK
<1>3. MemoryCurrent
  BY DEF Init, MemoryCurrent, Written, MemorySlots
<1>4. QED
  BY <1>2, <1>3 DEF Init, MapInv, ReadableBases, ReadBelongs, OutputRight

\* Every register of the address map keeps its type.
THEOREM TypeCorrect == Spec => []TypeOK
<1>1. Init => MapType
  BY InitMap DEF MapInv
<1>2. MapType /\ [Next]_vars => MapType'
  <2>1. MapType /\ Next => MapType'
    BY TypeStep DEF Next
  <2>2. MapType /\ UNCHANGED vars => MapType'
    BY DEF MapType, TypeOK, vars
  <2>3. QED
    BY <2>1, <2>2
<1>3. MapType => TypeOK
  BY DEF MapType
<1>4. QED
  BY <1>1, <1>2, <1>3, PTL DEF Spec

\* "performs DMA address translations for read and write requests": a request
\* that does not wait in the read stage leaves with a translation of its own
\* channel and port that was current between its acceptance and its read, as
\* long as the slots of the channels do not overlap.
THEOREM UnstalledTranslated ==
  ASSUME PortsFit
  PROVE  Spec => []UnstalledRight
<1>1. MapInv /\ [Next]_vars => MapInv'
  <2>1. MapInv /\ Next => MapInv'
    BY TranslationStep DEF Next
  <2>2. MapInv /\ UNCHANGED vars => MapInv'
    BY DEF MapInv, MapType, TypeOK, MemoryCurrent, Written, ReadableBases, ReadBelongs,
           OutputRight, vars
  <2>3. QED
    BY <2>1, <2>2
<1>2. MapInv => UnstalledRight
  <2> SUFFICES ASSUME MapInv, NEW r \in Outgoing, ~r.stalled
               PROVE  r.pcie_addr \in {r.offset + b : b \in r.bases}
    BY DEF UnstalledRight
  <2>1. PICK c \in Channels : r \in {queueOut[c][i] : i \in DOMAIN queueOut[c]}
    BY DEF Outgoing
  <2>2. queueOut[c] \in AtMostOne(Translated)
    BY DEF MapInv, MapType, TypeOK
  <2>3. queueOut[c] # <<>> /\ r = queueOut[c][1]
    BY <2>1, <2>2, Register
  <2>4. QED
    BY <2>3 DEF MapInv, OutputRight
<1>3. QED
  BY InitMap, <1>1, <1>2, PTL DEF Spec

-----------------------------------------------------------------------------
\* A register seen by the abstract channel.
LEMMA PlainRegister ==
  ASSUME NEW q, q \in AtMostOne(InFlight) \/ q \in AtMostOne(Translated)
  PROVE  /\ Plain(q) \in AtMostOne(Requests)
         /\ Plain(q) = IF q = <<>> THEN <<>>
                       ELSE <<[port |-> q[1].port, offset |-> q[1].offset]>>
         /\ Plain(q) = <<>> <=> q = <<>>
<1>1. CASE q = <<>>
  <2>1. Plain(<<>>) = <<>>
    BY DEF Plain
  <2>2. QED
    BY <1>1, <2>1 DEF AtMostOne
<1>2. CASE q # <<>>
  <2> DEFINE e == [port |-> q[1].port, offset |-> q[1].offset]
  <2>1. (q[1] \in InFlight \/ q[1] \in Translated) /\ DOMAIN q = 1..1
    BY <1>2, Register
  <2>2. e \in Requests
    BY <2>1 DEF InFlight, Translated, Requests
  <2>3. Plain(q) = <<e>>
    <3>1. ASSUME NEW y PROVE [i \in 1..1 |-> y] = <<y>>
      OBVIOUS
    <3>2. ASSUME NEW i \in 1..1 PROVE [port |-> q[i].port, offset |-> q[i].offset] = e
      <4>1. i = 1
        OBVIOUS
      <4>2. QED
        BY <4>1
    <3>3. QED
      BY <2>1, <3>1, <3>2 DEF Plain
  <2>4. <<e>> \in AtMostOne(Requests)
    BY <2>2, RegisterType
  <2>5. ASSUME NEW y PROVE <<y>> # <<>>
    OBVIOUS
  <2>6. Plain(q) # <<>>
    BY <2>3, <2>5
  <2>7. QED
    BY <1>2, <2>3, <2>4, <2>6
<1>3. QED
  BY <1>1, <1>2

\* A request that arrives is the one the abstract channel is given.
LEMMA PlainArrival ==
  ASSUME NEW requests \in [Channels -> AtMostOne(Requests)], NEW c \in Channels,
         NEW cur \in [Channels -> [Ports -> Bases \cup {0}]],
         current \in [Channels -> [Ports -> Bases \cup {0}]]
  PROVE  /\ Accepted(c, requests, cur) \in AtMostOne(InFlight)
         /\ Plain(Accepted(c, requests, cur)) = requests[c]
<1>1. CASE requests[c] = <<>>
  <2>1. Accepted(c, requests, cur) = <<>>
    BY <1>1 DEF Accepted
  <2>2. <<>> \in AtMostOne(InFlight)
    BY DEF AtMostOne
  <2>3. QED
    BY <1>1, <2>1, <2>2, PlainRegister
<1>2. CASE requests[c] # <<>>
  <2> DEFINE a == Accepted(c, requests, cur)
  <2>1. /\ a \in AtMostOne(InFlight) /\ a # <<>>
        /\ a[1].port = requests[c][1].port /\ a[1].offset = requests[c][1].offset
    BY <1>2, ArrivingRequest, ZenonT(60)
  <2>2. requests[c][1] \in Requests /\ requests[c] = <<requests[c][1]>>
    BY <1>2, Register
  <2>3. requests[c][1] = [port |-> requests[c][1].port, offset |-> requests[c][1].offset]
    BY <2>2 DEF Requests
  <2> HIDE DEF a
  <2>4. Plain(a) = <<[port |-> a[1].port, offset |-> a[1].offset]>>
    BY <2>1, PlainRegister
  <2>5. QED
    BY <2>1, <2>2, <2>3, <2>4 DEF a
<1>3. QED
  BY <1>1, <1>2

\* The oldest request of a channel, and the others.
LEMMA OldestAndRest ==
  ASSUME NEW S, NEW x \in S, NEW q \in Seq(S)
  PROVE  /\ SubSeq(<<x>> \o q, 1, 1) = <<x>>
         /\ SubSeq(<<x>> \o q, 2, Len(<<x>> \o q)) = q
<1> DEFINE w == <<x>> \o q
<1>1. w \in Seq(S) /\ Len(w) = Len(q) + 1 /\ w[1] = x /\ \A i \in 1..Len(q) : w[i + 1] = q[i]
  OBVIOUS
<1>2. Len(q) \in Nat
  OBVIOUS
<1> HIDE DEF w
<1>3. SubSeq(w, 1, 1) = <<x>>
  <2>1. SubSeq(w, 1, 1) \in Seq(S) /\ Len(SubSeq(w, 1, 1)) = 1 /\ SubSeq(w, 1, 1)[1] = x
    BY <1>1, <1>2
  <2>2. <<x>> \in Seq(S) /\ Len(<<x>>) = 1 /\ <<x>>[1] = x
    OBVIOUS
  <2>3. \A i \in 1..1 : SubSeq(w, 1, 1)[i] = <<x>>[i]
    <3>1. \A i \in 1..1 : i = 1
      OBVIOUS
    <3>2. QED
      BY <2>1, <2>2, <3>1
  <2>4. QED
    BY <2>1, <2>2, <2>3, SeqEqual
<1>4. SubSeq(w, 2, Len(w)) = q
  <2>1. SubSeq(w, 2, Len(w)) \in Seq(S) /\ Len(SubSeq(w, 2, Len(w))) = Len(q)
    BY <1>1, <1>2
  <2>2. \A i \in 1..Len(q) : SubSeq(w, 2, Len(w))[i] = q[i]
    BY <1>1, <1>2
  <2>3. QED
    BY <2>1, <2>2, SeqEqual
<1>5. QED
  BY <1>3, <1>4 DEF w

\* One cycle of a channel: the requests in its queues move on, and what leaves
\* queueOut is what the PCIe core takes.
LEMMA ChannelStep ==
  ASSUME MapType, NEW mapping \in AtMostOne(Mappings),
         NEW requests \in [Channels -> AtMostOne(Requests)],
         NEW take \in SUBSET Channels, Cycle(mapping, requests, take),
         NEW c \in Channels
  PROVE  Channel(c)!Next
<1> DEFINE out == Plain(queueOut[c])
           stage == Plain(readStage[c])
           in == Plain(queueIn[c])
           new == requests[c]
           Seqs == Seq(Requests)
<1>1. /\ queueOut[c] \in AtMostOne(Translated) /\ readStage[c] \in AtMostOne(InFlight)
      /\ queueIn[c] \in AtMostOne(InFlight)
      /\ current \in [Channels -> [Ports -> Bases \cup {0}]]
      /\ current' \in [Channels -> [Ports -> Bases \cup {0}]]
      /\ current' = Current(mapping)
  BY CurrentStep DEF MapType, TypeOK, Cycle
<1>2. /\ out \in AtMostOne(Requests) /\ stage \in AtMostOne(Requests)
      /\ in \in AtMostOne(Requests) /\ new \in AtMostOne(Requests)
  <2>1. out \in AtMostOne(Requests)
    BY <1>1, PlainRegister
  <2>2. stage \in AtMostOne(Requests) /\ in \in AtMostOne(Requests)
    BY <1>1, PlainRegister
  <2>3. new \in AtMostOne(Requests)
    OBVIOUS
  <2>4. QED
    BY <2>1, <2>2, <2>3
<1>3. /\ out = <<>> <=> queueOut[c] = <<>>
      /\ stage = <<>> <=> readStage[c] = <<>>
      /\ in = <<>> <=> queueIn[c] = <<>>
  <2>1. out = <<>> <=> queueOut[c] = <<>>
    BY <1>1, PlainRegister
  <2>2. stage = <<>> <=> readStage[c] = <<>>
    BY <1>1, PlainRegister
  <2>3. in = <<>> <=> queueIn[c] = <<>>
    BY <1>1, PlainRegister
  <2>4. QED
    BY <2>1, <2>2, <2>3
<1>4. Plain(issued'[c]) = IF c \in take THEN out ELSE <<>>
  <2>1. issued'[c] = IF c \in take THEN queueOut[c] ELSE <<>>
    BY DEF Cycle
  <2>2. Plain(<<>>) = <<>>
    BY DEF Plain
  <2>3. QED
    BY <2>1, <2>2
<1>5. Plain(queueOut'[c]) = IF OutReady(c, take) THEN stage ELSE out
  <2>1. queueOut'[c] = IF ~OutReady(c, take) THEN queueOut[c]
                       ELSE IF readStage[c] = <<>> THEN <<>> ELSE Translation(c)
    BY DEF Cycle
  <2>2. Plain(<<>>) = <<>>
    BY DEF Plain
  <2>3. ASSUME readStage[c] # <<>> PROVE Plain(Translation(c)) = stage
    <3>1. /\ Translation(c) \in AtMostOne(Translated) /\ Translation(c) # <<>>
          /\ Translation(c)[1].port = readStage[c][1].port
          /\ Translation(c)[1].offset = readStage[c][1].offset
      BY <2>3, LeavingRequest
    <3>2. stage = <<[port |-> readStage[c][1].port, offset |-> readStage[c][1].offset]>>
      BY <1>1, <2>3, PlainRegister
    <3>3. Plain(Translation(c)) =
            <<[port |-> Translation(c)[1].port, offset |-> Translation(c)[1].offset]>>
      BY <3>1, PlainRegister
    <3>4. QED
      BY <3>1, <3>2, <3>3
  <2>4. QED
    BY <1>3, <2>1, <2>2, <2>3
<1>6. Plain(readStage'[c]) = IF StageReady(c, take) THEN in ELSE stage
  <2>1. readStage'[c] = IF StageReady(c, take) THEN queueIn[c] ELSE Stalled(readStage[c])
    BY DEF Cycle
  <2>2. ASSUME readStage[c] # <<>> PROVE Plain(Stalled(readStage[c])) = stage
    <3> DEFINE w == Stalled(readStage[c])
    <3>1. /\ w \in AtMostOne(InFlight) /\ w # <<>>
          /\ w[1].port = readStage[c][1].port /\ w[1].offset = readStage[c][1].offset
      BY <1>1, <2>2, WaitingRequest
    <3> HIDE DEF w
    <3>2. stage = <<[port |-> readStage[c][1].port, offset |-> readStage[c][1].offset]>>
      BY <1>1, <2>2, PlainRegister
    <3>3. Plain(w) = <<[port |-> w[1].port, offset |-> w[1].offset]>>
      BY <3>1, PlainRegister
    <3>4. QED
      BY <3>1, <3>2, <3>3 DEF w
  <2>3. QED
    BY <2>1, <2>2 DEF StageReady
<1>7. Plain(queueIn'[c]) = IF InReady(c, take) THEN new ELSE in
  <2>1. queueIn'[c] = IF InReady(c, take) THEN Accepted(c, requests, current')
                      ELSE Aged(c, queueIn[c], current')
    BY <1>1 DEF Cycle
  <2>2. Plain(Accepted(c, requests, current')) = new
    BY <1>1, PlainArrival
  <2>3. ASSUME queueIn[c] # <<>> PROVE Plain(Aged(c, queueIn[c], current')) = in
    <3> DEFINE w == Aged(c, queueIn[c], current')
    <3>1. /\ w \in AtMostOne(InFlight) /\ w # <<>>
          /\ w[1].port = queueIn[c][1].port /\ w[1].offset = queueIn[c][1].offset
      BY <1>1, <2>3, WaitingRequest
    <3> HIDE DEF w
    <3>2. in = <<[port |-> queueIn[c][1].port, offset |-> queueIn[c][1].offset]>>
      BY <1>1, <2>3, PlainRegister
    <3>3. Plain(w) = <<[port |-> w[1].port, offset |-> w[1].offset]>>
      BY <3>1, PlainRegister
    <3>4. QED
      BY <3>1, <3>2, <3>3 DEF w
  <2>4. QED
    BY <2>1, <2>2, <2>3 DEF InReady
<1>8. new # <<>> => InReady(c, take)
  BY DEF Cycle
<1>9. /\ OutReady(c, take) <=> out = <<>> \/ c \in take
      /\ StageReady(c, take) <=> stage = <<>> \/ OutReady(c, take)
      /\ InReady(c, take) <=> in = <<>> \/ StageReady(c, take)
  BY <1>3 DEF OutReady, StageReady, InReady
<1>10. /\ Carried(c) = out \o stage \o in
       /\ Carried(c)' = Plain(queueOut'[c]) \o Plain(readStage'[c]) \o Plain(queueIn'[c])
  BY DEF Carried, Plain
<1> HIDE DEF out, stage, in, new
<1>11. /\ out \in Seqs /\ stage \in Seqs /\ in \in Seqs /\ new \in Seqs
       /\ Len(out) \in 0..1 /\ Len(stage) \in 0..1 /\ Len(in) \in 0..1 /\ Len(new) \in 0..1
  BY <1>2, Register
<1>12. CASE OutReady(c, take) /\ out # <<>>
  <2>1. Carried(c)' = stage \o in \o new
    BY <1>5, <1>6, <1>7, <1>9, <1>10, <1>12
  <2>2. PICK x \in Requests : out = <<x>>
    BY <1>2, <1>12, Register
  <2>3. Carried(c) = <<x>> \o (stage \o in) /\ stage \o in \in Seqs
    BY <1>10, <1>11, <2>2
  <2>4. SubSeq(Carried(c), 1, 1) = out /\ SubSeq(Carried(c), 1 + 1, Len(Carried(c))) = stage \o in
    <3> DEFINE rest == stage \o in
    <3>1. rest \in Seq(Requests)
      BY <2>3
    <3> HIDE DEF rest
    <3>2. /\ SubSeq(<<x>> \o rest, 1, 1) = <<x>>
          /\ SubSeq(<<x>> \o rest, 2, Len(<<x>> \o rest)) = rest
      BY <3>1, OldestAndRest
    <3>3. Carried(c) = <<x>> \o rest /\ 1 + 1 = 2
      BY <2>3 DEF rest
    <3>4. QED
      BY <2>2, <3>2, <3>3 DEF rest
  <2>5. Len(Carried(c)) >= 1 /\ Len(Carried(c)') <= 3
    <3>1. /\ Len(stage \o in) = Len(stage) + Len(in)
          /\ Len(stage \o in \o new) = Len(stage) + Len(in) + Len(new)
      BY <1>11, <2>3
    <3>2. Len(Carried(c)) = 1 + Len(stage \o in)
      BY <2>3
    <3>3. \A k, l, n \in 0..1 : (k + l) + n <= 3 /\ 1 + (k + l) >= 1
      OBVIOUS
    <3>4. QED
      BY <1>11, <2>1, <3>1, <3>2, <3>3
  <2>6. Plain(issued[c])' = out
    BY <1>4, <1>9, <1>12 DEF Plain
  <2>7. QED
    BY <1>2, <2>1, <2>4, <2>5, <2>6, SMTT(60) DEF Channel!Next, Channel!AtMostOne, AtMostOne
<1>13. CASE ~(OutReady(c, take) /\ out # <<>>)
  <2>1. Plain(issued[c])' = <<>>
    BY <1>4, <1>9, <1>13 DEF Plain
  <2>2. Carried(c)' = Carried(c) \o new
    <3>1. CASE OutReady(c, take)
      BY <1>5, <1>6, <1>7, <1>9, <1>10, <1>11, <1>13, <3>1
    <3>2. CASE ~OutReady(c, take) /\ stage = <<>>
      BY <1>5, <1>6, <1>7, <1>9, <1>10, <1>11, <3>2
    <3>3. CASE ~OutReady(c, take) /\ stage # <<>> /\ in = <<>>
      <4>1. Carried(c)' = out \o stage \o new
        BY <1>5, <1>6, <1>7, <1>9, <1>10, <3>3
      <4>2. Carried(c) = out \o stage
        BY <1>10, <1>11, <3>3
      <4>3. QED
        BY <4>1, <4>2
    <3>4. CASE ~OutReady(c, take) /\ stage # <<>> /\ in # <<>>
      <4>1. Carried(c)' = out \o stage \o in /\ new = <<>>
        BY <1>5, <1>6, <1>7, <1>8, <1>9, <1>10, <3>4
      <4>2. out \o stage \o in \in Seqs
        BY <1>11
      <4>3. QED
        BY <1>10, <4>1, <4>2
    <3>5. QED
      BY <3>1, <3>2, <3>3, <3>4
  <2>3. Carried(c) \in Seqs
    BY <1>10, <1>11
  <2>4. SubSeq(Carried(c), 1, 0) = <<>> /\ SubSeq(Carried(c), 0 + 1, Len(Carried(c))) = Carried(c)
    BY <2>3, SubSeqFull, SubSeqEmpty
  <2>5. Len(Carried(c)) >= 0 /\ Len(Carried(c)') <= 3
    <3>1. /\ Plain(queueOut'[c]) \in Seqs /\ Len(Plain(queueOut'[c])) \in 0..1
          /\ Plain(readStage'[c]) \in Seqs /\ Len(Plain(readStage'[c])) \in 0..1
          /\ Plain(queueIn'[c]) \in Seqs /\ Len(Plain(queueIn'[c])) \in 0..1
      BY <1>5, <1>6, <1>7, <1>11
    <3>2. ASSUME NEW q \in Seqs, NEW r \in Seqs, NEW t \in Seqs,
                 Len(q) \in 0..1, Len(r) \in 0..1, Len(t) \in 0..1
          PROVE  Len(q \o r \o t) <= 3
      <4>1. q \o r \in Seqs /\ Len(q \o r) = Len(q) + Len(r)
        OBVIOUS
      <4>2. Len(q \o r \o t) = Len(q \o r) + Len(t)
        BY <4>1
      <4>3. \A k, l, n \in 0..1 : (k + l) + n <= 3
        OBVIOUS
      <4>4. QED
        BY <3>2, <4>1, <4>2, <4>3
    <3>3. Len(Carried(c)) \in Nat
      BY <2>3
    <3>4. QED
      BY <1>10, <3>1, <3>2, <3>3
  <2>6. QED
    BY <1>2, <2>1, <2>2, <2>4, <2>5, SMTT(60) DEF Channel!Next, Channel!AtMostOne, AtMostOne
<1>14. QED
  BY <1>12, <1>13

\* The queues of AddressMap: every channel implements RequestChannel, so that
\* no request is lost, duplicated or reordered under any back pressure.
THEOREM ChannelsCarryInOrder == Spec => CarriesInOrder
<1>1. Init => \A c \in Channels : Channel(c)!Init
  BY DEF Init, Channel!Init, Carried, Plain
<1>2. Init => MapType
  BY InitMap DEF MapInv
<1>3. MapType /\ [Next]_vars => MapType'
  BY TypeStep DEF Next, MapType, TypeOK, vars
<1>4. MapType /\ [Next]_vars =>
        [\A c \in Channels : [Channel(c)!Next]_<<Carried(c), Plain(issued[c])>>]_vars
  BY ChannelStep DEF Next
<1>5. QED
  BY <1>1, <1>2, <1>3, <1>4, PTL DEF Spec, CarriesInOrder
=============================================================================
